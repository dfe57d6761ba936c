------------------------------ MODULE RleProofs ------------------------------
(***************************************************************************)
(* The run-length encoder, for every set of sample values and every count  *)
(* width, and the core behind it, for every buffer: what was proved of     *)
(* each alone holds of both together, a trigger sample that comes while    *)
(* the core is ARMED reaches it, and decoding gives back the samples: of   *)
(* all words of the encoder, and of those a finished run has stored.  In   *)
(* the bench the words are those of the golden encoder.                    *)
(***************************************************************************)
EXTENDS RleCapture, ScopeRleBench, ScopeCoreProofs

----------------------------------------------------------------------------
(* The encoder. *)

\* Exactly the empty word sequence has length zero.
LEMMA EmptyByLength ==
  ASSUME NEW q \in Seq(Words)
  PROVE  Len(q) \in Nat /\ (q = <<>> <=> Len(q) = 0)
  OBVIOUS

\* A sample yields at most two words, two only when a run is outstanding,
\* and all of them are words of the format (scope_rle.sv 79-116).
LEMMA ProducedShape ==
  ASSUME NEW s \in Samples, enable \in BOOLEAN, acc \in 0 .. MaxRun - 1
  PROVE  /\ Produced(s) \in Seq(Words)
         /\ Len(Produced(s)) \in 0 .. 2
         /\ Len(Produced(s)) = 2 => acc # 0
  <1>. USE MaxRunAssumption
  <1>1. /\ DataWord(s) \in Words
        /\ acc # 0 => CountWord(acc) \in Words
        /\ CountWord(MaxRun) \in Words
    BY DEF DataWord, CountWord, Words, Samples
  <1>. QED BY <1>1 DEF Produced

\* What one clock edge does to the word history and to the skid.
LEMMA EmitShape ==
  ASSUME NEW produced \in Seq(Words), Len(produced) \in 0 .. 2,
         pend \in Seq(Words), Len(pend) <= 1,
         Len(pend) + Len(produced) <= 2, out \in Seq(Words),
         Emit(produced)
  PROVE  /\ out' \in Seq(Words) /\ pend' \in Seq(Words)
         /\ Len(out') \in Nat /\ Len(pend') \in Nat /\ Len(pend') <= 1
         /\ Len(out') + Len(pend') = Len(out) + Len(pend) + Len(produced)
         /\ pend' # <<>> => Len(pend) + Len(produced) = 2
  <1>. DEFINE queue == pend \o produced
  <1>1. queue \in Seq(Words) /\ Len(queue) = Len(pend) + Len(produced)
    OBVIOUS
  <1>2. CASE Len(queue) = 0
    <2>1. queue = <<>> BY <1>1, <1>2
    <2>. QED BY <1>1, <1>2, <2>1 DEF Emit
  <1>3. CASE Len(queue) > 0
    <2>1. queue # <<>> /\ queue[1] \in Words BY <1>1, <1>3
    <2>2. out' = Append(out, queue[1]) BY <2>1 DEF Emit
    <2>3. out' \in Seq(Words) /\ Len(out') = Len(out) + 1 BY <2>1, <2>2
    <2>4. CASE Len(queue) = 1
      <3>1. pend' = <<>> BY <2>4 DEF Emit
      <3>. QED BY <1>1, <2>3, <2>4, <3>1
    <2>5. CASE Len(queue) = 2
      <3>1. pend' = <<queue[2]>> /\ queue[2] \in Words BY <1>1, <2>5 DEF Emit
      <3>. QED BY <1>1, <2>3, <2>5, <3>1
    <2>. QED BY <1>1, <1>3, <2>4, <2>5
  <1>. QED BY <1>1, <1>2, <1>3

\* The invariant of the encoder holds after reset.
LEMMA RleInitIInv == RleInit => RleIInv
  <1>. SUFFICES ASSUME RleInit PROVE RleIInv
    OBVIOUS
  <1>1. enable \in BOOLEAN /\ havePrev \in BOOLEAN BY Zenon DEF RleInit
  <1>2. /\ prev \in Values /\ acc \in 0 .. MaxRun - 1
        /\ pend \in Seq(Words) /\ Len(pend) <= 1
        /\ raw \in Seq(Samples) /\ out \in Seq(Words) /\ mark \in Nat
    BY MaxRunAssumption DEF RleInit
  <1>3. SkidExcludesRun /\ NeverExpands
    BY DEF RleInit, SkidExcludesRun, NeverExpands
  <1>. QED BY <1>1, <1>2, <1>3, Zenon DEF RleIInv, RleTypeOK

\* One step of the encoder preserves the inductive invariant.
LEMMA RleStepIInv == RleIInv /\ [RleNext]_rleVars => RleIInv'
  <1>. SUFFICES ASSUME RleIInv, [RleNext]_rleVars PROVE RleIInv'
    OBVIOUS
  <1>. DEFINE p  == Len(pend)
              o  == Len(out)
              r  == Len(raw)
              p2 == Len(pend')
              o2 == Len(out')
              r2 == Len(raw')
              open(n) == IF n # 0 THEN 1 ELSE 0
  <1>a. enable \in BOOLEAN /\ havePrev \in BOOLEAN
    BY Zenon DEF RleIInv, RleTypeOK
  <1>b. /\ prev \in Values /\ acc \in 0 .. MaxRun - 1
        /\ pend \in Seq(Words) /\ Len(pend) <= 1
        /\ raw \in Seq(Samples) /\ out \in Seq(Words) /\ mark \in Nat
    BY Zenon DEF RleIInv, RleTypeOK
  <1>c. p \in Nat /\ p <= 1 /\ o \in Nat /\ r \in Nat
    BY <1>b
  <1>d. (pend # <<>> => acc = 0) /\ (p # 0 => pend # <<>>)
    BY <1>b, EmptyByLength DEF RleIInv, SkidExcludesRun
  <1>e. o + p + open(acc) <= r
    BY Zenon DEF RleIInv, NeverExpands
  <1>f. p # 0 => acc = 0 BY <1>d
  <1>1. CASE RleReset
    <2>1. enable' \in BOOLEAN /\ havePrev' \in BOOLEAN BY <1>1, Zenon DEF RleReset
    <2>2. /\ prev' \in Values /\ acc' \in 0 .. MaxRun - 1
          /\ pend' \in Seq(Words) /\ Len(pend') <= 1
          /\ raw' \in Seq(Samples) /\ out' \in Seq(Words) /\ mark' \in Nat
      BY <1>b, <1>1, MaxRunAssumption DEF RleReset
    <2>3. SkidExcludesRun' /\ NeverExpands'
      BY <1>1 DEF RleReset, SkidExcludesRun, NeverExpands
    <2>. QED BY <2>1, <2>2, <2>3, Zenon DEF RleIInv, RleTypeOK
  <1>2. ASSUME NEW s \in Samples, Sample(s) PROVE RleIInv'
    <2>. DEFINE k == Len(Produced(s))
    <2>1. Produced(s) \in Seq(Words) /\ k \in 0 .. 2 /\ (k = 2 => acc # 0)
      BY <1>a, <1>b, ProducedShape
    <2>2. Follow(s) /\ Emit(Produced(s)) /\ raw' = Append(raw, s)
          /\ enable' = enable /\ mark' = mark
      BY <1>2 DEF Sample
    <2>3. enable' \in BOOLEAN /\ havePrev' \in BOOLEAN
      BY <1>a, <2>2, Zenon DEF Follow, runState
    <2>4. prev' \in Values /\ raw' \in Seq(Samples) /\ mark' \in Nat
      <3>1. prev' \in Values BY <1>b, <2>2 DEF Follow, runState, Samples
      <3>. QED BY <1>b, <2>2, <3>1
    <2>5. r2 = r + 1 BY <1>b, <2>2
    <2>6. p + k <= 2
      <3>. HIDE DEF p, k
      <3>. QED BY <1>c, <1>f, <2>1
    <2>7. /\ out' \in Seq(Words) /\ pend' \in Seq(Words)
          /\ o2 \in Nat /\ p2 \in Nat /\ p2 <= 1
          /\ o2 + p2 = o + p + k
          /\ pend' # <<>> => p + k = 2
      BY <1>b, <2>1, <2>2, <2>6, EmitShape
    <2>8. /\ acc' \in 0 .. MaxRun - 1
          /\ pend' # <<>> => acc' = 0
          /\ k + open(acc') <= 1 + open(acc)
      <3>1. CASE ~enable
        <4>1. acc' = acc BY <2>2, <3>1 DEF Follow, runState
        <4>2. k = 1 BY <3>1 DEF Produced
        <4>. HIDE DEF p, k
        <4>3. pend' # <<>> => acc' = 0 BY <1>c, <1>f, <2>7, <4>1, <4>2
        <4>. QED BY <1>b, <4>1, <4>2, <4>3
      <3>2. CASE enable /\ Repeats(s) /\ acc # MaxRun - 1
        <4>1. acc' = acc + 1 BY <2>2, <3>2 DEF Follow
        <4>2. acc' \in 0 .. MaxRun - 1 /\ acc' # 0 BY <1>b, <3>2, <4>1, MaxRunAssumption
        <4>3. k = 0 BY <3>2 DEF Produced, Repeats
        <4>. HIDE DEF p, k
        <4>4. pend' = <<>> BY <1>c, <2>7, <4>3
        <4>. QED BY <4>2, <4>3, <4>4
      <3>3. CASE enable /\ ~(Repeats(s) /\ acc # MaxRun - 1)
        <4>1. acc' = 0 BY <2>2, <3>3 DEF Follow
        <4>. HIDE DEF k
        <4>. QED BY <2>1, <4>1, MaxRunAssumption
      <3>. HIDE DEF p, k, open
      <3>4. ~enable \/ (enable /\ Repeats(s) /\ acc # MaxRun - 1)
              \/ (enable /\ ~(Repeats(s) /\ acc # MaxRun - 1))
        BY Zenon
      <3>. QED BY <3>1, <3>2, <3>3, <3>4
    <2>9. SkidExcludesRun' BY <2>8 DEF SkidExcludesRun
    <2>10. o2 + p2 + open(acc') <= r2
      <3>1. open(acc) \in Nat /\ open(acc') \in Nat OBVIOUS
      <3>. HIDE DEF p, o, r, p2, o2, r2, k, open
      <3>. QED BY <1>c, <1>e, <2>1, <2>5, <2>7, <2>8, <3>1
    <2>11. NeverExpands' BY <2>10, Zenon DEF NeverExpands
    <2>. QED BY <2>3, <2>4, <2>7, <2>8, <2>9, <2>11, Zenon DEF RleIInv, RleTypeOK
  <1>3. CASE Flush
    <2>. DEFINE produced == IF enable /\ acc # 0 THEN <<CountWord(acc)>> ELSE <<>>
                k == Len(produced)
    <2>1. produced \in Seq(Words) /\ k \in 0 .. 1
      <3>1. CASE acc = 0 BY <3>1
      <3>2. CASE acc # 0
        <4>1. CountWord(acc) \in Words BY <1>b, <3>2, MaxRunAssumption DEF CountWord, Words
        <4>. QED BY <4>1
      <3>. QED BY <3>1, <3>2
    <2>2. (k # 0 => acc # 0) /\ (~enable => k = 0) OBVIOUS
    <2>3. Emit(produced) BY <1>3 DEF Flush
    <2>. HIDE DEF produced
    <2>4. p + k <= 1
      <3>. HIDE DEF p, k
      <3>. QED BY <1>c, <1>f, <2>1, <2>2
    <2>5. k \in 0 .. 2 /\ p + k <= 2
      <3>. HIDE DEF p, k
      <3>. QED BY <1>c, <2>1, <2>4
    <2>6. /\ out' \in Seq(Words) /\ pend' \in Seq(Words)
          /\ o2 \in Nat /\ p2 \in Nat /\ p2 <= 1
          /\ o2 + p2 = o + p + k
          /\ pend' # <<>> => p + k = 2
      BY <1>b, <2>1, <2>3, <2>5, EmitShape
    <2>7. SkidExcludesRun'
      <3>. HIDE DEF p, k
      <3>1. pend' = <<>> BY <1>c, <2>1, <2>4, <2>6
      <3>. QED BY <3>1 DEF SkidExcludesRun
    <2>8. enable' \in BOOLEAN /\ havePrev' \in BOOLEAN BY <1>a, <1>3, Zenon DEF Flush
    <2>9. prev' \in Values /\ raw' \in Seq(Samples) /\ mark' \in Nat /\ raw' = raw
      BY <1>b, <1>3 DEF Flush
    <2>10. acc' \in 0 .. MaxRun - 1 /\ k + open(acc') <= open(acc)
      <3>1. CASE enable
        <4>1. acc' = 0 BY <1>3, <3>1 DEF Flush
        <4>. HIDE DEF k
        <4>. QED BY <2>1, <2>2, <4>1, MaxRunAssumption
      <3>2. CASE ~enable
        <4>1. acc' = acc BY <1>3, <3>2 DEF Flush
        <4>. HIDE DEF k
        <4>2. k = 0 BY <2>2, <3>2
        <4>. QED BY <1>b, <4>1, <4>2
      <3>. HIDE DEF k, open
      <3>. QED BY <3>1, <3>2, Zenon
    <2>11. o2 + p2 + open(acc') <= r2
      <3>1. open(acc) \in Nat /\ open(acc') \in Nat OBVIOUS
      <3>2. r2 = r BY <2>9
      <3>. HIDE DEF p, o, r, p2, o2, r2, k, open
      <3>. QED BY <1>c, <1>e, <2>1, <2>6, <2>10, <3>1, <3>2
    <2>12. NeverExpands' BY <2>11, Zenon DEF NeverExpands
    <2>. QED BY <2>6, <2>7, <2>8, <2>9, <2>10, <2>12, Zenon DEF RleIInv, RleTypeOK
  <1>4. CASE Gap
    <2>. DEFINE k == Len(<<>>)
    <2>1. <<>> \in Seq(Words) /\ k = 0 OBVIOUS
    <2>2. Emit(<<>>) BY <1>4 DEF Gap
    <2>3. k \in 0 .. 2 /\ p + k <= 2
      <3>. HIDE DEF p, k
      <3>. QED BY <1>c, <2>1
    <2>4. /\ out' \in Seq(Words) /\ pend' \in Seq(Words)
          /\ o2 \in Nat /\ p2 \in Nat /\ p2 <= 1
          /\ o2 + p2 = o + p + k
          /\ pend' # <<>> => p + k = 2
      BY <1>b, <2>1, <2>2, <2>3, EmitShape
    <2>5. SkidExcludesRun'
      <3>. HIDE DEF p, k
      <3>1. pend' = <<>> BY <1>c, <2>1, <2>4
      <3>. QED BY <3>1 DEF SkidExcludesRun
    <2>6. enable' \in BOOLEAN /\ havePrev' \in BOOLEAN
      BY <1>a, <1>4, Zenon DEF Gap, runState
    <2>7. /\ prev' \in Values /\ acc' \in 0 .. MaxRun - 1
          /\ raw' \in Seq(Samples) /\ mark' \in Nat /\ raw' = raw /\ acc' = acc
      BY <1>b, <1>4 DEF Gap, runState
    <2>8. o2 + p2 + open(acc') <= r2
      <3>1. r2 = r /\ open(acc') = open(acc) /\ open(acc) \in Nat BY <2>7
      <3>. HIDE DEF p, o, r, p2, o2, r2, k, open
      <3>. QED BY <1>c, <1>e, <2>1, <2>4, <3>1
    <2>9. NeverExpands' BY <2>8, Zenon DEF NeverExpands
    <2>. QED BY <2>4, <2>5, <2>6, <2>7, <2>9, Zenon DEF RleIInv, RleTypeOK
  <1>5. CASE Switch
    <2>1. enable' \in BOOLEAN /\ havePrev' \in BOOLEAN
      BY <1>a, <1>5, Zenon DEF Switch, runState
    <2>2. UNCHANGED <<prev, acc, pend, raw, out>> /\ mark' = Len(out) + Len(pend)
      BY <1>5 DEF Switch, runState
    <2>3. mark' \in Nat BY <1>b, <2>2
    <2>4. /\ prev' \in Values /\ acc' \in 0 .. MaxRun - 1
          /\ pend' \in Seq(Words) /\ Len(pend') <= 1
          /\ raw' \in Seq(Samples) /\ out' \in Seq(Words)
      BY <1>b, <2>2
    <2>5. SkidExcludesRun' /\ NeverExpands'
      BY <1>d, <1>e, <2>2 DEF SkidExcludesRun, NeverExpands
    <2>. QED BY <2>1, <2>3, <2>4, <2>5, Zenon DEF RleIInv, RleTypeOK
  <1>6. CASE UNCHANGED rleVars
    BY <1>6, Zenon
    DEF rleVars, runState, RleIInv, RleTypeOK, SkidExcludesRun, NeverExpands
  <1>. QED BY <1>1, <1>2, <1>3, <1>4, <1>5, <1>6 DEF RleNext

\* The invariant of the encoder holds in every state.
LEMMA RleInvariant == RleSpec => []RleIInv
  BY RleInitIInv, RleStepIInv, PTL DEF RleSpec

----------------------------------------------------------------------------
\* Registers and history of the encoder keep their types, whatever mix of
\* encoding, bypass, flushes and resets it goes through (scope_rle.sv 131-150).
THEOREM RleTypeCorrect == RleSpec => []RleTypeOK
  BY RleInvariant, PTL DEF RleIInv

\* The words a sample produces never overflow the skid.
LEMMA SkidHolds ==
  ASSUME RleIInv, NEW s \in Samples
  PROVE  Len(pend) + Len(Produced(s)) <= 2
<1> DEFINE p == Len(pend)
           k == Len(Produced(s))
<1>1. /\ enable \in BOOLEAN /\ acc \in 0 .. MaxRun - 1
      /\ pend \in Seq(Words) /\ p <= 1 /\ (pend # <<>> => acc = 0)
  BY Zenon DEF RleIInv, RleTypeOK, SkidExcludesRun
<1>2. k \in 0 .. 2 /\ (k = 2 => acc # 0)
  BY <1>1, ProducedShape
<1>3. p \in Nat /\ (pend = <<>> <=> p = 0)
  BY <1>1, EmptyByLength
<1>4. p <= 1 /\ (pend # <<>> => acc = 0)
  BY <1>1, Zenon
<1> HIDE DEF p, k
<1>5. p + k <= 2
  BY <1>2, <1>3, <1>4
<1> QED
  BY <1>5 DEF p, k

\* The skid is never asked to hold two words, so no word is lost (scope_rle.sv
\* 118-120).
THEOREM SkidSuffices == RleSpec => []SkidNeverOverflows
<1>1. RleIInv => SkidNeverOverflows
  BY SkidHolds DEF SkidNeverOverflows
<1> QED
  BY <1>1, RleInvariant, PTL

\* Encoding never takes more words than samples: formal property (c) without
\* its allowance of one word (scope_rle.sv 153-168).
THEOREM EncodingNeverExpands == RleSpec => []NeverExpands
  BY RleInvariant, PTL DEF RleIInv

----------------------------------------------------------------------------
(* The core behind the encoder. *)

\* A step of the composition is a step of the encoder.
LEMMA StepsOfEncoder == [CaptureNext]_captureVars => [RleNext]_rleVars
  BY DEF CaptureNext, captureVars, SampleCycle, IdleCycle, Configure, RleNext

\* A step of the composition is a step of the core or leaves it alone.
LEMMA StepsOfCore == [CaptureNext]_captureVars => [Next]_vars
<1> SUFFICES ASSUME CaptureNext PROVE [Next]_vars
  BY DEF captureVars
<1>1. ASSUME NEW produced, NEW a \in BOOLEAN, NEW d \in BOOLEAN, Feed(produced, a, d)
      PROVE  Next
  <2> DEFINE queue == pend \o produced
             v == queue # <<>>
             t == queue # <<>> /\ queue[1].trig
  <2>1. Edge(v, t, a, d)
    BY <1>1 DEF Feed
  <2>2. v \in BOOLEAN /\ t \in BOOLEAN
    OBVIOUS
  <2> HIDE DEF v, t
  <2> QED
    BY <2>1, <2>2 DEF Next
<1>2. CASE \E p \in Addresses : Configure(p)
  BY <1>2 DEF Configure, Next
<1> QED
  BY <1>1, <1>2 DEF CaptureNext, SampleCycle, IdleCycle

\* The invariant of the encoder holds in the composition.
LEMMA EncoderInvariant == CaptureSpec => []RleIInv
<1>1. ASSUME CaptureInit PROVE RleIInv
  <2>1. enable \in BOOLEAN /\ havePrev \in BOOLEAN
    BY <1>1, Zenon DEF CaptureInit
  <2>2. /\ prev \in Values /\ acc \in 0 .. MaxRun - 1
        /\ pend \in Seq(Words) /\ Len(pend) <= 1
        /\ raw \in Seq(Samples) /\ out \in Seq(Words) /\ mark \in Nat
    BY <1>1, MaxRunAssumption DEF CaptureInit
  <2>3. SkidExcludesRun /\ NeverExpands
    BY <1>1 DEF CaptureInit, SkidExcludesRun, NeverExpands
  <2> QED
    BY <2>1, <2>2, <2>3, Zenon DEF RleIInv, RleTypeOK
<1>2. RleIInv /\ [CaptureNext]_captureVars => RleIInv'
  BY StepsOfEncoder, RleStepIInv
<1> QED
  BY <1>1, <1>2, PTL DEF CaptureSpec

\* Behind the encoder the core takes no step that its own specification does
\* not allow (scope_top.sv 198-233): its theorems are theorems about words.
THEOREM CaptureImplementsCore == CaptureSpec => Spec
<1>1. CaptureInit => Init
  BY DEF CaptureInit
<1> QED
  BY <1>1, StepsOfCore, PTL DEF CaptureSpec, Spec

----------------------------------------------------------------------------
\* While the core fills, nothing is owed yet.
OwedInv == st = "FILLING" => ~owed

CaptureInv == OwedInv /\ TriggerNeverLost

\* What the core does on an edge while it captures, as the trigger sees it.
LEMMA TriggerEdgeShape ==
  ASSUME NEW v, NEW t, NEW a, NEW d, Edge(v, t, a, d)
  PROVE  /\ st' = "ARMED" => st = "FILLING" \/ (st = "ARMED" /\ ~(v /\ t))
         /\ st' = "FILLING" => st = "FILLING" \/ st \notin Capturing
<1>1. CASE d /\ Disarm(v, t)
  BY <1>1 DEF Disarm
<1>2. CASE Fill(v, t)
  BY <1>2 DEF Fill
<1>3. CASE Watch(v, t)
  BY <1>3 DEF Watch, Accepts
<1>4. CASE Collect(v, t)
  BY <1>4 DEF Collect
<1>5. CASE Arm
  BY <1>5 DEF Arm, StartWindow, Capturing
<1>6. CASE NextWindow
  BY <1>6 DEF NextWindow, StartWindow, Capturing
<1>7. CASE Rest
  BY <1>7 DEF Rest, vars
<1> QED
  BY <1>1, <1>2, <1>3, <1>4, <1>5, <1>6, <1>7 DEF Edge

\* One cycle with the words that produced holds.
LEMMA CycleKeepsTrigger ==
  ASSUME CaptureInv, pend \in Seq(Words), Len(pend) <= 1,
         NEW produced \in Seq(Words), Len(pend) + Len(produced) <= 2,
         NEW a \in BOOLEAN, NEW d \in BOOLEAN,
         Emit(produced), Feed(produced, a, d), Trace(produced)
  PROVE  CaptureInv'
<1> DEFINE queue == pend \o produced
           v == queue # <<>>
           t == queue # <<>> /\ queue[1].trig
<1>1. /\ st' = "ARMED" => st = "FILLING" \/ (st = "ARMED" /\ ~(v /\ t))
      /\ st' = "FILLING" => st = "FILLING" \/ st \notin Capturing
  <2>1. Edge(v, t, a, d)
    BY DEF Feed
  <2> QED
    BY <2>1, TriggerEdgeShape
<1>2. owed' = IF st \notin Capturing /\ st' = "FILLING" THEN FALSE
              ELSE owed \/ (st = "ARMED" /\ \E i \in DOMAIN produced : produced[i].trig)
  BY DEF Trace
<1>3. OwedInv'
  BY <1>1, <1>2 DEF CaptureInv, OwedInv, Capturing
<1>4. ASSUME owed', st' = "ARMED" PROVE pend' # <<>> /\ pend'[1].trig
  <2>1. st = "ARMED" /\ ~(v /\ t)
    BY <1>1, <1>2, <1>4 DEF CaptureInv, OwedInv, Capturing
  <2>2. pend # <<>> => queue # <<>> /\ queue[1] = pend[1]
    OBVIOUS
  <2>3. ~owed
    BY <2>1, <2>2 DEF CaptureInv, TriggerNeverLost
  <2>4. PICK i \in DOMAIN produced : produced[i].trig
    BY <1>2, <1>4, <2>1, <2>3
  <2>5. i \in 1 .. Len(produced) /\ Len(queue) = Len(pend) + Len(produced)
    BY <2>4
  <2>6. queue[Len(pend) + i] = produced[i]
    BY <2>5
  <2>7. Len(pend) + i # 1
    <3>1. queue # <<>>
      BY <2>5
    <3> QED
      BY <2>1, <2>4, <2>6, <3>1
  <2>8. Len(pend) + i = 2 /\ Len(queue) = 2
    BY <2>5, <2>7
  <2>9. pend' = <<queue[2]>>
    BY <2>8 DEF Emit
  <2>10. queue[2].trig
    BY <2>4, <2>6, <2>8
  <2> QED
    BY <2>9, <2>10
<1> QED
  BY <1>3, <1>4 DEF CaptureInv, TriggerNeverLost

\* A trigger the encoder owes the core stays in the skid until handed over.
LEMMA OwedStep == RleIInv /\ CaptureInv /\ [CaptureNext]_captureVars => CaptureInv'
<1> SUFFICES ASSUME RleIInv, CaptureInv, [CaptureNext]_captureVars
             PROVE  CaptureInv'
  OBVIOUS
<1>0. pend \in Seq(Words) /\ Len(pend) <= 1
  BY DEF RleIInv, RleTypeOK
<1>1. ASSUME NEW a \in BOOLEAN, NEW d \in BOOLEAN, NEW s \in Samples, SampleCycle(s, a, d)
      PROVE  CaptureInv'
  <2>1. Produced(s) \in Seq(Words) /\ Len(pend) + Len(Produced(s)) <= 2
    <3>1. enable \in BOOLEAN /\ acc \in 0 .. MaxRun - 1 /\ (pend # <<>> => acc = 0)
      BY Zenon DEF RleIInv, RleTypeOK, SkidExcludesRun
    <3>2. /\ Produced(s) \in Seq(Words) /\ Len(Produced(s)) \in 0 .. 2
          /\ Len(Produced(s)) = 2 => acc # 0
      BY <3>1, ProducedShape, Zenon
    <3>3. Len(pend) \in Nat /\ (pend = <<>> <=> Len(pend) = 0)
      BY <1>0, EmptyByLength
    <3> DEFINE p == Len(pend)
               n == Len(Produced(s))
    <3>4. p \in Nat /\ p <= 1 /\ n \in 0 .. 2
      BY <1>0, <3>2, <3>3, Zenon
    <3>5. p # 0 => n # 2
      BY <3>1, <3>2, <3>3, Zenon
    <3> HIDE DEF p, n
    <3>6. p + n <= 2
      BY <3>4, <3>5
    <3> QED
      BY <3>2, <3>6 DEF p, n
  <2>2. Emit(Produced(s)) /\ Feed(Produced(s), a, d) /\ Trace(Produced(s))
    BY <1>1 DEF SampleCycle, Sample
  <2> QED
    BY <1>0, <2>1, <2>2, CycleKeepsTrigger
<1>2. ASSUME NEW a \in BOOLEAN, NEW d \in BOOLEAN, IdleCycle(a, d)
      PROVE  CaptureInv'
  <2>1. <<>> \in Seq(Words) /\ Len(pend) + Len(<<>>) <= 2
    BY <1>0
  <2>2. Emit(<<>>) /\ Feed(<<>>, a, d) /\ Trace(<<>>)
    BY <1>2 DEF IdleCycle, Gap
  <2> QED
    BY <1>0, <2>1, <2>2, CycleKeepsTrigger
<1>3. CASE \E p \in Addresses : Configure(p)
  BY <1>3 DEF Configure, WritePretrig, rleVars, CaptureInv, OwedInv, TriggerNeverLost
<1>4. CASE UNCHANGED captureVars
  BY <1>4 DEF captureVars, vars, rleVars, CaptureInv, OwedInv, TriggerNeverLost
<1>5. CASE CaptureNext
  <2>1. CASE \E a, d \in BOOLEAN : \/ \E s \in Samples : SampleCycle(s, a, d)
                                  \/ IdleCycle(a, d)
    BY <1>1, <1>2, <2>1
  <2> QED
    BY <1>3, <1>5, <2>1 DEF CaptureNext
<1> QED
  BY <1>4, <1>5

\* A trigger sample that comes while the core is ARMED is accepted, if not at
\* once then with the next word: the one-shot sequencer is never left behind
\* (scope_rle.sv 118-149, scope_top.sv 179-199).
THEOREM TriggerSampleReachesCore == CaptureSpec => []TriggerNeverLost
<1>1. CaptureInit => CaptureInv
  BY DEF CaptureInit, Init, CaptureInv, OwedInv, TriggerNeverLost
<1>2. CaptureInv => TriggerNeverLost
  BY DEF CaptureInv
<1> QED
  BY <1>1, <1>2, EncoderInvariant, OwedStep, PTL DEF CaptureSpec

\* With the encoder in front of it the core keeps a gapless history, of words
\* (scope_core.sv 105-159).
THEOREM CaptureHistoryIsIntact == CaptureSpec => []HistoryIntact
  BY CaptureImplementsCore, HistoryIsIntact, PTL

----------------------------------------------------------------------------
(* What the host decodes, one word at a time. *)

\* A word adds samples.
LEMMA ExpandTypes ==
  ASSUME NEW d \in Seq(Samples), NEW w \in Words
  PROVE  Expand(d, w) \in Seq(Samples)
<1>1. CASE ~w.isCount
  <2>1. [value |-> w.value, trig |-> w.trig] \in Samples
    BY <1>1 DEF Words, Samples
  <2> QED
    BY <1>1, <2>1 DEF Expand
<1>2. CASE w.isCount /\ d = <<>>
  BY <1>2 DEF Expand
<1>3. CASE w.isCount /\ d # <<>>
  <2>1. w.value \in Nat /\ w.trig \in BOOLEAN
    <3>1. w \in [isCount : {TRUE}, value : 1 .. MaxRun, trig : {FALSE}]
      <4>1. w \in [isCount : {FALSE}, value : Values, trig : BOOLEAN] => w.isCount = FALSE
        OBVIOUS
      <4> QED
        BY <1>3, <4>1, Zenon DEF Words
    <3>2. w.value \in 1 .. MaxRun /\ w.trig = FALSE
      BY <3>1
    <3>3. w.value \in Nat
      BY <3>2, MaxRunAssumption
    <3> QED
      BY <3>2, <3>3, Zenon
  <2>2. Last(d) \in Samples
    BY <1>3 DEF Last
  <2> DEFINE one == [value |-> Last(d).value, trig |-> w.trig]
             more == [i \in 1 .. w.value |-> one]
  <2>3. one \in Samples
    BY <2>1, <2>2 DEF Samples
  <2> HIDE DEF one
  <2>4. more \in Seq(Samples)
    BY <2>1, <2>3
  <2>5. Expand(d, w) = d \o more
    BY <1>3 DEF Expand, one
  <2> HIDE DEF more
  <2> QED
    BY <2>4, <2>5
<1> QED
  BY <1>1, <1>2, <1>3

\* The samples after each word of a sequence of words.
Decoding(words) ==
  CHOOSE f : f = [i \in 0 .. Len(words) |->
                    IF i = 0 THEN <<>> ELSE Expand(f[i - 1], words[i])]

Decodes(f, words) ==
  /\ f[0] = <<>>
  /\ \A i \in 0 .. Len(words) : f[i] \in Seq(Samples)
  /\ \A i \in 1 .. Len(words) : f[i] = Expand(f[i - 1], words[i])

\* They exist and are samples.
LEMMA DecodingExists ==
  ASSUME NEW w \in Seq(Words)
  PROVE  Decodes(Decoding(w), w) /\ Decode(w) = Decoding(w)[Len(w)]
<1> DEFINE S == Seq(Samples)
           step == [p \in Nat \X S |-> IF p[1] \in 1 .. Len(w) THEN Expand(p[2], w[p[1]]) ELSE p[2]]
           IsDecoding(f) == f = [i \in 0 .. Len(w) |->
                                   IF i = 0 THEN <<>> ELSE Expand(f[i - 1], w[i])]
<1>1. Len(w) \in Nat /\ \A i \in 1 .. Len(w) : w[i] \in Words
  OBVIOUS
<1>2. step \in [Nat \X S -> S]
  <2>1. ASSUME NEW p \in Nat \X S
        PROVE  (IF p[1] \in 1 .. Len(w) THEN Expand(p[2], w[p[1]]) ELSE p[2]) \in S
    <3>1. p[2] \in S
      OBVIOUS
    <3>2. p[1] \in 1 .. Len(w) => Expand(p[2], w[p[1]]) \in S
      BY <1>1, <3>1, ExpandTypes
    <3> QED
      BY <3>1, <3>2
  <2> QED
    BY <2>1
<1>3. <<>> \in S
  OBVIOUS
<1>4. \A i \in Nat, x \in S : step[<<i, x>>] = IF i \in 1 .. Len(w) THEN Expand(x, w[i]) ELSE x
  OBVIOUS
<1> HIDE DEF step, S
<1>5. PICK h : Solution(h, S, <<>>, step)
  BY <1>2, <1>3, Recursion
<1> DEFINE g == [i \in 0 .. Len(w) |-> h[i]]
<1>6. /\ h \in [Nat -> S] /\ h[0] = <<>>
      /\ \A n \in Nat : h[n + 1] = step[<<n + 1, h[n]>>]
  BY <1>5 DEF Solution
<1>7. IsDecoding(g)
  <2>1. ASSUME NEW i \in 0 .. Len(w)
        PROVE  h[i] = IF i = 0 THEN <<>> ELSE Expand(g[i - 1], w[i])
    <3>1. CASE i = 0
      BY <1>6, <3>1
    <3>2. CASE i # 0
      <4>1. i - 1 \in Nat /\ i - 1 + 1 = i /\ i - 1 \in 0 .. Len(w) /\ i \in Nat /\ i \in 1 .. Len(w)
        BY <3>2
      <4>2. h[i] = step[<<i, h[i - 1]>>] /\ h[i - 1] \in S
        BY <1>6, <4>1
      <4>3. h[i] = Expand(h[i - 1], w[i])
        BY <1>4, <4>1, <4>2
      <4>4. g[i - 1] = h[i - 1]
        BY <4>1
      <4> QED
        BY <3>2, <4>3, <4>4
    <3> QED
      BY <3>1, <3>2
  <2> QED
    BY <2>1
<1> DEFINE f == Decoding(w)
<1>8. IsDecoding(f)
  <2> HIDE DEF g
  <2> QED
    BY <1>7, Zenon DEF Decoding
<1>9. Decode(w) = f[Len(w)]
  BY Zenon DEF Decode, Decoding
<1> HIDE DEF f
<1>10. f[0] = <<>> /\ \A i \in 1 .. Len(w) : f[i] = Expand(f[i - 1], w[i])
  <2>1. f[0] = <<>>
    BY <1>1, <1>8
  <2>2. ASSUME NEW i \in 1 .. Len(w) PROVE f[i] = Expand(f[i - 1], w[i])
    <3>1. i \in 0 .. Len(w) /\ i # 0
      OBVIOUS
    <3> QED
      BY <1>8, <3>1
  <2> QED
    BY <2>1, <2>2
<1>11. \A i \in 0 .. Len(w) : f[i] \in Seq(Samples)
  <2> DEFINE Typed == {i \in Nat : i <= Len(w) => f[i] \in Seq(Samples)}
  <2>1. 0 \in Typed
    <3>1. <<>> \in Seq(Samples)
      OBVIOUS
    <3> QED
      BY <1>10, <3>1
  <2>2. ASSUME NEW n \in Nat, n \in Typed PROVE n + 1 \in Typed
    <3> SUFFICES ASSUME n + 1 <= Len(w) PROVE f[n + 1] \in Seq(Samples)
      OBVIOUS
    <3>1. n + 1 \in 1 .. Len(w) /\ n + 1 - 1 = n /\ f[n] \in Seq(Samples)
      BY <1>1, <2>2
    <3>2. f[n + 1] = Expand(f[n], w[n + 1])
      BY <1>10, <3>1
    <3> QED
      BY <1>1, <3>1, <3>2, ExpandTypes
  <2>3. Nat \subseteq Typed
    BY <2>1, <2>2, SetInduction
  <2> QED
    BY <1>1, <2>3
<1> QED
  <2>1. Decodes(f, w)
    BY <1>10, <1>11 DEF Decodes
  <2> QED
    BY <1>9, <2>1 DEF f

\* Decoding is a matter of the last word.
LEMMA DecodeLaws ==
  ASSUME NEW w \in Seq(Words)
  PROVE  /\ Decode(<<>>) = <<>> /\ Decode(w) \in Seq(Samples)
         /\ \A x \in Words : Decode(Append(w, x)) = Expand(Decode(w), x)
<1>1. Decode(<<>>) = <<>>
  <2>1. <<>> \in Seq(Words) /\ Len(<<>>) = 0
    OBVIOUS
  <2> QED
    BY <2>1, DecodingExists DEF Decodes
<1>2. Decode(w) \in Seq(Samples)
  <2>1. Len(w) \in 0 .. Len(w)
    OBVIOUS
  <2> QED
    BY <2>1, DecodingExists DEF Decodes
<1>3. ASSUME NEW x \in Words PROVE Decode(Append(w, x)) = Expand(Decode(w), x)
  <2> DEFINE v == Append(w, x)
             f == Decoding(w)
             g == Decoding(v)
  <2>1. /\ v \in Seq(Words) /\ Len(v) = Len(w) + 1 /\ Len(w) \in Nat
        /\ v[Len(w) + 1] = x /\ \A i \in 1 .. Len(w) : v[i] = w[i]
    OBVIOUS
  <2> HIDE DEF v, f, g
  <2>2. Decodes(f, w) /\ Decode(w) = f[Len(w)] /\ Decodes(g, v) /\ Decode(v) = g[Len(v)]
    BY <2>1, DecodingExists DEF f, g
  <2> DEFINE Same == {i \in Nat : i <= Len(w) => f[i] = g[i]}
  <2>3. 0 \in Same
    BY <2>2 DEF Decodes
  <2>4. ASSUME NEW n \in Nat, n \in Same PROVE n + 1 \in Same
    <3> SUFFICES ASSUME n + 1 <= Len(w) PROVE f[n + 1] = g[n + 1]
      OBVIOUS
    <3>1. n + 1 \in 1 .. Len(w) /\ n + 1 \in 1 .. Len(v) /\ n + 1 - 1 = n /\ f[n] = g[n]
      BY <2>1, <2>4
    <3>2. f[n + 1] = Expand(f[n], w[n + 1]) /\ g[n + 1] = Expand(g[n], v[n + 1])
      BY <2>2, <3>1 DEF Decodes
    <3> QED
      BY <2>1, <3>1, <3>2
  <2>5. Nat \subseteq Same
    BY <2>3, <2>4, SetInduction
  <2>6. f[Len(w)] = g[Len(w)]
    BY <2>1, <2>5
  <2>7. g[Len(v)] = Expand(g[Len(w)], x)
    <3>1. Len(v) \in 1 .. Len(v) /\ Len(v) - 1 = Len(w) /\ v[Len(v)] = x
      BY <2>1
    <3> QED
      BY <2>2, <3>1 DEF Decodes
  <2> QED
    BY <2>2, <2>6, <2>7 DEF v
<1> QED
  BY <1>1, <1>2, <1>3

----------------------------------------------------------------------------
(* A stretch of samples up to the newest one. *)

Ends(d, r) ==
  Len(d) <= Len(r) /\ \A k \in 1 .. Len(d) : d[k] = r[Len(r) - Len(d) + k]

\* It is a suffix in the sense of the property.
LEMMA EndsIsSuffix ==
  ASSUME NEW d \in Seq(Samples), NEW r \in Seq(Samples), Ends(d, r)
  PROVE  IsSuffix(d, r)
<1> DEFINE m == Len(d)
           n == Len(r)
           dd == Reverse(d)
           rr == Reverse(r)
<1>1. m \in Nat /\ n \in Nat /\ m <= n
  BY DEF Ends
<1>2. /\ dd \in Seq(Samples) /\ Len(dd) = m /\ \A i \in 1 .. m : dd[i] = d[m - i + 1]
  BY DEF Reverse
<1>3. /\ rr \in Seq(Samples) /\ Len(rr) = n /\ \A i \in 1 .. n : rr[i] = r[n - i + 1]
  BY DEF Reverse
<1>4. \A i \in 1 .. m : dd[i] = rr[i]
  <2> SUFFICES ASSUME NEW i \in 1 .. m PROVE dd[i] = rr[i]
    OBVIOUS
  <2> DEFINE k == m - i + 1
  <2>1. k \in 1 .. m /\ n - m + k = n - i + 1 /\ i \in 1 .. n
    BY <1>1
  <2>2. d[k] = r[n - m + k]
    BY <2>1 DEF Ends
  <2> QED
    BY <1>2, <1>3, <2>1, <2>2
<1> HIDE DEF dd, rr, m, n
<1>5. /\ \A i \in 1 .. m : dd[i] \in Samples
      /\ \A i \in 1 .. m : rr[i] \in Samples
  BY <1>1, <1>2, <1>3
<1>6. /\ SubSeq(dd, 1, m) \in Seq(Samples) /\ Len(SubSeq(dd, 1, m)) = m
      /\ \A i \in 1 .. m : SubSeq(dd, 1, m)[i] = dd[i]
  BY <1>1, <1>5, SubSeqProperties
<1>7. /\ SubSeq(rr, 1, m) \in Seq(Samples) /\ Len(SubSeq(rr, 1, m)) = m
      /\ \A i \in 1 .. m : SubSeq(rr, 1, m)[i] = rr[i]
  BY <1>1, <1>5, SubSeqProperties
<1>8. SubSeq(dd, 1, m) = SubSeq(rr, 1, m)
  BY <1>4, <1>6, <1>7, SeqEqual
<1> QED
  BY <1>1, <1>2, <1>3, <1>8 DEF IsSuffix, IsPrefix, dd, rr, m, n

\* Another sample prolongs it.
LEMMA EndsAppend ==
  ASSUME NEW d \in Seq(Samples), NEW r \in Seq(Samples), NEW s \in Samples, Ends(d, r)
  PROVE  Ends(Append(d, s), Append(r, s))
<1> DEFINE e == Append(d, s)
           q == Append(r, s)
           m == Len(d)
           n == Len(r)
<1>1. /\ m \in Nat /\ Len(e) = m + 1 /\ e[m + 1] = s /\ \A k \in 1 .. m : e[k] = d[k]
      /\ n \in Nat /\ Len(q) = n + 1 /\ q[n + 1] = s /\ \A k \in 1 .. n : q[k] = r[k]
  OBVIOUS
<1>2. m <= n /\ \A k \in 1 .. m : d[k] = r[n - m + k]
  BY DEF Ends
<1> HIDE DEF e, q, m, n
<1>3. ASSUME NEW k \in 1 .. m + 1 PROVE e[k] = q[(n + 1) - (m + 1) + k]
  <2>1. CASE k = m + 1
    <3>1. (n + 1) - (m + 1) + k = n + 1
      BY <1>1, <2>1
    <3> QED
      BY <1>1, <2>1, <3>1
  <2>2. CASE k # m + 1
    <3>1. k \in 1 .. m /\ (n + 1) - (m + 1) + k = n - m + k /\ n - m + k \in 1 .. n
      BY <1>1, <1>2, <2>2
    <3> QED
      BY <1>1, <1>2, <3>1
  <2> QED
    BY <2>1, <2>2
<1>4. Len(e) <= Len(q)
  BY <1>1, <1>2
<1>5. \A k \in 1 .. Len(e) : e[k] = q[Len(q) - Len(e) + k]
  BY <1>1, <1>3
<1>6. Ends(e, q)
  BY <1>4, <1>5 DEF Ends
<1> QED
  BY <1>6 DEF e, q

----------------------------------------------------------------------------
(* What was decoded so far and what the encoder has not emitted yet. *)

Repeated(p, n) == [k \in 1 .. n |-> [value |-> p, trig |-> FALSE]]

\* d is a stretch of consecutive samples up to the newest one of r, except
\* for the run a of the encoder, when it is enabled (e) and has encoded (h)
\* the value p.
Faithful(d, e, h, p, a, r) ==
  d # <<>> => IF e THEN h /\ Last(d).value = p /\ Ends(d \o Repeated(p, a), r)
              ELSE Ends(d, r)

\* The run in samples.
LEMMA RepeatedTypes ==
  ASSUME NEW p \in Values
  PROVE  /\ \A n \in Nat : /\ Repeated(p, n) \in Seq(Samples) /\ Len(Repeated(p, n)) = n
                           /\ \A k \in 1 .. n : Repeated(p, n)[k] = [value |-> p, trig |-> FALSE]
         /\ [value |-> p, trig |-> FALSE] \in Samples
         /\ Repeated(p, 0) = <<>>
<1>1. [value |-> p, trig |-> FALSE] \in Samples
  BY DEF Samples
<1> DEFINE one == [value |-> p, trig |-> FALSE]
<1> HIDE DEF one
<1>2. ASSUME NEW n \in Nat
      PROVE  /\ Repeated(p, n) \in Seq(Samples) /\ Len(Repeated(p, n)) = n
             /\ \A k \in 1 .. n : Repeated(p, n)[k] = one
  <2>1. Repeated(p, n) = [k \in 1 .. n |-> one]
    BY DEF Repeated, one
  <2>2. one \in Samples
    BY <1>1 DEF one
  <2> QED
    BY <2>1, <2>2
<1>3. Repeated(p, 0) = <<>>
  BY DEF Repeated
<1> QED
  BY <1>1, <1>2, <1>3 DEF one

\* One more repeat.
LEMMA RepeatStep ==
  ASSUME NEW d \in Seq(Samples), NEW r \in Seq(Samples), NEW p \in Values, NEW a \in Nat, NEW h,
         Faithful(d, TRUE, h, p, a, r)
  PROVE  Faithful(d, TRUE, h, p, a + 1, Append(r, [value |-> p, trig |-> FALSE]))
<1> SUFFICES ASSUME d # <<>>
             PROVE  Ends(d \o Repeated(p, a + 1), Append(r, [value |-> p, trig |-> FALSE]))
  BY DEF Faithful
<1> DEFINE one == [value |-> p, trig |-> FALSE]
           x == Repeated(p, a)
           y == Repeated(p, a + 1)
<1>1. one \in Samples
  BY RepeatedTypes
<1>2. /\ x \in Seq(Samples) /\ Len(x) = a /\ \A k \in 1 .. a : x[k] = one
      /\ y \in Seq(Samples) /\ Len(y) = a + 1 /\ \A k \in 1 .. a + 1 : y[k] = one
  <2>1. a + 1 \in Nat
    OBVIOUS
  <2>2. /\ \A n \in Nat : /\ Repeated(p, n) \in Seq(Samples) /\ Len(Repeated(p, n)) = n
                         /\ \A k \in 1 .. n : Repeated(p, n)[k] = one
    BY RepeatedTypes
  <2> HIDE DEF one
  <2> QED
    BY <2>1, <2>2, Zenon
<1>3. Ends(d \o x, r)
  BY DEF Faithful
<1> HIDE DEF one, x, y
<1>4. d \o y = Append(d \o x, one)
  <2>1. y = Append(x, one)
    BY <1>1, <1>2, SeqEqual
  <2> QED
    BY <1>1, <1>2, <2>1, AppendIsConcat, ConcatAssociative
<1>5. d \o x \in Seq(Samples)
  BY <1>2
<1>6. Ends(Append(d \o x, one), Append(r, one))
  BY <1>1, <1>3, <1>5, EndsAppend
<1> QED
  BY <1>4, <1>6 DEF one, y

\* The count word of the run.
LEMMA CountStep ==
  ASSUME NEW d \in Seq(Samples), NEW r \in Seq(Samples), NEW p \in Values, NEW a \in 1 .. MaxRun,
         NEW h, Faithful(d, TRUE, h, p, a, r)
  PROVE  Faithful(Expand(d, CountWord(a)), TRUE, h, p, 0, r)
<1> DEFINE c == Expand(d, CountWord(a))
           x == Repeated(p, a)
<1>0. a \in Nat /\ a >= 1
  BY MaxRunAssumption
<1>1. CASE d = <<>>
  <2>1. c = <<>>
    BY <1>1 DEF Expand, CountWord
  <2> QED
    BY <2>1 DEF Faithful
<1>2. CASE d # <<>>
  <2>1. h /\ Last(d).value = p /\ Ends(d \o x, r)
    BY <1>2 DEF Faithful
  <2>2. c = d \o x
    BY <1>2, <2>1 DEF Expand, CountWord, Repeated
  <2>3. x \in Seq(Samples) /\ Len(x) = a /\ \A k \in 1 .. a : x[k] = [value |-> p, trig |-> FALSE]
    BY <1>0, RepeatedTypes
  <2> HIDE DEF c, x
  <2>4. c \in Seq(Samples) /\ Len(c) = Len(d) + a /\ Len(d) \in Nat
    <3>1. d \o x \in Seq(Samples) /\ Len(d \o x) = Len(d) + Len(x)
      BY <2>3, ConcatProperties
    <3> QED
      BY <2>2, <2>3, <3>1
  <2>5. c[Len(c)] = [value |-> p, trig |-> FALSE]
    <3>1. Len(d) + a - Len(d) = a /\ ~(Len(d) + a <= Len(d)) /\ a \in 1 .. a /\ Len(d) + a \in 1 .. Len(d) + a
      BY <1>0, <2>4
    <3>2. c[Len(d) + a] = x[a]
      BY <2>2, <2>3, <3>1, ConcatProperties
    <3> QED
      BY <2>3, <2>4, <3>1, <3>2
  <2>6. Last(c).value = p
    BY <2>5 DEF Last
  <2>7. c \o Repeated(p, 0) = c
    BY <2>4, RepeatedTypes, ConcatEmptySeq
  <2>8. Ends(c \o Repeated(p, 0), r)
    BY <2>1, <2>2, <2>7
  <2> QED
    BY <2>1, <2>6, <2>8 DEF Faithful, c
<1> QED
  BY <1>1, <1>2

\* A data word, when no run is outstanding.
LEMMA DataStep ==
  ASSUME NEW d \in Seq(Samples), NEW r \in Seq(Samples), NEW s \in Samples, NEW a, NEW p \in Values,
         NEW e \in BOOLEAN, NEW h \in BOOLEAN, e /\ h => a = 0, Faithful(d, e, h, p, a, r),
         NEW h2, NEW p2, NEW a2, e => h2 = TRUE /\ p2 = s.value /\ a2 = 0
  PROVE  Faithful(Expand(d, DataWord(s)), e, h2, p2, a2, Append(r, s))
<1> DEFINE c == Append(d, s)
<1>1. Expand(d, DataWord(s)) = c
  <2>1. s = [value |-> s.value, trig |-> s.trig]
    BY DEF Samples
  <2> QED
    BY <2>1 DEF Expand, DataWord
<1>2. Ends(d, r)
  <2>1. CASE d = <<>>
    <3>1. Len(d) = 0 /\ Len(r) \in Nat
      BY <2>1
    <3> QED
      BY <3>1 DEF Ends
  <2>2. CASE d # <<>> /\ ~e
    BY <2>2 DEF Faithful
  <2>3. CASE d # <<>> /\ e
    <3>1. h /\ Ends(d \o Repeated(p, a), r)
      BY <2>3 DEF Faithful
    <3>2. d \o Repeated(p, a) = d
      BY <2>3, <3>1, RepeatedTypes, ConcatEmptySeq
    <3> QED
      BY <3>1, <3>2
  <2> QED
    BY <2>1, <2>2, <2>3
<1>3. Ends(c, Append(r, s))
  BY <1>2, EndsAppend
<1>4. CASE ~e
  BY <1>1, <1>3, <1>4 DEF Faithful
<1>5. CASE e
  <2>1. c \in Seq(Samples) /\ c[Len(c)] = s
    OBVIOUS
  <2>2. Last(c).value = p2 /\ s.value \in Values
    BY <1>5, <2>1 DEF Last, Samples
  <2>3. c \o Repeated(p2, a2) = c
    BY <1>5, <2>1, <2>2, RepeatedTypes, ConcatEmptySeq
  <2> QED
    BY <1>1, <1>3, <1>5, <2>2, <2>3 DEF Faithful
<1> QED
  BY <1>4, <1>5

----------------------------------------------------------------------------
(* The words emitted and the one waiting in the skid. *)

Emitted == out \o pend

\* A capture may begin with any word after the m-th.
AllFaithful(words, m, e, h, p, a, r) ==
  \A i \in m + 1 .. Len(words) + 1 :
    Faithful(Decode(SubSeq(words, i, Len(words))), e, h, p, a, r)

\* One word more.
LEMMA WordAdded ==
  ASSUME NEW words \in Seq(Words), NEW x \in Words, NEW m \in Nat,
         NEW e, NEW h, NEW p, NEW a, NEW r, NEW h2, NEW p2, NEW a2, NEW r2,
         AllFaithful(words, m, e, h, p, a, r),
         \A d \in Seq(Samples) : Faithful(d, e, h, p, a, r) => Faithful(Expand(d, x), e, h2, p2, a2, r2)
  PROVE  AllFaithful(Append(words, x), m, e, h2, p2, a2, r2)
<1> DEFINE n == Len(words)
           longer == Append(words, x)
<1>1. n \in Nat /\ longer \in Seq(Words) /\ Len(longer) = n + 1
  OBVIOUS
<1> SUFFICES ASSUME NEW i \in m + 1 .. n + 2
             PROVE  Faithful(Decode(SubSeq(longer, i, n + 1)), e, h2, p2, a2, r2)
  BY <1>1 DEF AllFaithful
<1>2. CASE i = n + 2
  <2>1. SubSeq(longer, i, n + 1) = <<>>
    BY <1>1, <1>2, SubSeqEmpty
  <2>2. <<>> \in Seq(Words)
    OBVIOUS
  <2>3. Decode(SubSeq(longer, i, n + 1)) = <<>>
    BY <2>1, <2>2, DecodeLaws
  <2> QED
    BY <2>3 DEF Faithful
<1>3. CASE i # n + 2
  <2>1. i \in m + 1 .. n + 1 /\ i \in Nat /\ i >= 1
    BY <1>1, <1>3
  <2> DEFINE b == SubSeq(words, i, n)
             c == SubSeq(longer, i, n + 1)
  <2>2. \A k \in i .. n : words[k] \in Words
    BY <2>1
  <2>3. /\ b \in Seq(Words) /\ Len(b) = (IF i <= n THEN n - i + 1 ELSE 0)
        /\ \A k \in 1 .. n - i + 1 : b[k] = words[i + k - 1]
    BY <1>1, <2>1, <2>2, SubSeqProperties
  <2>4. \A k \in i .. n + 1 : longer[k] \in Words
    BY <1>1, <2>1
  <2>5. /\ c \in Seq(Words) /\ Len(c) = (IF i <= n + 1 THEN n + 1 - i + 1 ELSE 0)
        /\ \A k \in 1 .. n + 1 - i + 1 : c[k] = longer[i + k - 1]
    BY <1>1, <2>1, <2>4, SubSeqProperties
  <2>6. \A k \in 1 .. n : longer[k] = words[k]
    OBVIOUS
  <2>7. longer[n + 1] = x
    OBVIOUS
  <2> HIDE DEF b, c, longer, n
  <2>8. Len(b) = n + 1 - i /\ Len(c) = Len(b) + 1 /\ Len(b) \in Nat
    BY <1>1, <2>1, <2>3, <2>5
  <2>9. c = Append(b, x)
    <3> DEFINE ab == Append(b, x)
    <3>1. ab \in Seq(Words) /\ Len(ab) = Len(b) + 1 /\ ab[Len(b) + 1] = x
      BY <2>3
    <3>2. \A k \in 1 .. Len(b) : ab[k] = b[k]
      BY <2>3
    <3> HIDE DEF ab
    <3>3. ASSUME NEW k \in 1 .. Len(c) PROVE c[k] = ab[k]
      <4>1. CASE k = Len(b) + 1
        <5>1. i + k - 1 = n + 1 /\ k \in 1 .. n + 1 - i + 1
          BY <1>1, <2>1, <2>8, <4>1
        <5> QED
          BY <2>5, <2>7, <3>1, <4>1, <5>1
      <4>2. CASE k # Len(b) + 1
        <5>1. k \in 1 .. Len(b) /\ k \in 1 .. n - i + 1 /\ k \in 1 .. n + 1 - i + 1 /\ i + k - 1 \in 1 .. n
          BY <1>1, <2>1, <2>8, <4>2
        <5> QED
          BY <2>3, <2>5, <2>6, <3>2, <5>1
      <4> QED
        BY <4>1, <4>2
    <3>4. c = ab
      BY <2>5, <2>8, <3>1, <3>3, SeqEqual
    <3> QED
      BY <3>4 DEF ab
  <2>10. Decode(c) = Expand(Decode(b), x) /\ Decode(b) \in Seq(Samples)
    BY <2>3, <2>9, DecodeLaws
  <2>11. Faithful(Decode(b), e, h, p, a, r)
    BY <2>1 DEF AllFaithful, b, n
  <2>12. Faithful(Expand(Decode(b), x), e, h2, p2, a2, r2)
    BY <2>10, <2>11
  <2> QED
    BY <2>10, <2>12 DEF c
<1> QED
  BY <1>2, <1>3

\* No word, another run.
LEMMA NoWordAdded ==
  ASSUME NEW words \in Seq(Words), NEW m \in Nat,
         NEW e, NEW h, NEW p, NEW a, NEW r, NEW h2, NEW p2, NEW a2, NEW r2,
         AllFaithful(words, m, e, h, p, a, r),
         \A d \in Seq(Samples) : Faithful(d, e, h, p, a, r) => Faithful(d, e, h2, p2, a2, r2)
  PROVE  AllFaithful(words, m, e, h2, p2, a2, r2)
<1> SUFFICES ASSUME NEW i \in m + 1 .. Len(words) + 1
             PROVE  Faithful(Decode(SubSeq(words, i, Len(words))), e, h2, p2, a2, r2)
  BY DEF AllFaithful
<1>1. Len(words) \in Nat /\ i \in Nat /\ i >= 1
  OBVIOUS
<1>2. \A k \in i .. Len(words) : words[k] \in Words
  BY <1>1
<1>3. SubSeq(words, i, Len(words)) \in Seq(Words)
  BY <1>1, <1>2, SubSeqProperties
<1>4. Decode(SubSeq(words, i, Len(words))) \in Seq(Samples)
  BY <1>3, DecodeLaws
<1> QED
  BY <1>4 DEF AllFaithful

\* The queue of at most two words, word by word.
LEMMA ShortQueues ==
  ASSUME NEW q \in Seq(Words)
  PROVE  /\ Len(q) = 0 => q = <<>>
         /\ Len(q) = 1 => q # <<>> /\ q[1] \in Words /\ q = <<q[1]>>
         /\ Len(q) = 2 => /\ q # <<>> /\ q[1] \in Words /\ q[2] \in Words
                         /\ q = <<q[1]>> \o <<q[2]>>
<1>1. Len(q) = 0 => q = <<>>
  OBVIOUS
<1>2. ASSUME Len(q) = 1 PROVE q # <<>> /\ q[1] \in Words /\ q = <<q[1]>>
  <2>1. q # <<>> /\ q[1] \in Words
    BY <1>2
  <2> DEFINE w == q[1]
  <2>2. <<w>> \in Seq(Words) /\ Len(<<w>>) = 1 /\ <<w>>[1] = w
    BY <2>1
  <2>3. \A i \in 1 .. Len(q) : q[i] = <<w>>[i]
    BY <1>2, <2>2
  <2> HIDE DEF w
  <2>4. q = <<w>>
    BY <1>2, <2>2, <2>3, SeqEqual
  <2> QED
    BY <2>1, <2>4 DEF w
<1>3. ASSUME Len(q) = 2
      PROVE  q # <<>> /\ q[1] \in Words /\ q[2] \in Words /\ q = <<q[1]>> \o <<q[2]>>
  <2>1. q # <<>> /\ q[1] \in Words /\ q[2] \in Words
    <3>1. 1 \in 1 .. Len(q) /\ 2 \in 1 .. Len(q)
      BY <1>3
    <3>2. \A i \in 1 .. Len(q) : q[i] \in Words
      OBVIOUS
    <3>3. q # <<>>
      BY <1>3
    <3> QED
      BY <3>1, <3>2, <3>3
  <2> DEFINE x == <<q[1]>>
             y == <<q[2]>>
  <2>2. /\ x \in Seq(Words) /\ Len(x) = 1 /\ x[1] = q[1]
        /\ y \in Seq(Words) /\ Len(y) = 1 /\ y[1] = q[2]
    BY <2>1
  <2> HIDE DEF x, y
  <2>3. /\ x \o y \in Seq(Words) /\ Len(x \o y) = 2
        /\ (x \o y)[1] = q[1] /\ (x \o y)[2] = q[2]
    <3>1. /\ x \o y \in Seq(Words) /\ Len(x \o y) = Len(x) + Len(y)
          /\ \A i \in 1 .. Len(x) + Len(y) :
               (x \o y)[i] = IF i <= Len(x) THEN x[i] ELSE y[i - Len(x)]
      BY <2>2, ConcatProperties
    <3> QED
      BY <2>2, <3>1
  <2>4. \A i \in 1 .. Len(q) : q[i] = (x \o y)[i]
    <3> SUFFICES ASSUME NEW i \in 1 .. Len(q) PROVE q[i] = (x \o y)[i]
      OBVIOUS
    <3>1. i = 1 \/ i = 2
      BY <1>3
    <3> QED
      BY <2>3, <3>1
  <2>5. q = x \o y
    BY <1>3, <2>3, <2>4, SeqEqual
  <2> QED
    BY <2>1, <2>5 DEF x, y
<1> QED
  BY <1>1, <1>2, <1>3

\* Concatenation of word sequences is associative.
LEMMA WordsAssociate == \A x, y, z \in Seq(Words) : (x \o y) \o z = x \o (y \o z)
BY ConcatAssociative

\* Three sequences concatenate alike from the left and from the right.
Regroups(x, y, z) == (x \o y) \o z = x \o (y \o z)

\* Every three sequences of a set regroup, and those of words with them.
LEMMA SequencesRegroup == ASSUME NEW S PROVE \A x, y, z \in Seq(S) : Regroups(x, y, z)
BY ConcatAssociative DEF Regroups

LEMMA WordsRegroup == \A x, y, z \in Seq(Words) : Regroups(x, y, z)
BY ConcatAssociative DEF Regroups

\* Nothing emitted is reordered by the skid.
LEMMA EmitInOrder ==
  ASSUME NEW produced \in Seq(Words), Len(produced) \in 0 .. 2,
         pend \in Seq(Words), Len(pend) <= 1,
         Len(pend) + Len(produced) <= 2, out \in Seq(Words), Emit(produced)
  PROVE  Emitted' = Emitted \o produced /\ Emitted \in Seq(Words)
<1> DEFINE queue == pend \o produced
<1>1. queue \in Seq(Words) /\ Len(queue) = Len(pend) + Len(produced)
  OBVIOUS
<1>2. Len(queue) \in Nat /\ Len(queue) <= 2
  BY <1>1
<1>3. /\ out' = IF queue = <<>> THEN out ELSE Append(out, queue[1])
      /\ pend' = IF Len(queue) < 2 THEN <<>> ELSE <<queue[2]>>
  BY DEF Emit
<1>4. Emitted \o produced = out \o queue
  <2>1. (out \o pend) \o produced = out \o (pend \o produced)
    BY WordsAssociate, Zenon
  <2> QED
    BY <2>1, Zenon DEF Emitted
<1> HIDE DEF queue
<1>8. Emitted \in Seq(Words)
  BY DEF Emitted
<1>5. CASE Len(queue) = 0
  <2>1. queue = <<>> /\ out' = out /\ pend' = <<>>
    BY <1>1, <1>3, <1>5, ShortQueues
  <2> QED
    BY <1>4, <1>8, <2>1 DEF Emitted
<1>6. CASE Len(queue) = 1
  <2>1. queue = <<queue[1]>> /\ queue # <<>> /\ queue[1] \in Words
    BY <1>1, <1>6, ShortQueues
  <2>2. out' = Append(out, queue[1]) /\ pend' = <<>>
    BY <1>3, <1>6, <2>1
  <2>3. Append(out, queue[1]) \o <<>> = Append(out, queue[1])
    BY <2>1
  <2>4. Append(out, queue[1]) = out \o queue
    BY <2>1, AppendIsConcat
  <2> QED
    BY <1>4, <1>8, <2>2, <2>3, <2>4 DEF Emitted
<1>7. CASE Len(queue) = 2
  <2>1. /\ queue = <<queue[1]>> \o <<queue[2]>> /\ queue # <<>>
        /\ queue[1] \in Words /\ queue[2] \in Words
    BY <1>1, <1>7, ShortQueues
  <2>2. out' = Append(out, queue[1]) /\ pend' = <<queue[2]>>
    BY <1>3, <1>7, <2>1
  <2>3. Append(out, queue[1]) = out \o <<queue[1]>> /\ <<queue[1]>> \in Seq(Words) /\ <<queue[2]>> \in Seq(Words)
    BY <2>1, AppendIsConcat
  <2>4. (out \o <<queue[1]>>) \o <<queue[2]>> = out \o (<<queue[1]>> \o <<queue[2]>>)
    BY <2>3, ConcatAssociative
  <2> DEFINE v == <<queue[1]>>
             w == <<queue[2]>>
  <2>5. out' = out \o v /\ pend' = w /\ queue = v \o w /\ (out \o v) \o w = out \o (v \o w)
    BY <2>1, <2>2, <2>3, <2>4
  <2> HIDE DEF v, w
  <2> QED
    BY <1>4, <1>8, <2>5 DEF Emitted
<1> QED
  <2> DEFINE n == Len(queue)
  <2>1. n \in Nat /\ n <= 2
    BY <1>2
  <2> HIDE DEF n
  <2>2. n = 0 \/ n = 1 \/ n = 2
    BY <2>1
  <2>3. Len(queue) = 0 \/ Len(queue) = 1 \/ Len(queue) = 2
    BY <2>2 DEF n
  <2> QED
    BY <1>5, <1>6, <1>7, <2>3

----------------------------------------------------------------------------
(* The encoder loses nothing. *)

\* What was emitted, from any word after mark on, decodes to consecutive
\* samples up to the newest one or to the run not yet emitted.
LosslessInv == AllFaithful(Emitted, mark, enable, havePrev, prev, acc, raw)

\* The words of the encoder are words of the format.
LEMMA WordTypes ==
  /\ \A s \in Samples : DataWord(s) \in Words
  /\ \A n \in 1 .. MaxRun : CountWord(n) \in Words
<1>1. ASSUME NEW s \in Samples PROVE DataWord(s) \in Words
  BY DEF DataWord, Words, Samples
<1>2. ASSUME NEW n \in 1 .. MaxRun PROVE CountWord(n) \in Words
  BY DEF CountWord, Words
<1> QED
  BY <1>1, <1>2

\* A sample is decoded again, from its own word or from a count word.
LEMMA SampleFaithful ==
  ASSUME RleIInv, LosslessInv, NEW s \in Samples, Sample(s)
  PROVE  LosslessInv'
<1>1. enable \in BOOLEAN /\ havePrev \in BOOLEAN
  BY Zenon DEF RleIInv, RleTypeOK
<1>2. /\ prev \in Values /\ acc \in 0 .. MaxRun - 1
      /\ pend \in Seq(Words) /\ Len(pend) <= 1
      /\ raw \in Seq(Samples) /\ out \in Seq(Words) /\ mark \in Nat
  BY Zenon DEF RleIInv, RleTypeOK
<1>3. /\ Follow(s) /\ Emit(Produced(s)) /\ raw' = Append(raw, s)
      /\ enable' = enable /\ mark' = mark
  BY DEF Sample
<1>4. Emitted' = Emitted \o Produced(s) /\ Emitted \in Seq(Words)
  <2>1. Produced(s) \in Seq(Words) /\ Len(Produced(s)) \in 0 .. 2
    BY <1>1, <1>2, ProducedShape
  <2> QED
    BY <1>2, <1>3, <2>1, SkidHolds, EmitInOrder
<1>5. AllFaithful(Emitted, mark, enable, havePrev, prev, acc, raw)
  BY DEF LosslessInv
<1>6. s.value \in Values /\ s.trig \in BOOLEAN /\ s = [value |-> s.value, trig |-> s.trig]
  BY DEF Samples
<1>7. SUFFICES AllFaithful(Emitted', mark, enable, havePrev', prev', acc', Append(raw, s))
  BY <1>3 DEF LosslessInv
<1>8. CASE Produced(s) = <<DataWord(s)>> /\ (enable /\ havePrev => acc = 0)
  <2>1. Emitted' = Append(Emitted, DataWord(s))
    BY <1>4, <1>8, WordTypes, AppendIsConcat
  <2>2. enable => havePrev' = TRUE /\ prev' = s.value /\ acc' = 0
    <3>1. enable => ~Repeats(s)
      <4>1. CASE enable /\ Repeats(s)
        <5>1. Produced(s) = <<CountWord(MaxRun)>> \/ Produced(s) = <<>>
          BY <4>1 DEF Produced, Repeats
        <5>2. CountWord(MaxRun) # DataWord(s)
          BY DEF CountWord, DataWord
        <5> QED
          BY <1>8, <5>1, <5>2
      <4> QED
        BY <4>1
    <3> QED
      BY <1>3, <3>1 DEF Follow
  <2>3. ASSUME NEW d \in Seq(Samples), Faithful(d, enable, havePrev, prev, acc, raw)
        PROVE  Faithful(Expand(d, DataWord(s)), enable, havePrev', prev', acc', Append(raw, s))
    BY <1>1, <1>2, <1>8, <2>2, <2>3, DataStep
  <2>4. AllFaithful(Append(Emitted, DataWord(s)), mark, enable, havePrev', prev', acc', Append(raw, s))
    BY <1>2, <1>4, <1>5, <2>3, WordTypes, WordAdded
  <2> QED
    BY <2>1, <2>4
<1>9. CASE Produced(s) = <<CountWord(acc), DataWord(s)>> /\ enable /\ havePrev /\ acc # 0 /\ ~Repeats(s)
  <2> DEFINE c == CountWord(acc)
             w == DataWord(s)
             e1 == Append(Emitted, c)
  <2>1. acc \in 1 .. MaxRun /\ c \in Words /\ w \in Words
    BY <1>2, <1>9, MaxRunAssumption, WordTypes
  <2>2. havePrev' = TRUE /\ prev' = s.value /\ acc' = 0
    BY <1>3, <1>9 DEF Follow
  <2>3. ASSUME NEW d \in Seq(Samples), Faithful(d, enable, havePrev, prev, acc, raw)
        PROVE  Faithful(Expand(d, c), enable, havePrev, prev, 0, raw)
    <3>1. enable = TRUE
      BY <1>1, <1>9
    <3>2. Faithful(d, TRUE, havePrev, prev, acc, raw)
      BY <2>3, <3>1
    <3> QED
      BY <1>2, <2>1, <3>1, <3>2, CountStep
  <2>4. ASSUME NEW d \in Seq(Samples), Faithful(d, enable, havePrev, prev, 0, raw)
        PROVE  Faithful(Expand(d, w), enable, havePrev', prev', acc', Append(raw, s))
    BY <1>1, <1>2, <2>2, <2>4, DataStep
  <2>5. Produced(s) = <<c>> \o <<w>>
    BY <1>9, <2>1
  <2> HIDE DEF c, w
  <2>6. AllFaithful(e1, mark, enable, havePrev, prev, 0, raw)
    BY <1>2, <1>4, <1>5, <2>1, <2>3, WordAdded
  <2>7. e1 \in Seq(Words)
    BY <1>4, <2>1
  <2> HIDE DEF e1
  <2>8. AllFaithful(Append(e1, w), mark, enable, havePrev', prev', acc', Append(raw, s))
    BY <1>2, <2>1, <2>4, <2>6, <2>7, WordAdded
  <2>9. Emitted' = Append(e1, w)
    <3>1. <<c>> \in Seq(Words) /\ <<w>> \in Seq(Words)
      BY <2>1
    <3>2. Append(e1, w) = (Emitted \o <<c>>) \o <<w>>
      BY <1>4, <2>1, <2>7, AppendIsConcat DEF e1
    <3>3. (Emitted \o <<c>>) \o <<w>> = Emitted \o (<<c>> \o <<w>>)
      BY <1>4, <3>1, ConcatAssociative
    <3> QED
      BY <1>4, <2>5, <3>2, <3>3
  <2> QED
    BY <2>8, <2>9
<1>10. CASE enable /\ Repeats(s)
  <2>1. enable = TRUE /\ havePrev /\ s = [value |-> prev, trig |-> FALSE]
    BY <1>1, <1>6, <1>10 DEF Repeats
  <2>2. havePrev' = TRUE /\ prev' = prev /\ acc' = IF acc = MaxRun - 1 THEN 0 ELSE acc + 1
    BY <1>3, <1>10 DEF Follow
  <2>3. havePrev' = havePrev
    BY <1>1, <2>1, <2>2
  <2>4. acc \in Nat /\ acc + 1 \in 1 .. MaxRun /\ acc + 1 \in Nat
    BY <1>2, MaxRunAssumption
  <2>5. ASSUME NEW d \in Seq(Samples), Faithful(d, TRUE, havePrev, prev, acc, raw)
        PROVE  Faithful(d, TRUE, havePrev, prev, acc + 1, Append(raw, s))
    BY <1>2, <2>1, <2>4, <2>5, RepeatStep
  <2>6. CASE acc = MaxRun - 1
    <3>1. Produced(s) = <<CountWord(MaxRun)>> /\ acc + 1 = MaxRun /\ MaxRun \in 1 .. MaxRun
      BY <1>10, <2>1, <2>6, MaxRunAssumption DEF Produced
    <3>2. Emitted' = Append(Emitted, CountWord(MaxRun))
      BY <1>4, <3>1, WordTypes, AppendIsConcat
    <3>3. ASSUME NEW d \in Seq(Samples), Faithful(d, TRUE, havePrev, prev, acc, raw)
          PROVE  Faithful(Expand(d, CountWord(MaxRun)), TRUE, havePrev, prev, 0, Append(raw, s))
      <4>1. Faithful(d, TRUE, havePrev, prev, MaxRun, Append(raw, s))
        BY <2>5, <3>1, <3>3
      <4>2. Append(raw, s) \in Seq(Samples)
        BY <1>2
      <4> QED
        BY <1>2, <3>1, <4>1, <4>2, CountStep
    <3>4. AllFaithful(Append(Emitted, CountWord(MaxRun)), mark, TRUE, havePrev, prev, 0, Append(raw, s))
      BY <1>2, <1>4, <1>5, <2>1, <3>1, <3>3, WordTypes, WordAdded
    <3> QED
      BY <2>1, <2>2, <2>3, <2>6, <3>2, <3>4
  <2>7. CASE acc # MaxRun - 1
    <3>1. Produced(s) = <<>>
      BY <1>10, <2>1, <2>7 DEF Produced
    <3>2. Emitted' = Emitted
      BY <1>4, <3>1, ConcatEmptySeq
    <3>3. AllFaithful(Emitted, mark, TRUE, havePrev, prev, acc + 1, Append(raw, s))
      BY <1>2, <1>4, <1>5, <2>1, <2>5, NoWordAdded
    <3> QED
      BY <2>1, <2>2, <2>3, <2>7, <3>2, <3>3
  <2> QED
    BY <2>6, <2>7
<1> QED
  <2>1. ~enable \/ ~havePrev => Produced(s) = <<DataWord(s)>>
    BY DEF Produced
  <2>2. enable /\ havePrev /\ ~Repeats(s) /\ acc = 0 => Produced(s) = <<DataWord(s)>>
    BY DEF Produced
  <2>3. enable /\ havePrev /\ ~Repeats(s) /\ acc # 0 => Produced(s) = <<CountWord(acc), DataWord(s)>>
    BY DEF Produced
  <2> QED
    BY <1>8, <1>9, <1>10, <2>1, <2>2, <2>3, Zenon

\* A flush emits the run: its count word takes its place.
LEMMA FlushFaithful ==
  ASSUME RleIInv, LosslessInv, Flush
  PROVE  LosslessInv'
<1>1. enable \in BOOLEAN /\ havePrev \in BOOLEAN
  BY Zenon DEF RleIInv, RleTypeOK
<1>2. /\ prev \in Values /\ acc \in 0 .. MaxRun - 1
      /\ pend \in Seq(Words) /\ Len(pend) <= 1
      /\ raw \in Seq(Samples) /\ out \in Seq(Words) /\ mark \in Nat
  BY Zenon DEF RleIInv, RleTypeOK
<1> DEFINE produced == IF enable /\ acc # 0 THEN <<CountWord(acc)>> ELSE <<>>
<1>3. Emit(produced) /\ acc' = (IF enable THEN 0 ELSE acc)
  BY DEF Flush
<1>4. enable' = enable /\ havePrev' = havePrev /\ prev' = prev /\ raw' = raw /\ mark' = mark
  BY DEF Flush
<1>5. AllFaithful(Emitted, mark, enable, havePrev, prev, acc, raw)
  BY DEF LosslessInv
<1>6. SUFFICES AllFaithful(Emitted', mark, enable, havePrev, prev, acc', raw)
  BY <1>4 DEF LosslessInv
<1>7. CASE enable /\ acc # 0
  <2>1. enable = TRUE /\ acc' = 0 /\ acc \in 1 .. MaxRun /\ produced = <<CountWord(acc)>>
    BY <1>1, <1>2, <1>3, <1>7, MaxRunAssumption
  <2>2. CountWord(acc) \in Words
    BY <2>1, WordTypes
  <2>3. produced \in Seq(Words) /\ Len(produced) = 1
    BY <2>1, <2>2
  <2>4. Len(pend) = 0
    BY <1>2, <1>7, EmptyByLength DEF RleIInv, SkidExcludesRun
  <2> DEFINE k == Len(produced)
             n == Len(pend)
  <2> HIDE DEF produced
  <2>9. k \in 0 .. 2 /\ n + k <= 2
    <3>1. k = 1 /\ n = 0
      BY <2>3, <2>4
    <3> HIDE DEF k, n
    <3> QED
      BY <3>1
  <2>5. Emitted' = Emitted \o produced /\ Emitted \in Seq(Words)
    BY <1>2, <1>3, <2>3, <2>9, EmitInOrder, Zenon
  <2>6. Emitted' = Append(Emitted, CountWord(acc))
    BY <2>1, <2>2, <2>5, AppendIsConcat
  <2>7. ASSUME NEW d \in Seq(Samples), Faithful(d, TRUE, havePrev, prev, acc, raw)
        PROVE  Faithful(Expand(d, CountWord(acc)), TRUE, havePrev, prev, 0, raw)
    BY <1>2, <2>1, <2>7, CountStep
  <2>8. AllFaithful(Append(Emitted, CountWord(acc)), mark, TRUE, havePrev, prev, 0, raw)
    BY <1>2, <1>5, <2>1, <2>2, <2>5, <2>7, WordAdded
  <2> QED
    BY <2>1, <2>6, <2>8
<1>8. CASE ~(enable /\ acc # 0)
  <2>1. acc' = acc /\ produced = <<>>
    BY <1>3, <1>8
  <2>2. produced \in Seq(Words) /\ Len(produced) = 0
    BY <2>1
  <2> HIDE DEF produced
  <2> DEFINE k == Len(produced)
             n == Len(pend)
  <2>3. k \in 0 .. 2 /\ n + k <= 2
    <3>1. k = 0 /\ n \in Nat /\ n <= 1
      BY <1>2, <2>2, EmptyByLength
    <3> HIDE DEF k, n
    <3> QED
      BY <3>1
  <2>4. Emitted' = Emitted \o produced /\ Emitted \in Seq(Words)
    BY <1>2, <1>3, <2>2, <2>3, EmitInOrder, Zenon
  <2>5. Emitted' = Emitted
    BY <2>1, <2>4, ConcatEmptySeq
  <2> QED
    BY <1>5, <2>1, <2>5
<1> QED
  BY <1>7, <1>8

\* Draining the skid emits nothing new.
LEMMA GapFaithful ==
  ASSUME RleIInv, LosslessInv, Gap
  PROVE  LosslessInv'
<1>1. pend \in Seq(Words) /\ Len(pend) <= 1 /\ out \in Seq(Words)
  BY Zenon DEF RleIInv, RleTypeOK
<1> DEFINE k == Len(<<>>)
           n == Len(pend)
<1>2. <<>> \in Seq(Words) /\ k = 0
  OBVIOUS
<1>3. k \in 0 .. 2 /\ n + k <= 2
  <2>1. k = 0 /\ n \in Nat /\ n <= 1
    BY <1>1, <1>2, EmptyByLength
  <2> HIDE DEF k, n
  <2> QED
    BY <2>1
<1>4. Emit(<<>>) /\ UNCHANGED <<enable, havePrev, prev, acc, raw, mark>>
  BY DEF Gap, runState
<1>5. Emitted' = Emitted \o <<>> /\ Emitted \in Seq(Words)
  BY <1>1, <1>2, <1>3, <1>4, EmitInOrder, Zenon
<1>6. Emitted' = Emitted
  BY <1>5, ConcatEmptySeq
<1> QED
  BY <1>4, <1>6 DEF LosslessInv

\* Nothing decodes to nothing.
LEMMA NoWords ==
  ASSUME NEW words \in Seq(Words), NEW e, NEW h, NEW p, NEW a, NEW r
  PROVE  AllFaithful(words, Len(words), e, h, p, a, r)
<1> SUFFICES ASSUME NEW i \in Len(words) + 1 .. Len(words) + 1
             PROVE  Faithful(Decode(SubSeq(words, i, Len(words))), e, h, p, a, r)
  BY DEF AllFaithful
<1>1. Len(words) \in Nat /\ i = Len(words) + 1
  OBVIOUS
<1>2. SubSeq(words, i, Len(words)) = <<>>
  BY <1>1, SubSeqEmpty
<1>3. <<>> \in Seq(Words)
  OBVIOUS
<1>4. Decode(SubSeq(words, i, Len(words))) = <<>>
  BY <1>2, <1>3, DecodeLaws
<1> QED
  BY <1>4 DEF Faithful

\* A switch starts anew: what was emitted before it is not decoded with what
\* follows.
LEMMA SwitchFaithful ==
  ASSUME RleIInv, LosslessInv, Switch
  PROVE  LosslessInv'
<1>1. pend \in Seq(Words) /\ out \in Seq(Words)
  BY Zenon DEF RleIInv, RleTypeOK
<1>2. Emitted \in Seq(Words) /\ Len(Emitted) = Len(out) + Len(pend)
  BY <1>1 DEF Emitted
<1>3. Emitted' = Emitted /\ mark' = Len(Emitted)
  BY <1>2 DEF Switch, Emitted
<1> QED
  BY <1>2, <1>3, NoWords DEF LosslessInv

\* Every step of the encoder preserves it.
LEMMA LosslessStep == RleIInv /\ LosslessInv /\ [RleNext]_rleVars => LosslessInv'
<1> SUFFICES ASSUME RleIInv, LosslessInv, [RleNext]_rleVars PROVE LosslessInv'
  OBVIOUS
<1>1. CASE RleReset
  <2>1. Emitted' = <<>> /\ mark' = 0
    BY <1>1 DEF RleReset, Emitted
  <2>2. <<>> \in Seq(Words) /\ Len(<<>>) = 0
    OBVIOUS
  <2>3. AllFaithful(<<>>, 0, enable', havePrev', prev', acc', raw')
    BY <2>2, NoWords
  <2> QED
    BY <2>1, <2>3 DEF LosslessInv
<1>2. CASE \E s \in Samples : Sample(s)
  BY <1>2, SampleFaithful
<1>3. CASE Flush
  BY <1>3, FlushFaithful
<1>4. CASE Gap
  BY <1>4, GapFaithful
<1>5. CASE Switch
  BY <1>5, SwitchFaithful
<1>6. CASE UNCHANGED rleVars
  BY <1>6 DEF rleVars, runState, LosslessInv, Emitted
<1> QED
  BY <1>1, <1>2, <1>3, <1>4, <1>5, <1>6 DEF RleNext

\* It holds before the first word.
LEMMA LosslessInit == out = <<>> /\ pend = <<>> /\ mark = 0 => LosslessInv
<1> SUFFICES ASSUME out = <<>>, pend = <<>>, mark = 0 PROVE LosslessInv
  OBVIOUS
<1>1. Emitted = <<>> /\ <<>> \in Seq(Words) /\ Len(<<>>) = 0
  BY DEF Emitted
<1>2. AllFaithful(<<>>, 0, enable, havePrev, prev, acc, raw)
  BY <1>1, NoWords
<1> QED
  BY <1>1, <1>2 DEF LosslessInv

\* Without a run outstanding, a faithful stretch ends with the newest sample.
LEMMA FaithfulEnds ==
  ASSUME NEW d \in Seq(Samples), NEW r \in Seq(Samples), NEW e \in BOOLEAN, NEW h,
         NEW p \in Values, NEW a, e => a = 0, Faithful(d, e, h, p, a, r)
  PROVE  Ends(d, r)
<1>1. CASE d = <<>>
  <2>1. Len(d) = 0 /\ Len(r) \in Nat
    BY <1>1
  <2> QED
    BY <2>1 DEF Ends
<1>2. CASE d # <<>> /\ ~e
  BY <1>2 DEF Faithful
<1>3. CASE d # <<>> /\ e
  <2>1. Ends(d \o Repeated(p, a), r)
    BY <1>3 DEF Faithful
  <2>2. d \o Repeated(p, a) = d
    BY <1>3, RepeatedTypes, ConcatEmptySeq
  <2> QED
    BY <2>1, <2>2
<1> QED
  BY <1>1, <1>2, <1>3

\* A tail of one sequence of words followed by another.
LEMMA TailOfConcat ==
  ASSUME NEW x \in Seq(Words), NEW y \in Seq(Words), NEW i \in 1 .. Len(x) + 1
  PROVE  SubSeq(x, i, Len(x)) \o y = SubSeq(x \o y, i, Len(x \o y))
<1> DEFINE m == Len(x)
           n == Len(y)
           z == x \o y
           b == SubSeq(x, i, m)
           l == b \o y
           r == SubSeq(z, i, Len(z))
<1>1. m \in Nat /\ n \in Nat /\ i \in Nat /\ i >= 1 /\ i <= m + 1
  OBVIOUS
<1>2. \A k \in 1 .. m : x[k] \in Words
  OBVIOUS
<1>3. /\ z \in Seq(Words) /\ Len(z) = m + n
      /\ \A k \in 1 .. m + n : z[k] = IF k <= m THEN x[k] ELSE y[k - m]
  BY ConcatProperties
<1>4. \A k \in 1 .. Len(z) : z[k] \in Words
  BY <1>3
<1>5. \A k \in i .. m : x[k] \in Words
  BY <1>1, <1>2
<1>6. /\ b \in Seq(Words) /\ Len(b) = (IF i <= m THEN m - i + 1 ELSE 0)
      /\ \A k \in 1 .. m - i + 1 : b[k] = x[i + k - 1]
  BY <1>1, <1>5, SubSeqProperties
<1> HIDE DEF m, n, z
<1>7. \A k \in i .. m + n : z[k] \in Words
  BY <1>1, <1>3, <1>4
<1>8. /\ r \in Seq(Words) /\ Len(r) = (IF i <= m + n THEN m + n - i + 1 ELSE 0)
      /\ \A k \in 1 .. m + n - i + 1 : r[k] = z[i + k - 1]
  BY <1>1, <1>3, <1>7, SubSeqProperties
<1> HIDE DEF b
<1>9. /\ l \in Seq(Words) /\ Len(l) = Len(b) + n
      /\ \A k \in 1 .. Len(b) + n : l[k] = IF k <= Len(b) THEN b[k] ELSE y[k - Len(b)]
  BY <1>6, ConcatProperties DEF n
<1> HIDE DEF l, r
<1>10. Len(b) = m + 1 - i /\ Len(l) = m + 1 - i + n /\ Len(r) = Len(l) /\ Len(l) \in Nat
  BY <1>1, <1>6, <1>8, <1>9
<1>11. ASSUME NEW k \in 1 .. Len(l) PROVE l[k] = r[k]
  <2>1. /\ k \in 1 .. m + n - i + 1 /\ k \in 1 .. Len(b) + n
        /\ i + k - 1 \in 1 .. m + n
    BY <1>1, <1>10
  <2>2. r[k] = IF i + k - 1 <= m THEN x[i + k - 1] ELSE y[(i + k - 1) - m]
    <3>1. r[k] = z[i + k - 1]
      BY <1>8, <2>1
    <3>2. z[i + k - 1] = IF i + k - 1 <= m THEN x[i + k - 1] ELSE y[(i + k - 1) - m]
      BY <1>3, <2>1
    <3> QED
      BY <3>1, <3>2
  <2>3. CASE k <= Len(b)
    <3>1. k \in 1 .. m - i + 1 /\ i + k - 1 <= m
      BY <1>1, <1>10, <2>1, <2>3
    <3> QED
      BY <1>6, <1>9, <2>1, <2>2, <2>3, <3>1
  <2>4. CASE ~(k <= Len(b))
    <3>1. ~(i + k - 1 <= m) /\ k - Len(b) = (i + k - 1) - m
      BY <1>1, <1>10, <2>1, <2>4
    <3>2. l[k] = y[k - Len(b)]
      BY <1>9, <2>1, <2>4
    <3> QED
      BY <2>2, <3>1, <3>2
  <2> QED
    BY <2>3, <2>4
<1>12. l = r
  BY <1>8, <1>9, <1>10, <1>11, SeqEqual
<1> QED
  BY <1>12 DEF l, r, b, z, m

\* The invariant is what the property says of the words a capture stores.
LEMMA LosslessFollows == RleIInv /\ LosslessInv => Lossless
<1> SUFFICES ASSUME RleIInv, LosslessInv, NEW i \in mark + 1 .. Len(out) + 1
             PROVE  IsSuffix(Decode(Since(i)), raw)
  BY DEF Lossless
<1>1. enable \in BOOLEAN /\ havePrev \in BOOLEAN
  BY Zenon DEF RleIInv, RleTypeOK
<1>2. /\ prev \in Values /\ acc \in 0 .. MaxRun - 1
      /\ pend \in Seq(Words) /\ Len(pend) <= 1
      /\ raw \in Seq(Samples) /\ out \in Seq(Words) /\ mark \in Nat
  BY Zenon DEF RleIInv, RleTypeOK
<1> DEFINE b == SubSeq(out, i, Len(out)) \o pend
           d == Decode(b)
<1>3. i \in 1 .. Len(out) + 1 /\ Len(out) \in Nat /\ i \in Nat /\ i >= 1
  BY <1>2
<1>4. b = SubSeq(Emitted, i, Len(Emitted)) /\ Emitted \in Seq(Words)
  <2>1. out \o pend \in Seq(Words)
    BY <1>2
  <2>2. b = SubSeq(out \o pend, i, Len(out \o pend))
    BY <1>2, <1>3, TailOfConcat, Zenon
  <2> QED
    BY <2>1, <2>2, Zenon DEF Emitted
<1>5. b \in Seq(Words)
  <2>1. \A k \in i .. Len(out) : out[k] \in Words
    BY <1>2, <1>3
  <2>2. SubSeq(out, i, Len(out)) \in Seq(Words)
    BY <1>3, <2>1, SubSeqProperties
  <2> QED
    BY <1>2, <2>2
<1>6. Faithful(d, enable, havePrev, prev, acc, raw)
  <2>1. Len(Emitted) = Len(out) + Len(pend) /\ Len(pend) \in Nat
    BY <1>2 DEF Emitted
  <2>2. i \in mark + 1 .. Len(Emitted) + 1
    BY <1>2, <1>3, <2>1
  <2> QED
    BY <1>4, <2>2 DEF LosslessInv, AllFaithful
<1>7. Since(i) = b \o (IF enable /\ acc # 0 THEN <<CountWord(acc)>> ELSE <<>>)
  BY DEF Since
<1> HIDE DEF b, d
<1>8. d \in Seq(Samples)
  BY <1>5, DecodeLaws DEF d
<1>9. CASE enable /\ acc # 0
  <2>1. enable = TRUE /\ acc \in 1 .. MaxRun
    BY <1>1, <1>2, <1>9, MaxRunAssumption
  <2>2. CountWord(acc) \in Words
    BY <2>1, WordTypes
  <2> DEFINE full == Expand(d, CountWord(acc))
  <2>3. Faithful(d, TRUE, havePrev, prev, acc, raw)
    BY <1>6, <2>1
  <2>4. Faithful(full, TRUE, havePrev, prev, 0, raw) /\ full \in Seq(Samples)
    BY <1>2, <1>8, <2>1, <2>2, <2>3, CountStep, ExpandTypes
  <2>5. Decode(Since(i)) = full
    <3>1. Since(i) = Append(b, CountWord(acc))
      BY <1>5, <1>7, <1>9, <2>2, AppendIsConcat
    <3> QED
      BY <1>5, <2>2, <3>1, DecodeLaws DEF d
  <2> HIDE DEF full
  <2>6. Ends(full, raw)
    BY <1>2, <2>4, FaithfulEnds
  <2> QED
    BY <1>2, <2>4, <2>5, <2>6, EndsIsSuffix
<1>10. CASE ~(enable /\ acc # 0)
  <2>1. Since(i) = b
    BY <1>5, <1>7, <1>10, ConcatEmptySeq
  <2>2. Ends(d, raw)
    BY <1>1, <1>2, <1>6, <1>8, <1>10, FaithfulEnds
  <2> QED
    BY <1>2, <1>8, <2>1, <2>2, EndsIsSuffix DEF d
<1> QED
  BY <1>9, <1>10

\* Wherever a capture begins in the words of the encoder, even in the middle
\* of a run, the host decodes a stretch of consecutive raw samples up to the
\* newest one, each with its trigger flag (scope_rle.sv 63-150, rle.py 10-30).
THEOREM EncodingIsLossless == RleSpec => []Lossless
<1>1. RleInit => LosslessInv
  BY LosslessInit DEF RleInit
<1>2. RleSpec => [](RleIInv /\ LosslessInv)
  BY <1>1, LosslessStep, RleInitIInv, RleStepIInv, PTL DEF RleSpec
<1> QED
  BY <1>2, LosslessFollows, PTL

\* The same in front of the core, for the samples a capture of it stores: the
\* encoder is stepped by the core's sample stream (scope_core.sv, RLE_EN).
THEOREM CapturedWordsAreLossless == CaptureSpec => []Lossless
<1>1. CaptureInit => LosslessInv
  BY LosslessInit DEF CaptureInit
<1>2. RleIInv /\ LosslessInv /\ [CaptureNext]_captureVars => LosslessInv'
  BY StepsOfEncoder, LosslessStep
<1>3. CaptureSpec => [](RleIInv /\ LosslessInv)
  BY <1>1, <1>2, EncoderInvariant, PTL DEF CaptureSpec
<1> QED
  BY <1>3, LosslessFollows, PTL

----------------------------------------------------------------------------
(* A part of the words, the whole of them, and what each decodes to.       *)

\* The samples a word adds to those decoded before it.
Added(d, x) ==
  IF ~x.isCount THEN <<[value |-> x.value, trig |-> x.trig]>>
  ELSE IF d = <<>> THEN <<>> ELSE Repeated(Last(d).value, x.value)

\* It adds them at the end; a data word adds one.
LEMMA AddedLaws ==
  ASSUME NEW d \in Seq(Samples), NEW x \in Words
  PROVE  /\ Added(d, x) \in Seq(Samples) /\ Expand(d, x) = d \o Added(d, x)
         /\ ~x.isCount => /\ Added(d, x) = <<[value |-> x.value, trig |-> x.trig]>>
                          /\ Len(Added(d, x)) = 1
         /\ x.trig => ~x.isCount
<1>1. CASE ~x.isCount
  <2> DEFINE s == [value |-> x.value, trig |-> x.trig]
  <2>1. s \in Samples
    BY <1>1 DEF Words, Samples
  <2>2. Added(d, x) = <<s>> /\ Expand(d, x) = Append(d, s)
    BY <1>1 DEF Added, Expand
  <2> HIDE DEF s
  <2>3. <<s>> \in Seq(Samples) /\ Len(<<s>>) = 1 /\ Append(d, s) = d \o <<s>>
    BY <2>1, AppendIsConcat
  <2> QED
    BY <1>1, <2>2, <2>3 DEF s
<1>2. CASE x.isCount
  <2>1. x \in [isCount : {TRUE}, value : 1 .. MaxRun, trig : {FALSE}]
    <3>1. x \in [isCount : {FALSE}, value : Values, trig : BOOLEAN] => x.isCount = FALSE
      OBVIOUS
    <3> QED
      BY <1>2, <3>1, Zenon DEF Words
  <2>2. x.value \in 1 .. MaxRun /\ x.trig = FALSE
    BY <2>1
  <2>3. x.value \in Nat
    BY <2>2, MaxRunAssumption
  <2>4. CASE d = <<>>
    <3>1. Added(d, x) = <<>> /\ Expand(d, x) = <<>>
      BY <1>2, <2>4, Zenon DEF Added, Expand
    <3>2. <<>> \in Seq(Samples) /\ d = d \o <<>>
      BY ConcatEmptySeq
    <3> QED
      BY <1>2, <2>2, <2>4, <3>1, <3>2
  <2>5. CASE d # <<>>
    <3>1. Last(d) \in Samples
      BY <2>5 DEF Last
    <3>2. Last(d).value \in Values
      BY <3>1 DEF Samples
    <3>3. Repeated(Last(d).value, x.value) \in Seq(Samples)
      BY <2>3, <3>2, RepeatedTypes
    <3>4. Added(d, x) = Repeated(Last(d).value, x.value)
      BY <1>2, <2>5, Zenon DEF Added
    <3>5. Expand(d, x) = d \o Repeated(Last(d).value, x.value)
      BY <1>2, <2>2, <2>5 DEF Expand, Repeated
    <3> QED
      BY <1>2, <2>2, <3>3, <3>4, <3>5
  <2> QED
    BY <2>4, <2>5
<1> QED
  BY <1>1, <1>2

\* Both prolonged alike, one still ends the other.
LEMMA EndsConcat ==
  ASSUME NEW d \in Seq(Samples), NEW r \in Seq(Samples), NEW t \in Seq(Samples), Ends(d, r)
  PROVE  Ends(d \o t, r \o t)
<1> DEFINE m == Len(d)
           n == Len(r)
           p == Len(t)
           x == d \o t
           y == r \o t
<1>1. /\ m \in Nat /\ n \in Nat /\ p \in Nat /\ m <= n
      /\ \A k \in 1 .. m : d[k] = r[n - m + k]
  BY DEF Ends
<1>2. /\ Len(x) = m + p /\ Len(y) = n + p
      /\ \A i \in 1 .. m + p : x[i] = IF i <= m THEN d[i] ELSE t[i - m]
      /\ \A i \in 1 .. n + p : y[i] = IF i <= n THEN r[i] ELSE t[i - n]
  BY ConcatProperties
<1> HIDE DEF m, n, p, x, y
<1>3. ASSUME NEW k \in 1 .. m + p PROVE x[k] = y[(n + p) - (m + p) + k]
  <2> DEFINE z == (n + p) - (m + p) + k
  <2>1. /\ z = n - m + k /\ z \in 1 .. n + p
        /\ k <= m => k \in 1 .. m /\ z <= n
        /\ k > m => ~(z <= n) /\ z - n = k - m
    BY <1>1
  <2> HIDE DEF z
  <2> SUFFICES x[k] = y[z]
    BY DEF z
  <2>2. CASE k <= m
    <3>1. x[k] = d[k] /\ y[z] = r[z]
      BY <1>2, <2>1, <2>2
    <3>2. d[k] = r[n - m + k]
      BY <1>1, <2>1, <2>2
    <3> QED
      BY <2>1, <3>1, <3>2
  <2>3. CASE k > m
    <3>1. ~(k <= m)
      BY <1>1, <2>3
    <3>2. x[k] = t[k - m] /\ y[z] = t[z - n]
      BY <1>2, <2>1, <2>3, <3>1
    <3> QED
      BY <2>1, <2>3, <3>2
  <2>4. k <= m \/ k > m
    BY <1>1
  <2> QED
    BY <2>2, <2>3, <2>4
<1>4. m + p <= n + p
  BY <1>1
<1> QED
  BY <1>2, <1>3, <1>4 DEF Ends, x, y

\* A word adds the same samples to a stretch that has begun as to all of the
\* samples before it.
LEMMA ExpandsAlike ==
  ASSUME NEW d \in Seq(Samples), NEW r \in Seq(Samples), NEW x \in Words, Ends(d, r)
  PROVE  /\ Ends(Expand(d, x), Expand(r, x))
         /\ d # <<>> => /\ Expand(d, x) # <<>>
                        /\ Len(Expand(r, x)) - Len(r) = Len(Expand(d, x)) - Len(d)
<1>1. /\ Added(d, x) \in Seq(Samples) /\ Expand(d, x) = d \o Added(d, x)
      /\ Added(r, x) \in Seq(Samples) /\ Expand(r, x) = r \o Added(r, x)
  BY AddedLaws
<1>2. CASE d # <<>> \/ ~x.isCount
  <2>1. Added(r, x) = Added(d, x)
    <3>1. CASE ~x.isCount
      BY <3>1, Zenon DEF Added
    <3>2. CASE d # <<>>
      <4>1. Len(d) \in Nat /\ Len(d) >= 1 /\ Len(r) \in Nat /\ Len(d) <= Len(r)
        BY <3>2 DEF Ends
      <4>2. r # <<>>
        BY <4>1
      <4>3. d[Len(d)] = r[Len(r) - Len(d) + Len(d)]
        BY <4>1 DEF Ends
      <4>4. Last(d) = Last(r)
        BY <4>1, <4>3 DEF Last
      <4> QED
        BY <3>2, <4>2, <4>4, Zenon DEF Added
    <3> QED
      BY <1>2, <3>1, <3>2
  <2> DEFINE t == Added(d, x)
  <2>2. t \in Seq(Samples) /\ Expand(d, x) = d \o t /\ Expand(r, x) = r \o t
    BY <1>1, <2>1
  <2> HIDE DEF t
  <2>3. Ends(d \o t, r \o t)
    BY <2>2, EndsConcat
  <2>4. Len(d \o t) = Len(d) + Len(t) /\ Len(r \o t) = Len(r) + Len(t)
    BY <2>2
  <2>5. d # <<>> => d \o t # <<>>
    BY <2>2, <2>4
  <2>6. Len(r \o t) - Len(r) = Len(d \o t) - Len(d)
    BY <2>2, <2>4
  <2> QED
    BY <2>2, <2>3, <2>5, <2>6
<1>3. CASE d = <<>> /\ x.isCount
  <2>1. Expand(d, x) = <<>>
    BY <1>3, Zenon DEF Expand
  <2>2. r \o Added(r, x) \in Seq(Samples) /\ Len(<<>>) = 0
    BY <1>1
  <2> QED
    BY <1>1, <1>3, <2>1, <2>2 DEF Ends
<1> QED
  BY <1>2, <1>3

\* What the words i to k decode to.
Stretch(w, i, k) == Decode(SubSeq(w, i, k))

\* It grows word by word.
LEMMA StretchLaws ==
  ASSUME NEW w \in Seq(Words), NEW i \in 1 .. Len(w) + 1
  PROVE  /\ Stretch(w, i, i - 1) = <<>>
         /\ \A k \in i .. Len(w) : /\ w[k] \in Words
                                   /\ Stretch(w, i, k) = Expand(Stretch(w, i, k - 1), w[k])
         /\ \A k \in i - 1 .. Len(w) : Stretch(w, i, k) \in Seq(Samples)
<1>1. Stretch(w, i, i - 1) = <<>>
  <2>1. SubSeq(w, i, i - 1) = <<>> /\ <<>> \in Seq(Words)
    <3>1. i \in Int /\ i - 1 \in Int /\ i - 1 < i
      OBVIOUS
    <3> QED
      BY <3>1, SubSeqEmpty
  <2> QED
    BY <2>1, DecodeLaws DEF Stretch
<1>2. ASSUME NEW k \in i - 1 .. Len(w) PROVE SubSeq(w, i, k) \in Seq(Words)
  <2>1. i \in Int /\ k \in Int /\ \A j \in i .. k : w[j] \in Words
    OBVIOUS
  <2> QED
    BY <2>1, SubSeqProperties
<1>3. ASSUME NEW k \in i - 1 .. Len(w) PROVE Stretch(w, i, k) \in Seq(Samples)
  BY <1>2, DecodeLaws DEF Stretch
<1>4. ASSUME NEW k \in i .. Len(w)
      PROVE  w[k] \in Words /\ Stretch(w, i, k) = Expand(Stretch(w, i, k - 1), w[k])
  <2>1. /\ i \in 1 .. Len(w) /\ k \in i .. Len(w) /\ k - 1 \in i - 1 .. Len(w)
        /\ w[k] \in Words
    OBVIOUS
  <2>2. SubSeq(w, i, k) = SubSeq(w, i, k - 1) \o <<w[k]>>
    BY <2>1, SubSeqRecursiveSecond
  <2> DEFINE b == SubSeq(w, i, k - 1)
  <2>3. b \in Seq(Words)
    BY <1>2, <2>1
  <2> HIDE DEF b
  <2>4. b \o <<w[k]>> = Append(b, w[k])
    BY <2>1, <2>3, AppendIsConcat
  <2>5. Decode(Append(b, w[k])) = Expand(Decode(b), w[k])
    BY <2>1, <2>3, DecodeLaws
  <2> QED
    BY <2>1, <2>2, <2>4, <2>5 DEF Stretch, b
<1> QED
  BY <1>1, <1>3, <1>4

\* A stretch that begins with word i ends what all words decode to.
LEMMA StretchEnds ==
  ASSUME NEW w \in Seq(Words), NEW i \in 1 .. Len(w) + 1
  PROVE  \A k \in i - 1 .. Len(w) : Ends(Stretch(w, i, k), Stretch(w, 1, k))
<1> DEFINE Holding == {n \in Nat : i - 1 <= n /\ n <= Len(w) => Ends(Stretch(w, i, n), Stretch(w, 1, n))}
<1>0. 1 \in 1 .. Len(w) + 1 /\ Len(w) \in Nat
  OBVIOUS
<1>1. ASSUME NEW n \in Nat, n = i - 1 PROVE Ends(Stretch(w, i, n), Stretch(w, 1, n))
  <2>1. Stretch(w, i, n) = <<>> /\ n \in 1 - 1 .. Len(w)
    BY <1>1, StretchLaws
  <2>2. Stretch(w, 1, n) \in Seq(Samples) /\ Len(<<>>) = 0
    BY <1>0, <2>1, StretchLaws
  <2> QED
    BY <2>1, <2>2 DEF Ends
<1>2. 0 \in Holding
  BY <1>1
<1>3. ASSUME NEW n \in Nat, n \in Holding PROVE n + 1 \in Holding
  <2> SUFFICES ASSUME i - 1 <= n + 1, n + 1 <= Len(w), n + 1 # i - 1
               PROVE  Ends(Stretch(w, i, n + 1), Stretch(w, 1, n + 1))
    BY <1>1
  <2>1. /\ n + 1 \in i .. Len(w) /\ n + 1 \in 1 .. Len(w) /\ n + 1 - 1 = n
        /\ n \in i - 1 .. Len(w) /\ n \in 1 - 1 .. Len(w) /\ i - 1 <= n /\ n <= Len(w)
    OBVIOUS
  <2>2. Ends(Stretch(w, i, n), Stretch(w, 1, n))
    BY <1>3, <2>1
  <2>3. /\ Stretch(w, i, n + 1) = Expand(Stretch(w, i, n), w[n + 1])
        /\ Stretch(w, i, n) \in Seq(Samples) /\ w[n + 1] \in Words
    BY <2>1, StretchLaws
  <2>4. /\ Stretch(w, 1, n + 1) = Expand(Stretch(w, 1, n), w[n + 1])
        /\ Stretch(w, 1, n) \in Seq(Samples)
    BY <1>0, <2>1, StretchLaws
  <2> QED
    BY <2>2, <2>3, <2>4, ExpandsAlike
<1>4. Nat \subseteq Holding
  <2> HIDE DEF Holding
  <2> QED
    BY <1>2, <1>3, SetInduction
<1> QED
  BY <1>0, <1>4

\* Once it has begun, it grows as all of them do.
LEMMA StretchInStep ==
  ASSUME NEW w \in Seq(Words), NEW i \in 1 .. Len(w) + 1, NEW j \in i .. Len(w),
         Stretch(w, i, j) # <<>>
  PROVE  \A k \in j .. Len(w) :
           /\ Stretch(w, i, k) # <<>>
           /\ Len(Stretch(w, 1, k)) - Len(Stretch(w, 1, j))
                = Len(Stretch(w, i, k)) - Len(Stretch(w, i, j))
<1> DEFINE Alike(k) == /\ Stretch(w, i, k) # <<>>
                       /\ Len(Stretch(w, 1, k)) - Len(Stretch(w, 1, j))
                            = Len(Stretch(w, i, k)) - Len(Stretch(w, i, j))
           Holding == {n \in Nat : j <= n /\ n <= Len(w) => Alike(n)}
<1>0. 1 \in 1 .. Len(w) + 1 /\ Len(w) \in Nat
  OBVIOUS
<1>1. ASSUME NEW k \in i - 1 .. Len(w)
      PROVE  /\ Stretch(w, i, k) \in Seq(Samples) /\ Len(Stretch(w, i, k)) \in Nat
             /\ Stretch(w, 1, k) \in Seq(Samples) /\ Len(Stretch(w, 1, k)) \in Nat
  <2>1. Stretch(w, i, k) \in Seq(Samples)
    BY StretchLaws
  <2>2. k \in 1 - 1 .. Len(w)
    OBVIOUS
  <2>3. Stretch(w, 1, k) \in Seq(Samples)
    BY <1>0, <2>2, StretchLaws
  <2> QED
    BY <2>1, <2>3
<1>2. ASSUME NEW n \in Nat, n = j PROVE Alike(n)
  <2>1. j \in i - 1 .. Len(w)
    OBVIOUS
  <2>2. Len(Stretch(w, 1, j)) \in Nat /\ Len(Stretch(w, i, j)) \in Nat
    BY <1>1, <2>1
  <2>3. /\ Len(Stretch(w, 1, j)) - Len(Stretch(w, 1, j)) = 0
        /\ Len(Stretch(w, i, j)) - Len(Stretch(w, i, j)) = 0
    BY <2>2
  <2> QED
    BY <1>2, <2>3
<1>3. 0 \in Holding
  BY <1>2
<1>4. ASSUME NEW n \in Nat, n \in Holding PROVE n + 1 \in Holding
  <2> SUFFICES ASSUME j <= n + 1, n + 1 <= Len(w), n + 1 # j PROVE Alike(n + 1)
    BY <1>2
  <2>1. /\ n + 1 \in i .. Len(w) /\ n + 1 \in 1 .. Len(w) /\ n + 1 - 1 = n
        /\ n \in i - 1 .. Len(w) /\ j \in i - 1 .. Len(w) /\ n + 1 \in i - 1 .. Len(w)
        /\ j <= n /\ n <= Len(w)
    OBVIOUS
  <2>2. Alike(n)
    BY <1>4, <2>1
  <2> DEFINE d == Stretch(w, i, n)
             r == Stretch(w, 1, n)
             x == w[n + 1]
  <2>3. d \in Seq(Samples) /\ r \in Seq(Samples) /\ Ends(d, r)
    BY <1>1, <2>1, StretchEnds
  <2>4. Stretch(w, i, n + 1) = Expand(d, x) /\ x \in Words
    BY <2>1, StretchLaws
  <2>5. Stretch(w, 1, n + 1) = Expand(r, x)
    BY <1>0, <2>1, StretchLaws
  <2>6. d # <<>>
    BY <2>2
  <2>7. Expand(d, x) # <<>> /\ Len(Expand(r, x)) - Len(r) = Len(Expand(d, x)) - Len(d)
    <3> HIDE DEF d, r, x
    <3> QED
      BY <2>3, <2>4, <2>6, ExpandsAlike
  <2>8. /\ Len(Stretch(w, 1, n + 1)) - Len(Stretch(w, 1, n))
             = Len(Stretch(w, i, n + 1)) - Len(Stretch(w, i, n))
        /\ Stretch(w, i, n + 1) # <<>>
    BY <2>4, <2>5, <2>7
  <2>9. /\ Len(Stretch(w, 1, n)) \in Nat /\ Len(Stretch(w, 1, n + 1)) \in Nat
        /\ Len(Stretch(w, i, n)) \in Nat /\ Len(Stretch(w, i, n + 1)) \in Nat
        /\ Len(Stretch(w, 1, j)) \in Nat /\ Len(Stretch(w, i, j)) \in Nat
    BY <1>1, <2>1
  <2> DEFINE a1 == Len(Stretch(w, 1, j))
             a2 == Len(Stretch(w, 1, n))
             a3 == Len(Stretch(w, 1, n + 1))
             b1 == Len(Stretch(w, i, j))
             b2 == Len(Stretch(w, i, n))
             b3 == Len(Stretch(w, i, n + 1))
  <2>10. a3 - a1 = b3 - b1
    <3>1. a2 - a1 = b2 - b1 /\ a3 - a2 = b3 - b2
      BY <2>2, <2>8
    <3>2. a1 \in Nat /\ a2 \in Nat /\ a3 \in Nat /\ b1 \in Nat /\ b2 \in Nat /\ b3 \in Nat
      BY <2>9
    <3> HIDE DEF a1, a2, a3, b1, b2, b3
    <3> QED
      BY <3>1, <3>2
  <2> QED
    BY <2>8, <2>10
<1>5. Nat \subseteq Holding
  <2> HIDE DEF Holding
  <2> QED
    BY <1>3, <1>4, SetInduction
<1> QED
  BY <1>0, <1>5

\* What was decoded stays as more words follow.
LEMMA StretchGrows ==
  ASSUME NEW w \in Seq(Words), NEW j \in 0 .. Len(w)
  PROVE  \A k \in j .. Len(w) :
           /\ Len(Stretch(w, 1, j)) <= Len(Stretch(w, 1, k))
           /\ \A n \in 1 .. Len(Stretch(w, 1, j)) : Stretch(w, 1, k)[n] = Stretch(w, 1, j)[n]
<1> DEFINE Grown(k) ==
             /\ Len(Stretch(w, 1, j)) <= Len(Stretch(w, 1, k))
             /\ \A n \in 1 .. Len(Stretch(w, 1, j)) : Stretch(w, 1, k)[n] = Stretch(w, 1, j)[n]
           Holding == {n \in Nat : j <= n /\ n <= Len(w) => Grown(n)}
<1>0. 1 \in 1 .. Len(w) + 1 /\ Len(w) \in Nat
  OBVIOUS
<1>1. ASSUME NEW k \in 0 .. Len(w)
      PROVE  Stretch(w, 1, k) \in Seq(Samples) /\ Len(Stretch(w, 1, k)) \in Nat
  <2>1. k \in 1 - 1 .. Len(w)
    OBVIOUS
  <2>2. Stretch(w, 1, k) \in Seq(Samples)
    BY <1>0, <2>1, StretchLaws
  <2> QED
    BY <2>2
<1>2. ASSUME NEW n \in Nat, n = j PROVE Grown(n)
  <2>1. Len(Stretch(w, 1, j)) \in Nat
    BY <1>1
  <2> QED
    BY <1>2, <2>1
<1>3. 0 \in Holding
  BY <1>2
<1>4. ASSUME NEW n \in Nat, n \in Holding PROVE n + 1 \in Holding
  <2> SUFFICES ASSUME j <= n + 1, n + 1 <= Len(w), n + 1 # j PROVE Grown(n + 1)
    BY <1>2
  <2>1. n + 1 \in 1 .. Len(w) /\ n + 1 - 1 = n /\ n \in 0 .. Len(w) /\ j <= n /\ n <= Len(w)
    OBVIOUS
  <2>2. Grown(n)
    BY <1>4, <2>1
  <2> DEFINE r == Stretch(w, 1, n)
             x == w[n + 1]
             t == Added(r, x)
             q == Stretch(w, 1, j)
  <2>3. r \in Seq(Samples) /\ Len(r) \in Nat /\ q \in Seq(Samples) /\ Len(q) \in Nat
    BY <1>1, <2>1
  <2>4. Stretch(w, 1, n + 1) = Expand(r, x) /\ x \in Words
    BY <1>0, <2>1, StretchLaws
  <2>5. t \in Seq(Samples) /\ Expand(r, x) = r \o t
    <3> HIDE DEF r, x
    <3> QED
      BY <2>3, <2>4, AddedLaws DEF t
  <2>6. Len(q) <= Len(r) /\ \A m \in 1 .. Len(q) : r[m] = q[m]
    BY <2>2
  <2> HIDE DEF r, x, t, q
  <2>7. /\ Len(r \o t) = Len(r) + Len(t) /\ Len(t) \in Nat
        /\ \A m \in 1 .. Len(r) : (r \o t)[m] = r[m]
    BY <2>3, <2>5
  <2>8. Len(q) <= Len(r \o t) /\ \A m \in 1 .. Len(q) : (r \o t)[m] = q[m]
    BY <2>3, <2>6, <2>7
  <2> QED
    BY <2>4, <2>5, <2>8 DEF q
<1>5. Nat \subseteq Holding
  <2> HIDE DEF Holding
  <2> QED
    BY <1>3, <1>4, SetInduction
<1> QED
  BY <1>0, <1>5

----------------------------------------------------------------------------
(* Behind the core RLE_CTRL is written before the first sample, so nothing  *)
(* is left out: the words emitted and the run outstanding are as many       *)
(* samples as came.                                                        *)

WholeInv ==
  /\ mark = 0
  /\ Len(Decode(Emitted)) + acc = Len(raw)
  /\ acc # 0 => enable /\ havePrev
  /\ enable /\ havePrev => Decode(Emitted) # <<>>

\* A sequence begins a longer one.
LEMMA ConcatBegins ==
  ASSUME NEW d \in Seq(Samples), NEW t \in Seq(Samples)
  PROVE  /\ d \o t \in Seq(Samples) /\ Len(d \o t) = Len(d) + Len(t)
         /\ \A n \in 1 .. Len(d) : (d \o t)[n] = d[n]
<1>1. d \o t \in Seq(Samples) /\ Len(d \o t) = Len(d) + Len(t)
  BY ConcatProperties
<1>2. ASSUME NEW n \in 1 .. Len(d) PROVE (d \o t)[n] = d[n]
  <2>1. n \in 1 .. Len(d) + Len(t) /\ n <= Len(d)
    OBVIOUS
  <2> QED
    BY <2>1, ConcatProperties
<1> QED
  BY <1>1, <1>2

\* How many samples a word of the encoder adds.
LEMMA WordLengths ==
  ASSUME NEW d \in Seq(Samples)
  PROVE  /\ \A s \in Samples : /\ Expand(d, DataWord(s)) \in Seq(Samples)
                               /\ Len(Expand(d, DataWord(s))) = Len(d) + 1
         /\ d # <<>> => \A n \in 1 .. MaxRun :
                          /\ Expand(d, CountWord(n)) \in Seq(Samples)
                          /\ Len(Expand(d, CountWord(n))) = Len(d) + n
<1>1. ASSUME NEW s \in Samples
      PROVE  /\ Expand(d, DataWord(s)) \in Seq(Samples)
             /\ Len(Expand(d, DataWord(s))) = Len(d) + 1
  <2> DEFINE x == DataWord(s)
             t == Added(d, x)
  <2>1. x \in Words /\ ~x.isCount
    BY WordTypes DEF DataWord
  <2> HIDE DEF x
  <2>2. t \in Seq(Samples) /\ Expand(d, x) = d \o t /\ Len(t) = 1
    BY <2>1, AddedLaws
  <2> HIDE DEF t
  <2>3. d \o t \in Seq(Samples) /\ Len(d \o t) = Len(d) + Len(t)
    BY <2>2, ConcatBegins
  <2> QED
    BY <2>2, <2>3 DEF x
<1>2. ASSUME d # <<>>, NEW n \in 1 .. MaxRun
      PROVE  /\ Expand(d, CountWord(n)) \in Seq(Samples)
             /\ Len(Expand(d, CountWord(n))) = Len(d) + n
  <2> DEFINE t == Repeated(Last(d).value, n)
  <2>0. n \in Nat
    BY MaxRunAssumption
  <2>1. Last(d).value \in Values
    <3>1. Last(d) \in Samples
      BY <1>2 DEF Last
    <3> QED
      BY <3>1 DEF Samples
  <2>2. t \in Seq(Samples) /\ Len(t) = n
    BY <2>0, <2>1, RepeatedTypes
  <2>3. Expand(d, CountWord(n)) = d \o t
    BY <1>2 DEF Expand, CountWord, Repeated
  <2> HIDE DEF t
  <2>4. d \o t \in Seq(Samples) /\ Len(d \o t) = Len(d) + n
    BY <2>2
  <2> QED
    BY <2>3, <2>4
<1> QED
  BY <1>1, <1>2

\* A sample is in a word emitted or in the run.
LEMMA SampleWhole ==
  ASSUME RleIInv, WholeInv, NEW s \in Samples, Sample(s)
  PROVE  WholeInv'
<1>1. enable \in BOOLEAN /\ havePrev \in BOOLEAN
  BY Zenon DEF RleIInv, RleTypeOK
<1>2. /\ acc \in 0 .. MaxRun - 1 /\ pend \in Seq(Words) /\ Len(pend) <= 1
      /\ raw \in Seq(Samples) /\ out \in Seq(Words)
  BY Zenon DEF RleIInv, RleTypeOK
<1>3. /\ Follow(s) /\ Emit(Produced(s)) /\ raw' = Append(raw, s)
      /\ enable' = enable /\ mark' = mark
  BY DEF Sample
<1>4. Emitted' = Emitted \o Produced(s) /\ Emitted \in Seq(Words)
  <2>1. Produced(s) \in Seq(Words) /\ Len(Produced(s)) \in 0 .. 2
    BY <1>1, <1>2, ProducedShape
  <2> QED
    BY <1>2, <1>3, <2>1, SkidHolds, EmitInOrder
<1> DEFINE d == Decode(Emitted)
           m == Len(d)
           n == Len(raw)
<1>5. d \in Seq(Samples)
  BY <1>4, DecodeLaws
<1>6. m \in Nat /\ n \in Nat /\ Len(raw') = n + 1
  BY <1>2, <1>3, <1>5
<1>7. /\ mark' = 0 /\ m + acc = n
      /\ acc # 0 => enable /\ havePrev
      /\ enable /\ havePrev => d # <<>>
  BY <1>3 DEF WholeInv
<1> HIDE DEF d
<1> SUFFICES ASSUME NEW c, NEW b, c = Decode(Emitted'), b = acc'
             PROVE  /\ Len(c) + b = n + 1
                    /\ b # 0 => enable /\ havePrev'
                    /\ enable /\ havePrev' => c # <<>>
  BY <1>3, <1>6, <1>7 DEF WholeInv
<1>8. CASE Produced(s) = <<DataWord(s)>> /\ (~enable \/ ~havePrev \/ (acc = 0 /\ ~Repeats(s)))
  <2>1. Emitted' = Append(Emitted, DataWord(s))
    BY <1>4, <1>8, WordTypes, AppendIsConcat
  <2>2. c = Expand(d, DataWord(s))
    BY <1>4, <2>1, WordTypes, DecodeLaws DEF d
  <2>3. c \in Seq(Samples) /\ Len(c) = m + 1
    BY <1>5, <2>2, WordLengths
  <2>4. acc = 0
    BY <1>7, <1>8
  <2>5. b = 0
    BY <1>3, <1>8, <2>4 DEF Follow, runState, Repeats
  <2> HIDE DEF m, n
  <2>6. Len(c) + b = n + 1 /\ Len(c) # 0
    BY <1>6, <1>7, <2>3, <2>4, <2>5
  <2>7. c # <<>>
    BY <2>3, <2>6
  <2> QED
    BY <2>5, <2>6, <2>7
<1>9. CASE Produced(s) = <<CountWord(acc), DataWord(s)>> /\ enable /\ havePrev /\ acc # 0 /\ ~Repeats(s)
  <2> DEFINE k == CountWord(acc)
             w == DataWord(s)
             e1 == Append(Emitted, k)
             d1 == Expand(d, k)
  <2>1. acc \in 1 .. MaxRun /\ k \in Words /\ w \in Words
    BY <1>2, <1>9, MaxRunAssumption, WordTypes
  <2>2. d1 \in Seq(Samples) /\ Len(d1) = m + acc
    BY <1>5, <1>7, <1>9, <2>1, WordLengths
  <2>3. Produced(s) = <<k>> \o <<w>>
    BY <1>9, <2>1
  <2>4. \A x \in Seq(Samples) : /\ Expand(x, w) \in Seq(Samples)
                               /\ Len(Expand(x, w)) = Len(x) + 1
    BY WordLengths
  <2> HIDE DEF k, w
  <2>5. e1 \in Seq(Words) /\ Decode(e1) = d1
    BY <1>4, <2>1, DecodeLaws DEF d
  <2> HIDE DEF e1
  <2>6. Emitted' = Append(e1, w)
    <3>1. <<k>> \in Seq(Words) /\ <<w>> \in Seq(Words)
      BY <2>1
    <3>2. Append(e1, w) = (Emitted \o <<k>>) \o <<w>>
      BY <1>4, <2>1, <2>5, AppendIsConcat DEF e1
    <3>3. (Emitted \o <<k>>) \o <<w>> = Emitted \o (<<k>> \o <<w>>)
      BY <1>4, <3>1, ConcatAssociative
    <3> QED
      BY <1>4, <2>3, <3>2, <3>3
  <2>7. c = Expand(d1, w)
    BY <2>1, <2>5, <2>6, DecodeLaws
  <2> HIDE DEF d1
  <2>8. c \in Seq(Samples) /\ Len(c) = m + acc + 1
    BY <2>2, <2>4, <2>7
  <2>9. b = 0
    BY <1>3, <1>9 DEF Follow
  <2> HIDE DEF m, n
  <2>10. Len(c) + b = n + 1 /\ Len(c) # 0
    BY <1>2, <1>6, <1>7, <2>8, <2>9
  <2>11. c # <<>>
    BY <2>8, <2>10
  <2> QED
    BY <2>9, <2>10, <2>11
<1>10. CASE enable /\ Repeats(s)
  <2>1. enable /\ havePrev /\ d # <<>>
    BY <1>7, <1>10 DEF Repeats
  <2>2. havePrev' /\ b = IF acc = MaxRun - 1 THEN 0 ELSE acc + 1
    BY <1>3, <1>10 DEF Follow
  <2>3. CASE acc = MaxRun - 1
    <3>1. Produced(s) = <<CountWord(MaxRun)>> /\ acc + 1 = MaxRun /\ MaxRun \in 1 .. MaxRun
      BY <1>10, <2>1, <2>3, MaxRunAssumption DEF Produced
    <3>2. Emitted' = Append(Emitted, CountWord(MaxRun))
      BY <1>4, <3>1, WordTypes, AppendIsConcat
    <3>3. c = Expand(d, CountWord(MaxRun))
      BY <1>4, <3>1, <3>2, WordTypes, DecodeLaws DEF d
    <3>4. c \in Seq(Samples) /\ Len(c) = m + MaxRun
      BY <1>5, <2>1, <3>1, <3>3, WordLengths
    <3>5. b = 0
      BY <2>2, <2>3
    <3> HIDE DEF m, n
    <3>6. Len(c) + b = n + 1 /\ Len(c) # 0
      BY <1>2, <1>6, <1>7, <3>1, <3>4, <3>5, MaxRunAssumption
    <3>7. c # <<>>
      BY <3>4, <3>6
    <3> QED
      BY <3>5, <3>6, <3>7
  <2>4. CASE acc # MaxRun - 1
    <3>1. Produced(s) = <<>>
      BY <1>10, <2>1, <2>4 DEF Produced
    <3>2. c = d /\ b = acc + 1
      BY <1>4, <2>2, <2>4, <3>1, ConcatEmptySeq DEF d
    <3>3. Len(c) = m
      BY <3>2
    <3> HIDE DEF m, n
    <3>4. Len(c) + b = n + 1
      BY <1>2, <1>6, <1>7, <3>2, <3>3
    <3> QED
      BY <2>1, <2>2, <3>2, <3>4
  <2> QED
    BY <2>3, <2>4
<1> QED
  <2>1. ~enable \/ ~havePrev => Produced(s) = <<DataWord(s)>>
    BY DEF Produced
  <2>2. enable /\ havePrev /\ ~Repeats(s) /\ acc = 0 => Produced(s) = <<DataWord(s)>>
    BY DEF Produced
  <2>3. enable /\ havePrev /\ ~Repeats(s) /\ acc # 0 => Produced(s) = <<CountWord(acc), DataWord(s)>>
    BY DEF Produced
  <2> QED
    BY <1>8, <1>9, <1>10, <2>1, <2>2, <2>3, Zenon

\* Draining the skid emits nothing new.
LEMMA GapWhole ==
  ASSUME RleIInv, WholeInv, Gap
  PROVE  WholeInv'
<1>1. pend \in Seq(Words) /\ Len(pend) <= 1 /\ out \in Seq(Words)
  BY Zenon DEF RleIInv, RleTypeOK
<1> DEFINE k == Len(<<>>)
           n == Len(pend)
<1>2. <<>> \in Seq(Words) /\ k = 0
  OBVIOUS
<1>3. k \in 0 .. 2 /\ n + k <= 2
  <2>1. k = 0 /\ n \in Nat /\ n <= 1
    BY <1>1, <1>2, EmptyByLength
  <2> HIDE DEF k, n
  <2> QED
    BY <2>1
<1>4. Emit(<<>>) /\ UNCHANGED <<enable, havePrev, prev, acc, raw, mark>>
  BY DEF Gap, runState
<1>5. Emitted' = Emitted \o <<>> /\ Emitted \in Seq(Words)
  BY <1>1, <1>2, <1>3, <1>4, EmitInOrder, Zenon
<1>6. Emitted' = Emitted
  BY <1>5, ConcatEmptySeq
<1> QED
  BY <1>4, <1>6 DEF WholeInv

\* Every step of the composition preserves it.
LEMMA WholeStep == RleIInv /\ WholeInv /\ [CaptureNext]_captureVars => WholeInv'
<1> SUFFICES ASSUME RleIInv, WholeInv, [CaptureNext]_captureVars PROVE WholeInv'
  OBVIOUS
<1>1. ASSUME NEW s \in Samples, NEW a, NEW d, SampleCycle(s, a, d) PROVE WholeInv'
  BY <1>1, SampleWhole DEF SampleCycle
<1>2. ASSUME NEW a, NEW d, IdleCycle(a, d) PROVE WholeInv'
  BY <1>2, GapWhole DEF IdleCycle
<1>3. CASE UNCHANGED rleVars
  BY <1>3 DEF rleVars, runState, WholeInv, Emitted
<1> QED
  BY <1>1, <1>2, <1>3 DEF CaptureNext, Configure, captureVars

\* What the words emitted decode to is the beginning of the samples.
LEMMA WholeIsPrefix ==
  ASSUME RleIInv, LosslessInv, WholeInv
  PROVE  /\ Emitted \in Seq(Words) /\ Decode(Emitted) \in Seq(Samples) /\ raw \in Seq(Samples)
         /\ Len(Decode(Emitted)) <= Len(raw)
         /\ \A n \in 1 .. Len(Decode(Emitted)) : raw[n] = Decode(Emitted)[n]
<1>1. enable \in BOOLEAN /\ havePrev \in BOOLEAN
  BY Zenon DEF RleIInv, RleTypeOK
<1>2. /\ prev \in Values /\ acc \in 0 .. MaxRun - 1 /\ acc \in Nat
      /\ raw \in Seq(Samples) /\ out \in Seq(Words) /\ pend \in Seq(Words)
  BY MaxRunAssumption DEF RleIInv, RleTypeOK
<1>3. Emitted \in Seq(Words)
  BY <1>2 DEF Emitted
<1> DEFINE d == Decode(Emitted)
<1>4. d \in Seq(Samples) /\ Len(d) \in Nat /\ Len(raw) \in Nat
  BY <1>2, <1>3, DecodeLaws
<1>5. Faithful(d, enable, havePrev, prev, acc, raw)
  <2>1. 1 \in mark + 1 .. Len(Emitted) + 1
    BY <1>3 DEF WholeInv
  <2>2. SubSeq(Emitted, 1, Len(Emitted)) = Emitted
    BY <1>3, SubSeqFull
  <2> QED
    BY <2>1, <2>2 DEF LosslessInv, AllFaithful
<1>6. /\ Len(d) + acc = Len(raw)
      /\ acc # 0 => enable /\ havePrev
      /\ enable /\ havePrev => d # <<>>
  BY DEF WholeInv
<1> HIDE DEF d
<1>7. Len(d) <= Len(raw)
  <2> DEFINE m == Len(d)
             n == Len(raw)
  <2> HIDE DEF m, n
  <2>1. m \in Nat /\ n \in Nat /\ m + acc = n
    BY <1>4, <1>6 DEF m, n
  <2>2. m <= n
    BY <1>2, <2>1
  <2> QED
    BY <2>2 DEF m, n
<1>8. ASSUME NEW n \in 1 .. Len(d) PROVE raw[n] = d[n]
  <2>0. d # <<>>
    BY <1>4, <1>8
  <2>1. CASE ~enable
    <3>1. Ends(d, raw) /\ acc = 0
      BY <1>1, <1>5, <1>6, <2>0, <2>1 DEF Faithful
    <3>2. Len(raw) - Len(d) + n = n
      BY <1>4, <1>6, <3>1
    <3> QED
      BY <3>1, <3>2 DEF Ends
  <2>2. CASE enable
    <3> DEFINE t == Repeated(prev, acc)
               x == d \o t
    <3>1. Ends(x, raw)
      BY <1>5, <2>0, <2>2 DEF Faithful
    <3>2. t \in Seq(Samples) /\ Len(t) = acc
      BY <1>2, RepeatedTypes
    <3> HIDE DEF t
    <3>3. Len(x) = Len(d) + acc /\ x[n] = d[n]
      BY <1>4, <3>2, ConcatBegins
    <3> HIDE DEF x
    <3>4. n \in 1 .. Len(x) /\ Len(raw) - Len(x) + n = n
      <4> DEFINE lx == Len(x)
                 ld == Len(d)
                 lr == Len(raw)
      <4>1. lx = ld + acc /\ ld + acc = lr /\ ld \in Nat /\ lr \in Nat /\ n \in 1 .. ld
        BY <1>4, <1>6, <3>3
      <4> HIDE DEF lx, ld, lr
      <4>2. n \in 1 .. lx /\ lr - lx + n = n
        BY <1>2, <4>1
      <4> QED
        BY <4>2 DEF lx, lr
    <3> QED
      BY <3>1, <3>3, <3>4 DEF Ends
  <2> QED
    BY <2>1, <2>2
<1> QED
  BY <1>2, <1>3, <1>4, <1>7, <1>8 DEF d

----------------------------------------------------------------------------
(* Which words the core numbers.                                           *)

\* The model numbers words without wrapping, for its histories are short.
NumbersSuffice == MaxSamples < StampLimit

\* Word number n is out[first + n], the next word's number is now, and the
\* numbers suffice for the history and the trigger.
PlaceInv ==
  /\ windows = 1 /\ windowsQ = 1 /\ weff = 1
  /\ Len(raw) <= MaxSamples
  /\ first \in Nat \ {0} /\ now <= Len(out)
  /\ st \in Capturing => first + now = Len(out) + 1
  /\ st # "IDLE" => first + now <= Len(out) + 1
  /\ st = "FILLING" => fillCnt <= now
  /\ st = "ARMED" => runPre <= now
  /\ st \in {"TRIGGERED", "DONE"} =>
       runPre <= tsAtTrig /\ tsAtTrig < now /\ out[first + tsAtTrig].trig
  /\ st = "DONE" => tsAtTrig + (Depth - runPre) <= now

\* One cycle in which the core is offered the word w, or none.
LEMMA PlaceCycle ==
  ASSUME IInv, PlaceInv, NEW v \in BOOLEAN, NEW t \in BOOLEAN, NEW a, NEW d, Edge(v, t, a, d),
         out \in Seq(Words), NEW w \in Words, t => w.trig,
         out' = (IF v THEN Append(out, w) ELSE out), Len(out') < StampLimit,
         Len(raw') <= MaxSamples,
         first' = IF st \notin Capturing /\ st' = "FILLING" THEN Len(out') + 1 - now ELSE first
  PROVE  PlaceInv'
<1> USE DepthAssumption, StampAssumption
<1> SUFFICES ASSUME NEW m, m = Len(out'), NEW n, n = Len(out), NEW now2, now2 = now',
                    NEW first2, first2 = first', NEW ts2, ts2 = tsAtTrig',
                    NEW pre2, pre2 = runPre', NEW fill2, fill2 = fillCnt'
             PROVE  /\ windows' = 1 /\ windowsQ' = 1 /\ weff' = 1
                    /\ first2 \in Nat \ {0} /\ now2 <= m
                    /\ st' \in Capturing => first2 + now2 = m + 1
                    /\ st' # "IDLE" => first2 + now2 <= m + 1
                    /\ st' = "FILLING" => fill2 <= now2
                    /\ st' = "ARMED" => pre2 <= now2
                    /\ st' \in {"TRIGGERED", "DONE"} =>
                         pre2 <= ts2 /\ ts2 < now2 /\ out'[first2 + ts2].trig
                    /\ st' = "DONE" => ts2 + (Depth - pre2) <= now2
  BY ZenonT(30) DEF PlaceInv
<1>1. /\ windows = 1 /\ windowsQ = 1 /\ weff = 1
      /\ first \in Nat /\ first >= 1 /\ now <= n
      /\ st \in Capturing => first + now = n + 1
      /\ st # "IDLE" => first + now <= n + 1
      /\ st = "FILLING" => fillCnt <= now
      /\ st = "ARMED" => runPre <= now
      /\ st \in {"TRIGGERED", "DONE"} =>
           runPre <= tsAtTrig /\ tsAtTrig < now /\ out[first + tsAtTrig].trig
      /\ st = "DONE" => tsAtTrig + (Depth - runPre) <= now
  BY DEF PlaceInv
<1>2. /\ n \in Nat /\ m = (IF v THEN n + 1 ELSE n) /\ m < StampLimit
      /\ \A k \in 1 .. n : out'[k] = out[k]
      /\ v => out'[n + 1] = w
  BY DEF PlaceInv
<1>3. /\ st \in States /\ slice = Depth /\ now \in Nat /\ tsAtTrig \in Nat
      /\ runPre \in 0 .. Depth - 1 /\ fillCnt \in Nat /\ post \in 0 .. Depth
  <2>1. weff = 1 /\ weff * slice = Depth /\ slice \in Nat
    BY <1>1 DEF IInv, TypeOK
  <2>2. slice = Depth
    BY <2>1
  <2> QED
    BY <2>2 DEF IInv, TypeOK, Stamps
<1>4. st # "IDLE" => runPre = PretrigEff
  BY DEF IInv, WindowBookkeeping
\* The number moves with the words.
<1>5. ASSUME Capture(v, t)
      PROVE  /\ now2 = (IF v /\ st \in Capturing THEN now + 1 ELSE now)
             /\ now2 \in Nat /\ now2 <= m
  <2>1. now2 = IF v /\ st \in Capturing THEN Ahead(now, 1, StampLimit) ELSE now
    BY <1>5 DEF Capture
  <2>2. v /\ st \in Capturing => now + 1 < StampLimit
    BY <1>1, <1>2, <1>3
  <2>3. now2 = IF v /\ st \in Capturing THEN now + 1 ELSE now
    BY <1>3, <2>1, <2>2 DEF Ahead
  <2> QED
    BY <1>1, <1>2, <1>3, <2>3
<1>6. CASE Disarm(v, t)
  <2>1. Capture(v, t) /\ st' = "IDLE" /\ UNCHANGED <<windows, windowsQ, weff>>
    BY <1>6 DEF Disarm, config, run
  <2>2. first2 = first
    BY <2>1
  <2> QED
    BY <1>1, <1>5, <2>1, <2>2 DEF Capturing
<1>7. CASE Fill(v, t)
  <2>1. /\ st = "FILLING" /\ Capture(v, t) /\ UNCHANGED <<windows, windowsQ, weff, runPre>>
        /\ st' = IF FillNext(v) >= PretrigEff THEN "ARMED" ELSE "FILLING"
    BY <1>7 DEF Fill, config, run
  <2>2. first2 = first /\ pre2 = runPre
    BY <2>1 DEF Capturing
  <2>3. fill2 = FillNext(v) /\ FillNext(v) <= now2 /\ FillNext(v) \in Nat
    <3>1. fill2 = FillNext(v)
      BY <2>1 DEF Capture
    <3>2. FillNext(v) = IF v THEN fillCnt + 1 ELSE fillCnt
      BY <2>1 DEF FillNext, Stores
    <3> QED
      BY <1>1, <1>3, <1>5, <2>1, <3>1, <3>2 DEF Capturing
  <2>4. first2 + now2 = m + 1
    BY <1>1, <1>2, <1>3, <1>5, <2>1, <2>2 DEF Capturing
  <2>5. st' = "ARMED" => pre2 <= now2
    BY <1>3, <1>4, <1>5, <2>1, <2>2, <2>3
  <2>6. windows' = 1 /\ windowsQ' = 1 /\ weff' = 1 /\ st' \in {"FILLING", "ARMED"}
    BY <1>1, <2>1
  <2>7. fill2 <= now2 /\ now2 \in Nat /\ now2 <= m
    BY <1>5, <2>1, <2>3
  <2>8. first2 \in Nat \ {0} /\ first2 + now2 <= m + 1
    <3>1. m + 1 \in Nat /\ first2 \in Nat \ {0}
      BY <1>1, <1>2, <2>2
    <3> QED
      BY <2>4, <3>1
  <2> QED
    BY <2>4, <2>5, <2>6, <2>7, <2>8
<1>8. CASE Watch(v, t)
  <2>1. /\ st = "ARMED" /\ Capture(v, t) /\ UNCHANGED <<windows, windowsQ, weff, runPre>>
        /\ st' = IF Accepts(v, t) THEN "TRIGGERED" ELSE "ARMED"
    BY <1>8 DEF Watch, config, run
  <2>2. first2 = first /\ pre2 = runPre
    BY <2>1 DEF Capturing
  <2>3. first2 + now2 = m + 1 /\ first + now = n + 1 /\ runPre <= now
    BY <1>1, <1>2, <1>3, <1>5, <2>1, <2>2 DEF Capturing
  <2>4. CASE Accepts(v, t)
    <3>1. v /\ t /\ ts2 = now
      BY <2>1, <2>4 DEF Accepts, Capture
    <3>2. out'[n + 1].trig /\ now2 = now + 1
      BY <1>2, <1>5, <2>1, <3>1 DEF Capturing
    <3>3. first2 + ts2 = n + 1
      BY <2>2, <2>3, <3>1
    <3> QED
      BY <1>1, <1>3, <1>5, <2>1, <2>2, <2>3, <2>4, <3>1, <3>2, <3>3
  <2>5. CASE ~Accepts(v, t)
    BY <1>1, <1>3, <1>5, <2>1, <2>2, <2>3, <2>5
  <2> QED
    BY <2>4, <2>5
<1>9. CASE Collect(v, t)
  <2>1. /\ st = "TRIGGERED" /\ Capture(v, t) /\ UNCHANGED <<windows, windowsQ, weff, runPre>>
        /\ st' = IF PostNext(v) = 0 THEN "DONE" ELSE "TRIGGERED"
    BY <1>9 DEF Collect, config, run
  <2>2. first2 = first /\ pre2 = runPre
    BY <2>1 DEF Capturing
  <2>3. ts2 = tsAtTrig
    BY <2>1 DEF Capture, Accepts
  <2>4. now2 = (IF v THEN now + 1 ELSE now) /\ now2 \in Nat /\ now2 <= m
    BY <1>5, <2>1 DEF Capturing
  <2>5. /\ runPre <= tsAtTrig /\ tsAtTrig < now /\ out[first + tsAtTrig].trig
        /\ first + now = n + 1
    BY <1>1, <2>1 DEF Capturing
  <2>6. now <= now2 /\ first2 + now2 = m + 1 /\ first2 \in Nat \ {0}
    <3>1. first \in Nat /\ first >= 1 /\ n \in Nat /\ now \in Nat
      BY <1>1, <1>2, <1>3
    <3>2. CASE v
      <4>1. now2 = now + 1 /\ m = n + 1
        BY <1>2, <2>4, <3>2
      <4>2. first + now = n + 1 /\ first2 = first
        BY <2>2, <2>5
      <4>3. first + (now + 1) = (n + 1) + 1
        BY <3>1, <4>2
      <4>4. first2 + now2 = m + 1
        BY <4>1, <4>2, <4>3
      <4>5. now <= now + 1
        BY <3>1
      <4>6. now <= now2
        BY <4>1, <4>5
      <4>7. first2 \in Nat \ {0}
        BY <3>1, <4>2
      <4> QED
        BY <4>4, <4>6, <4>7
    <3>3. CASE ~v
      <4>1. now2 = now /\ m = n
        BY <1>2, <2>4, <3>3
      <4> QED
        BY <2>2, <2>5, <3>1, <4>1
    <3> QED
      BY <3>2, <3>3
  <2>7. out'[first2 + ts2].trig
    <3>1. first + tsAtTrig \in 1 .. n
      BY <1>1, <1>2, <1>3, <2>5
    <3> QED
      BY <1>2, <2>2, <2>3, <2>5, <3>1
  <2>8. now = tsAtTrig + (Depth - runPre - post)
    <3>1. now = Ahead(tsAtTrig, Depth - runPre - post, StampLimit)
      BY <1>3, <2>1 DEF IInv, TriggerShape, SinceTrigger
    <3> QED
      BY <1>3, <2>5, <3>1 DEF Ahead
  <2>9. st' = "DONE" => ts2 + (Depth - pre2) <= now2
    <3> SUFFICES ASSUME PostNext(v) = 0 PROVE ts2 + (Depth - pre2) <= now2
      BY <2>1
    <3>1. CASE post = 0
      BY <1>3, <2>2, <2>3, <2>4, <2>6, <2>8, <3>1
    <3>2. CASE post # 0
      <4>1. v /\ post = 1
        BY <1>3, <2>1, <3>2 DEF PostNext, Stores
      <4>2. now2 = now + 1
        BY <2>4, <4>1
      <4> QED
        BY <1>3, <2>2, <2>3, <2>8, <4>1, <4>2
    <3> QED
      BY <3>1, <3>2
  <2>10. pre2 <= ts2 /\ ts2 < now2
    BY <1>3, <2>2, <2>3, <2>4, <2>5, <2>6
  <2> QED
    <3>1. windows' = 1 /\ windowsQ' = 1 /\ weff' = 1 /\ st' \in {"TRIGGERED", "DONE"}
      BY <1>1, <2>1
    <3>2. first2 + now2 <= m + 1
      BY <1>2, <2>4, <2>6
    <3> QED
      BY <2>4, <2>6, <2>7, <2>9, <2>10, <3>1, <3>2
<1>10. CASE Arm
  <2>1. /\ st \in {"IDLE", "DONE"} /\ st' = "FILLING" /\ fill2 = 0 /\ now2 = now
        /\ windows' = windows /\ windowsQ' = windows /\ weff' = EffectiveWindows(windows)
    BY <1>10 DEF Arm, StartWindow, config
  <2>2. weff' = 1
    BY <1>1, <2>1, OneWindow
  <2>3. first2 = m + 1 - now
    BY <2>1 DEF Capturing
  <2>4. first2 \in Nat \ {0} /\ first2 + now2 = m + 1 /\ now2 <= m
    BY <1>1, <1>2, <1>3, <2>1, <2>3
  <2> QED
    BY <1>1, <1>2, <1>3, <2>1, <2>2, <2>4
<1>11. CASE NextWindow
  <2>1. st = "DONE" /\ windowsDone < windowsQ
    BY <1>11 DEF NextWindow
  <2>2. winIdx + 1 = windowsDone /\ winIdx \in Nat
    BY <2>1 DEF IInv, TypeOK, WindowBookkeeping
  <2> QED
    BY <1>1, <2>1, <2>2
<1>12. CASE Rest
  <2>1. /\ st' = st /\ st \in {"IDLE", "DONE"} /\ now2 = now /\ fill2 = fillCnt /\ pre2 = runPre
        /\ ts2 = tsAtTrig /\ UNCHANGED <<windows, windowsQ, weff>>
    BY <1>12 DEF Rest, vars, config, run, Capturing
  <2>2. first2 = first
    BY <2>1 DEF Capturing
  <2>3. n <= m
    BY <1>2
  <2>4. st = "DONE" => out'[first2 + ts2].trig
    <3> SUFFICES ASSUME st = "DONE" PROVE out'[first2 + ts2].trig
      OBVIOUS
    <3>1. first + tsAtTrig \in 1 .. n
      BY <1>1, <1>2, <1>3
    <3> QED
      BY <1>1, <1>2, <2>1, <2>2, <3>1
  <2>5. st # "IDLE" => first2 + now2 <= m + 1
    BY <1>1, <1>2, <1>3, <2>1, <2>2, <2>3
  <2>6. now2 <= m
    BY <1>1, <1>2, <1>3, <2>1, <2>3
  <2> QED
    <3>1. /\ windows' = 1 /\ windowsQ' = 1 /\ weff' = 1
          /\ first2 \in Nat \ {0}
      BY <1>1, <2>1, <2>2
    <3>2. CASE st = "IDLE"
      BY <2>1, <2>6, <3>1, <3>2 DEF Capturing
    <3>3. CASE st = "DONE"
      <4>1. /\ runPre <= tsAtTrig /\ tsAtTrig < now /\ tsAtTrig + (Depth - runPre) <= now
        BY <1>1, <3>3
      <4> QED
        BY <2>1, <2>4, <2>5, <2>6, <3>1, <3>3, <4>1 DEF Capturing
    <3> QED
      BY <2>1, <3>2, <3>3
<1> QED
  BY <1>6, <1>7, <1>8, <1>9, <1>10, <1>11, <1>12 DEF Edge

\* One cycle of the composition.
LEMMA CycleKeepsPlace ==
  ASSUME NumbersSuffice, IInv, PlaceInv, RleIInv', out \in Seq(Words), pend \in Seq(Words),
         NEW produced \in Seq(Words), NEW a, NEW d,
         Emit(produced), Feed(produced, a, d), Trace(produced), Len(raw') <= MaxSamples
  PROVE  PlaceInv'
<1> DEFINE queue == pend \o produced
           v == queue # <<>>
           t == queue # <<>> /\ queue[1].trig
<1>1. queue \in Seq(Words)
  OBVIOUS
<1>2. Edge(v, t, a, d) /\ out' = IF v THEN Append(out, queue[1]) ELSE out
  BY DEF Feed, Emit
<1>3. first' = IF st \notin Capturing /\ st' = "FILLING" THEN Len(out') + 1 - now ELSE first
  <2>1. Len(out') + 1 - now = Len(out') + 1 - now'
        \/ ~(st \notin Capturing /\ st' = "FILLING")
    <3>1. CASE st \notin Capturing /\ st' = "FILLING"
      <4>1. now' = now
        BY <1>2, <3>1 DEF Edge, Disarm, Fill, Watch, Collect, Arm, NextWindow, Rest, vars, Capturing
      <4> QED
        BY <4>1
    <3> QED
      BY <3>1
  <2> QED
    BY <2>1 DEF Trace
<1>4. Len(out') < StampLimit
  <2> SUFFICES ASSUME NEW n, n = Len(out'), NEW p, p = Len(pend'), NEW r, r = Len(raw'),
                      NEW o, o = IF acc' # 0 THEN 1 ELSE 0
               PROVE  n < StampLimit
    OBVIOUS
  <2>1. n + p + o <= r
    BY DEF RleIInv, NeverExpands
  <2>2. n \in Nat /\ p \in Nat /\ r \in Nat /\ o \in Nat
    BY DEF RleIInv, RleTypeOK
  <2>3. r <= MaxSamples
    OBVIOUS
  <2>4. n <= r
    BY <2>1, <2>2
  <2> QED
    BY <2>2, <2>3, <2>4, MaxSamplesAssumption, StampAssumption, DepthAssumption DEF NumbersSuffice
<1>5. PICK w \in Words : v => w = queue[1]
  <2>1. CASE v
    <3>1. queue[1] \in Words
      BY <1>1, <2>1
    <3> QED
      BY <3>1
  <2>2. CASE ~v
    <3>1. PICK y \in Values : TRUE
      BY ValuesAssumption
    <3>2. [isCount |-> FALSE, value |-> y, trig |-> FALSE] \in Words
      BY DEF Words
    <3> QED
      BY <2>2, <3>2
  <2> QED
    BY <2>1, <2>2
<1>6. t => w.trig
  BY <1>5
<1>7. out' = IF v THEN Append(out, w) ELSE out
  BY <1>2, <1>5
<1>8. v \in BOOLEAN /\ t \in BOOLEAN
  OBVIOUS
<1> HIDE DEF v, t
<1> QED
  BY <1>2, <1>3, <1>4, <1>6, <1>7, <1>8, PlaceCycle

\* Every step of the composition keeps the words where they are.
LEMMA PlaceStep ==
  ASSUME NumbersSuffice, IInv, RleIInv, RleIInv', PlaceInv, [CaptureNext]_captureVars
  PROVE  PlaceInv'
<1>0. /\ pend \in Seq(Words) /\ out \in Seq(Words) /\ raw \in Seq(Samples)
      /\ enable \in BOOLEAN /\ acc \in 0 .. MaxRun - 1
  <2>1. enable \in BOOLEAN
    BY Zenon DEF RleIInv, RleTypeOK
  <2> QED
    BY <2>1 DEF RleIInv, RleTypeOK
<1>1. ASSUME NEW s \in Samples, NEW a, NEW d, SampleCycle(s, a, d) PROVE PlaceInv'
  <2>1. /\ Emit(Produced(s)) /\ Feed(Produced(s), a, d) /\ Trace(Produced(s))
        /\ raw' = Append(raw, s) /\ Len(raw) < MaxSamples
    BY <1>1 DEF SampleCycle, Sample
  <2>2. Produced(s) \in Seq(Words)
    BY <1>0, ProducedShape
  <2>3. Len(raw') <= MaxSamples
    <3>1. Len(Append(raw, s)) = Len(raw) + 1 /\ Len(raw) \in Nat
      BY <1>0
    <3>2. Len(Append(raw, s)) <= MaxSamples
      BY <2>1, <3>1, MaxSamplesAssumption
    <3> QED
      BY <2>1, <3>2
  <2> QED
    BY <1>0, <2>1, <2>2, <2>3, CycleKeepsPlace
<1>2. ASSUME NEW a, NEW d, IdleCycle(a, d) PROVE PlaceInv'
  <2>1. /\ Emit(<<>>) /\ Feed(<<>>, a, d) /\ Trace(<<>>) /\ raw' = raw
    BY <1>2 DEF IdleCycle, Gap
  <2>2. <<>> \in Seq(Words) /\ Len(raw') <= MaxSamples
    BY <2>1 DEF PlaceInv
  <2> QED
    BY <1>0, <2>1, <2>2, CycleKeepsPlace
<1>3. ASSUME NEW p, Configure(p) PROVE PlaceInv'
  <2>1. /\ st = "IDLE" /\ st' = st /\ out' = out /\ raw' = raw /\ first' = first
        /\ UNCHANGED <<windows, windowsQ, weff, now>>
    BY <1>3 DEF Configure, WritePretrig, rleVars, run
  <2> QED
    BY <2>1 DEF PlaceInv, Capturing
<1>4. CASE UNCHANGED captureVars
  BY <1>4 DEF captureVars, vars, config, run, window, rleVars, PlaceInv, Capturing
<1> QED
  BY <1>1, <1>2, <1>3, <1>4 DEF CaptureNext

\* It holds before the first word.
LEMMA PlaceInit == CaptureInit => PlaceInv
<1> SUFFICES ASSUME CaptureInit PROVE PlaceInv
  OBVIOUS
<1>1. /\ windows = 1 /\ windowsQ = 1 /\ weff = 1 /\ now = 0 /\ st = "IDLE"
      /\ raw = <<>> /\ out = <<>> /\ first = 1
  BY DEF CaptureInit, Init
<1>2. Len(raw) = 0 /\ Len(out) = 0
  BY <1>1
<1> QED
  BY <1>1, <1>2, MaxSamplesAssumption DEF PlaceInv, Capturing

\* So does the count of samples.
LEMMA WholeInit == CaptureInit => WholeInv
<1> SUFFICES ASSUME CaptureInit PROVE WholeInv
  OBVIOUS
<1>1. out = <<>> /\ pend = <<>> /\ raw = <<>> /\ mark = 0 /\ acc = 0 /\ havePrev = FALSE
  BY DEF CaptureInit
<1>2. <<>> \in Seq(Words) /\ Len(<<>>) = 0
  OBVIOUS
<1>3. Emitted = <<>>
  BY <1>1, <1>2 DEF Emitted
<1>4. Decode(Emitted) = <<>>
  BY <1>2, <1>3, DecodeLaws
<1> QED
  BY <1>1, <1>2, <1>4 DEF WholeInv

----------------------------------------------------------------------------
(* What a finished run stores.                                             *)

\* The beginning of a part of the words is a part of them.
LEMMA PartOfPart ==
  ASSUME NEW w \in Seq(Words), NEW x \in 1 .. Len(w), NEW y \in x .. Len(w),
         NEW k \in 0 .. y - x + 1
  PROVE  SubSeq(SubSeq(w, x, y), 1, k) = SubSeq(w, x, x + k - 1)
<1>1. CASE k = 0
  <2>1. SubSeq(SubSeq(w, x, y), 1, k) = <<>>
    BY <1>1, SubSeqEmpty
  <2>2. x \in Int /\ x + k - 1 \in Int /\ x + k - 1 < x
    BY <1>1
  <2>3. SubSeq(w, x, x + k - 1) = <<>>
    BY <2>2, SubSeqEmpty
  <2> QED
    BY <2>1, <2>3
<1>2. CASE k # 0
  <2>1. y \in 1 .. Len(w) /\ 1 \in 1 .. y - x + 1 /\ k \in 1 .. y - x + 1
    BY <1>2
  <2>2. SubSeq(SubSeq(w, x, y), 1, k) = SubSeq(w, x + 1 - 1, x + k - 1)
    BY <2>1, SubSeqOfSubSeq
  <2>3. x + 1 - 1 = x
    OBVIOUS
  <2> QED
    BY <2>2, <2>3
<1> QED
  BY <1>1, <1>2

\* The core's buffer, in time order, has the numbers of consecutive words.
LEMMA StoredNumbers ==
  ASSUME IInv, PlaceInv, st = "DONE"
  PROVE  LET b == tsAtTrig - runPre
             o == Oldest(Depth, trigIndex, wrapped, runPre)
         IN  /\ wrapped /\ runPre \in 0 .. Depth - 1
             /\ b \in Nat /\ tsAtTrig \in Nat /\ b + Depth <= now
             /\ o \in 0 .. Depth - 1
             /\ \A i \in 0 .. Depth - 1 : buf[(o + i) % Depth] = b + i
<1> USE DepthAssumption, StampAssumption
<1> DEFINE b == tsAtTrig - runPre
           o == Oldest(Depth, trigIndex, wrapped, runPre)
<1>1. /\ weff = 1 /\ runPre <= tsAtTrig /\ tsAtTrig + (Depth - runPre) <= now
  BY DEF PlaceInv
<1>2. /\ wrapped /\ runPre \in 0 .. Depth - 1
      /\ \A i \in 0 .. Depth - 1 :
           Ordered(buf, Depth, trigIndex, wrapped, runPre)[i]
             = (tsAtTrig + StampLimit - runPre + i) % StampLimit
  BY <1>1, WindowOfOne
<1>3. tsAtTrig \in 0 .. StampLimit - 1 /\ now \in 0 .. StampLimit - 1 /\ trigIndex \in 0 .. Depth - 1
  BY DEF IInv, TypeOK, Stamps, Addresses
<1>4. b \in Nat /\ b + Depth <= now /\ tsAtTrig \in Nat
  BY <1>1, <1>2, <1>3
<1>5. o \in 0 .. Depth - 1
  <2>1. o = (trigIndex + (Depth - runPre)) % Depth
    BY <1>2 DEF Oldest
  <2>2. trigIndex + (Depth - runPre) \in Nat /\ Depth \in Nat /\ Depth > 0
    BY <1>2, <1>3
  <2> QED
    BY <2>1, <2>2
<1>6. ASSUME NEW i \in 0 .. Depth - 1 PROVE buf[(o + i) % Depth] = b + i
  <2>1. Ordered(buf, Depth, trigIndex, wrapped, runPre)[i] = buf[(o + i) % Depth]
    BY DEF Ordered
  <2>2. (tsAtTrig + StampLimit - runPre + i) % StampLimit = b + i
    <3> DEFINE x == tsAtTrig + StampLimit - runPre + i
    <3>1. /\ x = b + i + StampLimit /\ x \in Nat /\ b + i < StampLimit
          /\ StampLimit \in Nat /\ StampLimit > 0 /\ x < 3 * StampLimit /\ x >= StampLimit
          /\ x < 2 * StampLimit
      BY <1>2, <1>3, <1>4
    <3>2. x % StampLimit = x - StampLimit
      <4> HIDE DEF x
      <4> QED
        BY <3>1, ThreeLaps
    <3>3. x - StampLimit = b + i
      BY <1>2, <1>3, <3>1
    <3> QED
      BY <3>2, <3>3
  <2> QED
    BY <1>2, <2>1, <2>2
<1> QED
  BY <1>2, <1>4, <1>5, <1>6

\* So it holds consecutive words, the newest of which is the last.
LEMMA StoredWords ==
  ASSUME IInv, PlaceInv, out \in Seq(Words), st = "DONE"
  PROVE  LET b == tsAtTrig - runPre
         IN  /\ first + b \in 1 .. Len(out)
             /\ first + b + Depth - 1 \in first + b .. Len(out)
             /\ OrderedWords = SubSeq(out, first + b, first + b + Depth - 1)
             /\ (CHOOSE n \in {buf[a] : a \in Addresses} : \A a \in Addresses : buf[a] <= n)
                  = b + Depth - 1
<1> USE DepthAssumption
<1> DEFINE b == tsAtTrig - runPre
           o == Oldest(Depth, trigIndex, wrapped, runPre)
           x == first + b
           y == first + b + Depth - 1
<1>1. /\ b \in Nat /\ b + Depth <= now /\ o \in 0 .. Depth - 1
      /\ \A i \in 0 .. Depth - 1 : buf[(o + i) % Depth] = b + i
  BY StoredNumbers
<1>2. first \in Nat /\ first >= 1 /\ first + now <= Len(out) + 1 /\ Len(out) \in Nat
  BY DEF PlaceInv
<1>3. now \in Nat
  BY StampAssumption DEF IInv, TypeOK, Stamps
<1> HIDE DEF b, o
<1>4. /\ x \in 1 .. Len(out) /\ y \in x .. Len(out) /\ x \in Nat /\ y \in Nat
  BY <1>1, <1>2, <1>3
<1>5. \A i \in 0 .. Depth - 1 : (o + i) % Depth \in Addresses
  BY <1>1 DEF Addresses
<1>6. OrderedWords = SubSeq(out, x, y)
  <2> DEFINE stored == [c \in Addresses |-> Word(buf[c])]
             ordered == Ordered(stored, Depth, trigIndex, wrapped, runPre)
             l == [i \in 1 .. Depth |-> ordered[i - 1]]
             q == SubSeq(out, x, y)
  <2>1. OrderedWords = l
    BY DEF OrderedWords
  <2>2. \A i \in 0 .. Depth - 1 : ordered[i] = stored[(o + i) % Depth]
    BY DEF Ordered, o
  <2>3. \A i \in 0 .. Depth - 1 : stored[(o + i) % Depth] = out[first + (b + i)]
    BY <1>1, <1>5 DEF Word
  <2> HIDE DEF stored, ordered, x, y
  <2>4. ASSUME NEW i \in 1 .. Depth PROVE l[i] = out[x + i - 1] /\ out[x + i - 1] \in Words
    <3>1. i - 1 \in 0 .. Depth - 1 /\ first + (b + (i - 1)) = x + i - 1
      BY <1>1, <1>2 DEF x
    <3>2. x + i - 1 \in 1 .. Len(out)
      BY <1>4 DEF y, x
    <3>3. l[i] = ordered[i - 1]
      OBVIOUS
    <3>4. l[i] = out[x + i - 1]
      BY <2>2, <2>3, <3>1, <3>3
    <3>5. out[x + i - 1] \in Words
      BY <3>2
    <3> QED
      BY <3>4, <3>5
  <2>5. DOMAIN l = 1 .. Depth /\ l = [i \in 1 .. Depth |-> l[i]]
    OBVIOUS
  <2> HIDE DEF l
  <2>6. l \in Seq(Words) /\ Len(l) = Depth
    <3>1. \A i \in 1 .. Depth : l[i] \in Words
      BY <2>4
    <3>2. l \in [1 .. Depth -> Words]
      BY <2>5, <3>1
    <3> QED
      BY <3>2
  <2>7. \A k \in x .. y : out[k] \in Words
    BY <1>4
  <2>8. /\ q \in Seq(Words) /\ Len(q) = (IF x <= y THEN y - x + 1 ELSE 0)
        /\ \A i \in 1 .. y - x + 1 : q[i] = out[x + i - 1]
    <3>1. x \in Int /\ y \in Int
      BY <1>4
    <3> QED
      BY <2>7, <3>1, SubSeqProperties
  <2> HIDE DEF q
  <2>9. y - x + 1 = Depth /\ x <= y
    BY <1>1, <1>2 DEF x, y
  <2>10. Len(q) = Depth /\ \A i \in 1 .. Depth : q[i] = out[x + i - 1]
    BY <2>8, <2>9
  <2>11. l = q
    BY <2>4, <2>6, <2>8, <2>10, SeqEqual
  <2> QED
    BY <2>1, <2>11 DEF q
<1>7. (CHOOSE n \in {buf[c] : c \in Addresses} : \A c \in Addresses : buf[c] <= n) = b + Depth - 1
  <2> DEFINE e == b + Depth - 1
  <2>1. ASSUME NEW c \in Addresses PROVE buf[c] \in Int /\ buf[c] <= e
    <3>1. PICK i \in 0 .. Depth - 1 : Ahead(o, i, Depth) = c
      <4>1. CASE c >= o
        <5>1. c - o \in 0 .. Depth - 1 /\ Ahead(o, c - o, Depth) = c
          BY <1>1, <4>1 DEF Addresses, Ahead
        <5> QED
          BY <5>1
      <4>2. CASE c < o
        <5>1. c - o + Depth \in 0 .. Depth - 1 /\ Ahead(o, c - o + Depth, Depth) = c
          BY <1>1, <4>2 DEF Addresses, Ahead
        <5> QED
          BY <5>1
      <4> QED
        BY <1>1, <4>1, <4>2 DEF Addresses
    <3>2. (o + i) % Depth = c
      <4>1. Depth \in Nat /\ o \in 0 .. Depth - 1 /\ i \in 0 .. Depth
        BY <1>1
      <4> HIDE DEF e, x, y
      <4> QED
        BY <3>1, <4>1, AheadIsModulus
    <3>3. buf[c] = b + i
      BY <1>1, <3>2
    <3> QED
      BY <1>1, <3>3
  <2>2. PICK c \in Addresses : buf[c] = e
    <3>1. Depth - 1 \in 0 .. Depth - 1
      OBVIOUS
    <3>2. buf[(o + (Depth - 1)) % Depth] = b + (Depth - 1) /\ (o + (Depth - 1)) % Depth \in Addresses
      BY <1>1, <1>5, <3>1
    <3>3. b + (Depth - 1) = e
      BY <1>1
    <3> QED
      BY <3>2, <3>3
  <2>3. e \in Int
    BY <1>1
  <2> HIDE DEF e
  <2>4. ASSUME NEW n \in {buf[k] : k \in Addresses}, \A k \in Addresses : buf[k] <= n
        PROVE  n = e
    <3>1. e <= n /\ n <= e /\ n \in Int
      BY <2>1, <2>2, <2>4
    <3> QED
      BY <2>3, <3>1
  <2>5. e \in {buf[k] : k \in Addresses} /\ \A k \in Addresses : buf[k] <= e
    BY <2>1, <2>2
  <2>6. (CHOOSE n \in {buf[k] : k \in Addresses} : \A k \in Addresses : buf[k] <= n) = e
    BY <2>4, <2>5
  <2> QED
    BY <2>6 DEF e
<1> QED
  BY <1>4, <1>6, <1>7 DEF b

\* The words offered so far decode to the beginning of the samples.
LEMMA WordsDecodePrefix ==
  ASSUME RleIInv, LosslessInv, WholeInv, NEW k \in 0 .. Len(out)
  PROVE  /\ Stretch(out, 1, k) \in Seq(Samples)
         /\ Len(Stretch(out, 1, k)) <= Len(raw)
         /\ \A n \in 1 .. Len(Stretch(out, 1, k)) : raw[n] = Stretch(out, 1, k)[n]
<1>1. out \in Seq(Words) /\ pend \in Seq(Words) /\ Len(out) \in Nat
  BY DEF RleIInv, RleTypeOK
<1> DEFINE w == Emitted
<1>2. /\ w \in Seq(Words) /\ Decode(w) \in Seq(Samples) /\ raw \in Seq(Samples)
      /\ Len(Decode(w)) <= Len(raw)
      /\ \A n \in 1 .. Len(Decode(w)) : raw[n] = Decode(w)[n]
  BY WholeIsPrefix
<1>3. /\ Len(w) = Len(out) + Len(pend) /\ Len(pend) \in Nat
      /\ \A i \in 1 .. Len(out) : w[i] = out[i]
  <2>1. out \o pend \in Seq(Words) /\ Len(out \o pend) = Len(out) + Len(pend) /\ Len(pend) \in Nat
    BY <1>1, ConcatProperties
  <2>2. ASSUME NEW i \in 1 .. Len(out) PROVE (out \o pend)[i] = out[i]
    <3>1. i \in 1 .. Len(out) + Len(pend) /\ i <= Len(out)
      BY <1>1, <2>1
    <3> QED
      BY <1>1, <3>1, ConcatProperties
  <2> QED
    BY <2>1, <2>2 DEF Emitted
<1> HIDE DEF w
<1>4. k \in 0 .. Len(w) /\ Len(w) \in k .. Len(w) /\ k \in Int
  BY <1>1, <1>3
<1>5. Stretch(w, 1, k) = Stretch(out, 1, k)
  <2> DEFINE p == SubSeq(w, 1, k)
             q == SubSeq(out, 1, k)
  <2>1. \A i \in 1 .. k : w[i] = out[i] /\ out[i] \in Words /\ w[i] \in Words
    BY <1>1, <1>3
  <2>2. /\ p \in Seq(Words) /\ Len(p) = (IF 1 <= k THEN k - 1 + 1 ELSE 0)
        /\ \A i \in 1 .. k - 1 + 1 : p[i] = w[1 + i - 1]
    BY <1>4, <2>1, SubSeqProperties
  <2>3. /\ q \in Seq(Words) /\ Len(q) = (IF 1 <= k THEN k - 1 + 1 ELSE 0)
        /\ \A i \in 1 .. k - 1 + 1 : q[i] = out[1 + i - 1]
    BY <1>4, <2>1, SubSeqProperties
  <2> HIDE DEF p, q
  <2>4. ASSUME NEW i \in 1 .. k PROVE p[i] = q[i]
    <3>1. i \in 1 .. k - 1 + 1 /\ 1 + i - 1 = i
      BY <1>4
    <3> QED
      BY <2>1, <2>2, <2>3, <3>1
  <2>5. Len(p) = k /\ Len(q) = k
    BY <1>4, <2>2, <2>3
  <2>6. p = q
    BY <2>2, <2>3, <2>4, <2>5, SeqEqual
  <2> QED
    BY <2>6 DEF Stretch, p, q
<1>6. Stretch(w, 1, Len(w)) = Decode(w)
  BY <1>2, SubSeqFull DEF Stretch
<1> DEFINE s == Stretch(w, 1, k)
           d == Decode(w)
<1>7. /\ Len(s) <= Len(d) /\ \A n \in 1 .. Len(s) : d[n] = s[n]
  BY <1>2, <1>4, <1>6, StretchGrows
<1>8. s \in Seq(Samples)
  <2>1. 1 \in 1 .. Len(w) + 1 /\ k \in 1 - 1 .. Len(w)
    BY <1>4
  <2> QED
    BY <1>2, <2>1, StretchLaws
<1> HIDE DEF s, d
<1>9. Len(s) \in Nat /\ Len(d) \in Nat /\ Len(raw) \in Nat
  BY <1>2, <1>8 DEF d
<1>10. Len(s) <= Len(raw) /\ \A n \in 1 .. Len(s) : raw[n] = s[n]
  BY <1>2, <1>7, <1>9 DEF d
<1> QED
  BY <1>5, <1>8, <1>10 DEF s

\* Samples without their flags.
LEMMA PlainLaws ==
  ASSUME NEW d \in Seq(Samples)
  PROVE  /\ Plain(d) \in Seq(Values) /\ Len(Plain(d)) = Len(d)
         /\ \A k \in 1 .. Len(d) : Plain(d)[k] = d[k].value /\ d[k].value \in Values
<1>1. ASSUME NEW k \in 1 .. Len(d) PROVE d[k].value \in Values
  <2>1. d[k] \in Samples
    OBVIOUS
  <2> QED
    BY <2>1 DEF Samples
<1>2. Plain(d) \in [1 .. Len(d) -> Values] /\ Len(d) \in Nat
  BY <1>1 DEF Plain
<1> QED
  BY <1>1, <1>2 DEF Plain

\* In a finished run the words stored are as the host needs them.
LEMMA DecodesFollows ==
  ASSUME IInv, RleIInv, LosslessInv, WholeInv, PlaceInv
  PROVE  CaptureDecodes
<1> USE DepthAssumption
<1>0. SUFFICES ASSUME st = "DONE"
      PROVE  LET samples == Plain(Decode(OrderedWords))
                 newest  == RawIndex(CHOOSE n \in {buf[a] : a \in Addresses} :
                                       \A a \in Addresses : buf[a] <= n)
                 before  == newest - Len(samples)
             IN /\ samples = SubSeq(Plain(raw), before + 1, newest)
                /\ before + DecodedTrigPos + 1 = RawIndex(tsAtTrig)
                /\ raw[RawIndex(tsAtTrig)].trig
  BY DEF CaptureDecodes
<1>1. out \in Seq(Words) /\ raw \in Seq(Samples) /\ Len(out) \in Nat /\ Len(raw) \in Nat
  BY DEF RleIInv, RleTypeOK
<1> DEFINE b == tsAtTrig - runPre
           x == first + b
           y == first + b + Depth - 1
           j == first + tsAtTrig
           D == Stretch(out, x, y)
           T == Stretch(out, x, j)
           T0 == Stretch(out, x, j - 1)
           Y == Stretch(out, 1, y)
           J == Stretch(out, 1, j)
           J0 == Stretch(out, 1, j - 1)
           newest == RawIndex(CHOOSE n \in {buf[a] : a \in Addresses} :
                                \A a \in Addresses : buf[a] <= n)
<1>2. /\ x \in 1 .. Len(out) /\ y \in x .. Len(out)
      /\ OrderedWords = SubSeq(out, x, y)
      /\ (CHOOSE n \in {buf[a] : a \in Addresses} : \A a \in Addresses : buf[a] <= n)
           = b + Depth - 1
  BY <1>0, <1>1, StoredWords
<1>3. wrapped /\ runPre \in 0 .. Depth - 1 /\ b \in Nat /\ tsAtTrig \in Nat
  BY <1>0, StoredNumbers
<1>4. first \in Nat /\ out[j].trig
  BY <1>0 DEF PlaceInv
\* The decoded stretch, the samples up to its end and up to the trigger word.
<1>5. Decode(OrderedWords) = D
  BY <1>2 DEF Stretch
<1>6. newest = Len(Y)
  <2>1. first + (b + Depth - 1) = y
    BY <1>3, <1>4
  <2> QED
    BY <1>2, <2>1, Zenon DEF RawIndex, Stretch
<1>7. RawIndex(tsAtTrig) = Len(J)
  BY DEF RawIndex, Stretch
<1>8. DecodedTrigPos = Len(T0)
  <2>1. TrigPos(trigIndex, wrapped, runPre) = runPre
    BY <1>3 DEF TrigPos
  <2>2. runPre \in 0 .. y - x + 1 /\ x + runPre - 1 = j - 1
    BY <1>3, <1>4
  <2>3. SubSeq(OrderedWords, 1, runPre) = SubSeq(out, x, j - 1)
    <3> HIDE DEF x, y, j
    <3> QED
      BY <1>1, <1>2, <2>2, PartOfPart
  <2> QED
    BY <2>1, <2>3, Zenon DEF DecodedTrigPos, Stretch
<1>9. /\ x \in 1 .. Len(out) + 1 /\ j \in x .. y /\ j \in x .. Len(out) /\ y \in j .. Len(out)
      /\ j \in 1 .. Len(out) /\ y \in 0 .. Len(out) /\ j - 1 \in 0 .. Len(out)
      /\ j - 1 \in x - 1 .. Len(out) /\ j \in 0 .. Len(out) /\ y \in x - 1 .. Len(out)
      /\ j \in x - 1 .. Len(out)
  BY <1>1, <1>2, <1>3, <1>4
<1> HIDE DEF x, y, j, b, newest
\* The trigger word adds one sample, with the flag.
<1>10. /\ T0 \in Seq(Samples) /\ T \in Seq(Samples) /\ D \in Seq(Samples)
       /\ out[j] \in Words /\ T = Expand(T0, out[j])
  BY <1>1, <1>9, StretchLaws
<1>11. /\ J0 \in Seq(Samples) /\ J \in Seq(Samples) /\ Y \in Seq(Samples)
       /\ J = Expand(J0, out[j])
  <2>1. /\ 1 \in 1 .. Len(out) + 1 /\ j \in 1 - 1 .. Len(out) /\ y \in 1 - 1 .. Len(out)
        /\ j - 1 \in 1 - 1 .. Len(out)
    BY <1>1, <1>9
  <2> QED
    BY <1>1, <1>9, <2>1, StretchLaws
<1> HIDE DEF D, T, T0, Y, J, J0
<1>12. Len(T) = Len(T0) + 1 /\ Len(T0) \in Nat /\ T # <<>>
  <2>1. T = T0 \o Added(T0, out[j]) /\ Len(Added(T0, out[j])) = 1 /\ Added(T0, out[j]) \in Seq(Samples)
    BY <1>4, <1>10, AddedLaws
  <2>2. Len(T) = Len(T0) + 1
    <3> DEFINE a == Added(T0, out[j])
    <3>1. T = T0 \o a /\ Len(a) = 1 /\ a \in Seq(Samples)
      BY <2>1
    <3> HIDE DEF a
    <3>2. Len(T0 \o a) = Len(T0) + Len(a)
      BY <1>10, <3>1, ConcatBegins, Zenon
    <3> QED
      BY <3>1, <3>2
  <2>3. Len(T0) \in Nat
    BY <1>10
  <2>4. Len(T) # 0
    BY <2>2, <2>3
  <2> QED
    BY <1>10, <2>2, <2>3, <2>4
<1>13. Len(J) \in Nat /\ Len(J) >= 1 /\ J[Len(J)].trig
  <2>1. ~out[j].isCount
    BY <1>4, <1>10, AddedLaws
  <2> DEFINE s == [value |-> out[j].value, trig |-> out[j].trig]
  <2>2. J = Append(J0, s)
    BY <1>11, <2>1 DEF Expand
  <2>3. s.trig
    BY <1>4
  <2> HIDE DEF s
  <2>4. Len(J) = Len(J0) + 1 /\ J[Len(J0) + 1] = s /\ Len(J0) \in Nat
    BY <1>11, <2>2
  <2> QED
    BY <2>3, <2>4
\* From the trigger on both grow alike.
<1>14. Len(Y) - Len(J) = Len(D) - Len(T)
  BY <1>1, <1>9, <1>12, StretchInStep DEF D, T, Y, J
<1>15. Ends(D, Y)
  BY <1>1, <1>9, StretchEnds DEF D, Y
<1>16. /\ Len(Y) <= Len(raw) /\ \A n \in 1 .. Len(Y) : raw[n] = Y[n]
       /\ Len(J) <= Len(raw) /\ \A n \in 1 .. Len(J) : raw[n] = J[n]
  BY <1>9, WordsDecodePrefix DEF Y, J
<1>17. Len(Y) \in Nat /\ Len(D) \in Nat /\ Len(D) <= Len(Y) /\ Len(T) \in Nat
  BY <1>10, <1>11, <1>15 DEF Ends
<1>18. raw[Len(J)].trig
  BY <1>13, <1>16
<1>19. (Len(Y) - Len(D)) + Len(T0) + 1 = Len(J)
  <2> DEFINE ly == Len(Y)
             ld == Len(D)
             lt == Len(T)
             l0 == Len(T0)
             lj == Len(J)
  <2>1. /\ ly \in Nat /\ ld \in Nat /\ lt \in Nat /\ l0 \in Nat /\ lj \in Nat
        /\ lt = l0 + 1 /\ ly - lj = ld - lt
    BY <1>12, <1>13, <1>14, <1>17
  <2> HIDE DEF ly, ld, lt, l0, lj
  <2>2. (ly - ld) + l0 + 1 = lj
    BY <2>1
  <2> QED
    BY <2>2 DEF ly, ld, l0, lj
<1>20. Plain(D) = SubSeq(Plain(raw), (Len(Y) - Len(D)) + 1, Len(Y)) /\ Len(Plain(D)) = Len(D)
  <2> DEFINE ly == Len(Y)
             ld == Len(D)
             p == Plain(D)
             r == Plain(raw)
             q == SubSeq(r, (ly - ld) + 1, ly)
  <2>1. /\ p \in Seq(Values) /\ Len(p) = ld
        /\ \A k \in 1 .. ld : p[k] = D[k].value
    BY <1>10, PlainLaws
  <2>2. /\ r \in Seq(Values) /\ Len(r) = Len(raw)
        /\ \A k \in 1 .. Len(raw) : r[k] = raw[k].value
    BY <1>1, PlainLaws
  <2>3. /\ \A k \in 1 .. ld : D[k] = Y[ly - ld + k]
        /\ \A k \in 1 .. ly : Y[k] = raw[k]
        /\ ly \in Nat /\ ld \in Nat /\ ld <= ly /\ ly <= Len(raw)
    BY <1>15, <1>16, <1>17 DEF Ends
  <2> HIDE DEF ly, ld, p, r
  <2>4. \A k \in (ly - ld) + 1 .. ly : r[k] \in Values
    BY <1>1, <2>2, <2>3
  <2>5. /\ q \in Seq(Values)
        /\ Len(q) = (IF (ly - ld) + 1 <= ly THEN ly - ((ly - ld) + 1) + 1 ELSE 0)
        /\ \A k \in 1 .. ly - ((ly - ld) + 1) + 1 : q[k] = r[(ly - ld) + 1 + k - 1]
    BY <2>3, <2>4, SubSeqProperties
  <2> HIDE DEF q
  <2>6. Len(q) = ld
    BY <2>3, <2>5
  <2>7. ASSUME NEW k \in 1 .. ld PROVE p[k] = q[k]
    <3>1. /\ k \in 1 .. ly - ((ly - ld) + 1) + 1 /\ (ly - ld) + 1 + k - 1 = ly - ld + k
          /\ ly - ld + k \in 1 .. ly /\ ly - ld + k \in 1 .. Len(raw)
      BY <1>1, <2>3
    <3>2. q[k] = r[ly - ld + k]
      BY <2>5, <3>1
    <3>3. r[ly - ld + k] = raw[ly - ld + k].value
      BY <2>2, <3>1
    <3>4. raw[ly - ld + k] = D[k]
      BY <2>3, <3>1
    <3> QED
      BY <2>1, <3>2, <3>3, <3>4
  <2>8. p = q
    BY <2>1, <2>5, <2>6, <2>7, SeqEqual
  <2> QED
    BY <2>1, <2>8 DEF p, q, r, ly, ld
<1> QED
  BY <1>5, <1>6, <1>7, <1>8, <1>18, <1>19, <1>20, Zenon DEF newest

\* Whatever word the core begins its buffer with, whatever word it stops
\* after and whether or not the trigger word waited in the skid, what the
\* host decodes of a finished run is a stretch of consecutive samples with
\* the trigger sample at the decoded trigger position (DESIGN.md 211-240,
\* scope.py 56-65, scope_top.sv 179-233).
THEOREM CapturesDecode ==
  ASSUME NumbersSuffice
  PROVE  CaptureSpec => []CaptureDecodes
<1>1. CaptureInit => LosslessInv /\ WholeInv /\ PlaceInv
  BY LosslessInit, WholeInit, PlaceInit DEF CaptureInit
<1>2. LosslessInv /\ RleIInv /\ [CaptureNext]_captureVars => LosslessInv'
  BY StepsOfEncoder, LosslessStep
<1>3. IInv /\ RleIInv /\ RleIInv' /\ PlaceInv /\ [CaptureNext]_captureVars => PlaceInv'
  BY PlaceStep
<1>4. IInv /\ RleIInv /\ LosslessInv /\ WholeInv /\ PlaceInv => CaptureDecodes
  BY DecodesFollows
<1>5. CaptureSpec => []IInv
  BY CaptureImplementsCore, Invariant, PTL
<1> QED
  BY <1>1, <1>2, <1>3, <1>4, <1>5, EncoderInvariant, WholeStep, PTL DEF CaptureSpec

----------------------------------------------------------------------------
(* The count words of a run. *)

FullCounts(q) == [j \in 1 .. q |-> CountWord(MaxRun)]

\* A number of repeats is some full count words and a rest of at least one.
LEMMA CountPlaces ==
  ASSUME NEW q \in Nat, NEW b \in 1 .. MaxRun
  PROVE  LET r == q * MaxRun + b
         IN /\ r \in Nat /\ (r + MaxRun - 1) \div MaxRun = q + 1
            /\ \A j \in 1 .. q : j * MaxRun <= r
            /\ ((q + 1) * MaxRun <= r) <=> b = MaxRun
            /\ b # MaxRun => r % MaxRun = b
<1> DEFINE M == MaxRun
<1>1. M \in Nat \ {0} /\ b \in Nat /\ b >= 1 /\ b <= M
  BY MaxRunAssumption
<1> DEFINE p == q * M
<1>2. /\ p \in Nat /\ (q + 1) * M = p + M
      /\ \A j \in 1 .. q : j * M <= p /\ j * M \in Nat
  BY <1>1, Products
<1>3. \A x, y, z \in Nat : z < y => (x * y + z) \div y = x /\ (x * y + z) % y = z
  BY Z3
<1>4. (p + M + (b - 1)) \div M = q + 1
  <2>1. q + 1 \in Nat /\ b - 1 \in Nat /\ b - 1 < M
    BY <1>1
  <2>2. ((q + 1) * M + (b - 1)) \div M = q + 1
    BY <1>1, <1>3, <2>1, Zenon
  <2> QED
    BY <1>2, <2>2, Zenon
<1>5. b # M => (p + b) % M = b
  <2>1. b # M => b < M
    BY <1>1
  <2> QED
    BY <1>1, <1>3, <2>1
<1> HIDE DEF p
<1>6. p + b + M - 1 = p + M + (b - 1)
  BY <1>1, <1>2
<1>7. ((q + 1) * M <= p + b) <=> b = M
  BY <1>1, <1>2
<1>8. \A j \in 1 .. q : j * M <= p + b
  BY <1>1, <1>2
<1>9. p + b \in Nat
  BY <1>1, <1>2
<1> QED
  BY <1>4, <1>5, <1>6, <1>7, <1>8, <1>9 DEF p

\* The count words, one by one.
LEMMA CountsShape ==
  /\ Counts(0) = <<>>
  /\ \A q \in Nat : FullCounts(q) \in Seq(Words)
  /\ \A q \in Nat, b \in 1 .. MaxRun :
       Counts(q * MaxRun + b) = FullCounts(q) \o <<CountWord(b)>>
<1> DEFINE M == MaxRun
<1>1. M \in Nat \ {0}
  BY MaxRunAssumption
<1>2. Counts(0) = <<>>
  <2>1. (0 + M - 1) \div M = 0
    BY <1>1
  <2> QED
    BY <2>1 DEF Counts
<1>3. ASSUME NEW q \in Nat PROVE FullCounts(q) \in Seq(Words) /\ Len(FullCounts(q)) = q
  <2>1. CountWord(M) \in Words
    BY <1>1, WordTypes
  <2> QED
    BY <2>1 DEF FullCounts
<1>4. ASSUME NEW q \in Nat, NEW b \in 1 .. M
      PROVE  Counts(q * M + b) = FullCounts(q) \o <<CountWord(b)>>
  <2> DEFINE r == q * M + b
             c == [j \in 1 .. q + 1 |-> IF j <= q THEN CountWord(M) ELSE CountWord(b)]
             d == FullCounts(q) \o <<CountWord(b)>>
  <2>1. /\ r \in Nat /\ (r + M - 1) \div M = q + 1
        /\ \A j \in 1 .. q : j * M <= r
        /\ ((q + 1) * M <= r) <=> b = M
        /\ b # M => r % M = b
    BY CountPlaces
  <2> HIDE DEF r
  <2>2. ASSUME NEW j \in 1 .. q + 1
        PROVE  CountWord(IF j * M <= r THEN M ELSE r % M) =
                 IF j <= q THEN CountWord(M) ELSE CountWord(b)
    <3>1. CASE j <= q
      <4>1. j \in 1 .. q
        BY <3>1
      <4> QED
        BY <2>1, <3>1, <4>1
    <3>2. CASE ~(j <= q)
      <4>1. j = q + 1
        BY <3>2
      <4> QED
        BY <2>1, <3>2, <4>1
    <3> QED
      BY <3>1, <3>2
  <2>3. Counts(r) = c
    BY <2>1, <2>2 DEF Counts
  <2>4. CountWord(b) \in Words /\ CountWord(M) \in Words
    BY <1>1, WordTypes
  <2>5. c \in Seq(Words) /\ Len(c) = q + 1
    BY <2>4
  <2>6. d \in Seq(Words) /\ Len(d) = q + 1
    BY <1>3, <2>4
  <2>7. \A j \in 1 .. Len(c) : c[j] = d[j]
    BY <1>3, <2>4, <2>5, <2>6 DEF FullCounts
  <2> HIDE DEF c, d
  <2>8. c = d
    BY <2>5, <2>6, <2>7, SeqEqual
  <2> QED
    BY <2>3, <2>8 DEF r, d
<1> QED
  BY <1>2, <1>3, <1>4

\* From u to w, one more repeat: a new count word or a greater one.
Recounts(u, w, a) ==
  IF a = 0 THEN w = u \o <<CountWord(1)>>
  ELSE \E e \in Seq(Words) : u = e \o <<CountWord(a)>> /\ w = e \o <<CountWord(a + 1)>>

\* One more repeat changes the last count word or adds one.
LEMMA CountsGrow ==
  ASSUME NEW t \in Nat
  PROVE  /\ Counts(t) \in Seq(Words) /\ t % MaxRun \in 0 .. MaxRun - 1
         /\ Recounts(Counts(t), Counts(t + 1), t % MaxRun)
<1> DEFINE M == MaxRun
<1>1. M \in Nat \ {0}
  BY MaxRunAssumption
<1>2. PICK q \in Nat, a \in 0 .. M - 1 : t = q * M + a
  BY <1>1, HasPlace
<1>3. t % M = a
  <2>1. \A x, y, z \in Nat : z < y => (x * y + z) % y = z
    BY Z3
  <2>2. a \in Nat /\ M \in Nat /\ a < M
    BY <1>1
  <2> QED
    BY <1>2, <2>1, <2>2, Zenon
<1>4. t + 1 = q * M + (a + 1) /\ a + 1 \in 1 .. M
  BY <1>1, <1>2, Products
<1>5. Counts(t + 1) = FullCounts(q) \o <<CountWord(a + 1)>>
  BY <1>4, CountsShape
<1>6. CASE a # 0
  <2>1. a \in 1 .. M
    BY <1>1, <1>6
  <2>2. Counts(t) = FullCounts(q) \o <<CountWord(a)>> /\ FullCounts(q) \in Seq(Words)
    BY <1>2, <2>1, CountsShape
  <2>3. CountWord(a) \in Words
    BY <2>1, WordTypes
  <2>4. Counts(t) \in Seq(Words)
    BY <2>2, <2>3
  <2> QED
    BY <1>3, <1>5, <1>6, <2>2, <2>4 DEF Recounts
<1>7. CASE a = 0
  <2>1. Counts(t) = FullCounts(q)
    <3>1. CASE q = 0
      <4>1. t = 0
        <5>1. q * M = 0
          BY <1>1, <3>1, Products
        <5> QED
          BY <1>2, <1>7, <5>1
      <4>2. FullCounts(q) = <<>>
        BY <3>1 DEF FullCounts
      <4> QED
        BY <4>1, <4>2, CountsShape
    <3>2. CASE q # 0
      <4> DEFINE p == q - 1
      <4>1. p \in Nat /\ q = p + 1
        BY <3>2
      <4> HIDE DEF p
      <4>2. t = p * M + M /\ M \in 1 .. M
        BY <1>1, <1>2, <1>7, <4>1, Products
      <4>3. Counts(t) = FullCounts(p) \o <<CountWord(M)>>
        BY <4>2, <4>1, CountsShape
      <4> DEFINE c == FullCounts(p) \o <<CountWord(M)>>
                 d == FullCounts(q)
      <4>4. CountWord(M) \in Words
        BY <1>1, WordTypes
      <4>5. /\ d \in Seq(Words) /\ Len(d) = p + 1 /\ FullCounts(p) \in Seq(Words)
            /\ Len(FullCounts(p)) = p
        BY <4>1, <4>4 DEF FullCounts
      <4>6. c \in Seq(Words) /\ Len(c) = p + 1
        BY <4>4, <4>5
      <4>7. \A j \in 1 .. Len(c) : c[j] = d[j]
        BY <4>1, <4>4, <4>5, <4>6 DEF FullCounts
      <4> HIDE DEF c, d
      <4>8. c = d
        BY <4>5, <4>6, <4>7, SeqEqual
      <4> QED
        BY <4>3, <4>8 DEF c, d
    <3> QED
      BY <3>1, <3>2
  <2>2. Counts(t) \in Seq(Words)
    BY <2>1, CountsShape
  <2>3. Counts(t + 1) = Counts(t) \o <<CountWord(1)>>
    BY <1>5, <1>7, <2>1
  <2> QED
    BY <1>1, <1>3, <1>7, <2>2, <2>3 DEF Recounts
<1> QED
  BY <1>6, <1>7

----------------------------------------------------------------------------
(* The runs of a stream of values. *)

Stream == Seq(Values)

\* The r values behind the i-th repeat it, and no more do.
RunOf(x, i, r) ==
  /\ \A j \in i + 1 .. i + r : x[j] = x[i]
  /\ i + r < Len(x) => x[i + r + 1] # x[i]

\* RepeatsAfter is the one number of that kind.
LEMMA RepeatsLaw ==
  ASSUME NEW x \in Stream, NEW i \in 1 .. Len(x)
  PROVE  /\ RepeatsAfter(x, i) \in 0 .. Len(x) - i /\ RunOf(x, i, RepeatsAfter(x, i))
         /\ \A r \in 0 .. Len(x) - i : RunOf(x, i, r) => RepeatsAfter(x, i) = r
<1> DEFINE n == Len(x)
           c == RepeatsAfter(x, i)
<1>1. n \in Nat /\ i \in Nat /\ i >= 1 /\ i <= n
  BY DEF Stream
<1>2. c = CHOOSE r \in 0 .. n - i : RunOf(x, i, r)
  BY Zenon DEF RepeatsAfter, RunOf
<1> HIDE DEF n, c
<1>3. \E r \in 0 .. n - i : RunOf(x, i, r)
  <2> DEFINE S == {k \in Nat : i + k < n /\ x[i + k + 1] # x[i]}
  <2>1. CASE S = {}
    <3> DEFINE r == n - i
    <3>1. r \in 0 .. n - i /\ i + r = n
      BY <1>1
    <3>2. ASSUME NEW j \in i + 1 .. n PROVE x[j] = x[i]
      <4>1. j - i - 1 \in Nat /\ i + (j - i - 1) < n /\ i + (j - i - 1) + 1 = j
        BY <1>1
      <4>2. j - i - 1 \notin S
        BY <2>1
      <4> QED
        BY <4>1, <4>2
    <3> HIDE DEF r
    <3>3. RunOf(x, i, r)
      BY <1>1, <3>1, <3>2 DEF RunOf, n
    <3> QED
      BY <3>1, <3>3
  <2>2. CASE S # {}
    <3>1. PICK r \in S : \A k \in S : r <= k
      BY <2>2, LeastNatural, S \in SUBSET Nat
    <3>2. r \in Nat /\ i + r < n /\ x[i + r + 1] # x[i]
      BY <3>1
    <3>3. ASSUME NEW j \in i + 1 .. i + r PROVE x[j] = x[i]
      <4>1. j - i - 1 \in Nat /\ i + (j - i - 1) < n /\ i + (j - i - 1) + 1 = j /\ j - i - 1 < r
        BY <1>1, <3>2
      <4>2. j - i - 1 \notin S
        BY <3>1, <3>2, <4>1
      <4> QED
        BY <4>1, <4>2
    <3>4. r \in 0 .. n - i
      BY <1>1, <3>2
    <3>5. RunOf(x, i, r)
      BY <3>2, <3>3 DEF RunOf
    <3> QED
      BY <3>4, <3>5
  <2> QED
    BY <2>1, <2>2
<1>4. c \in 0 .. n - i /\ RunOf(x, i, c)
  BY <1>2, <1>3, Zenon
<1>5. ASSUME NEW r \in 0 .. n - i, RunOf(x, i, r) PROVE c = r
  <2>1. c \in Nat /\ r \in Nat /\ i + c <= n /\ i + r <= n
    BY <1>1, <1>4
  <2>2. ASSUME NEW p \in Nat, NEW q \in Nat, i + q <= n, RunOf(x, i, p), RunOf(x, i, q), p < q
        PROVE  FALSE
    <3>1. i + p < Len(x) /\ i + p + 1 \in i + 1 .. i + q
      BY <1>1, <2>2 DEF n
    <3> QED
      BY <2>2, <3>1 DEF RunOf
  <2>3. ~(c < r) /\ ~(r < c)
    BY <1>4, <1>5, <2>1, <2>2
  <2> QED
    BY <2>1, <2>3
<1> QED
  BY <1>4, <1>5 DEF c, n

----------------------------------------------------------------------------
(* The golden encoder. *)

\* The words of the stream from every place on.
Encoding(x) ==
  CHOOSE f : f = [i \in 1 .. Len(x) + 1 |->
                    IF i > Len(x) THEN <<>>
                    ELSE LET r == RepeatsAfter(x, i)
                         IN <<GoldenData(x[i])>> \o Counts(r) \o f[i + r + 1]]

\* A run and the words behind it.
RunWords(v, r) == <<GoldenData(v)>> \o Counts(r)

Encodes(f, x) ==
  /\ f[Len(x) + 1] = <<>>
  /\ \A i \in 1 .. Len(x) + 1 : f[i] \in Seq(Words)
  /\ \A i \in 1 .. Len(x) :
       f[i] = RunWords(x[i], RepeatsAfter(x, i)) \o f[i + RepeatsAfter(x, i) + 1]

\* They are words of the format.
LEMMA RunWordsTypes ==
  ASSUME NEW v \in Values, NEW r \in Nat
  PROVE  GoldenData(v) \in Words /\ RunWords(v, r) \in Seq(Words)
<1>1. [value |-> v, trig |-> FALSE] \in Samples
  BY DEF Samples
<1>2. GoldenData(v) \in Words
  BY <1>1, WordTypes, Zenon DEF GoldenData
<1>3. Counts(r) \in Seq(Words)
  BY CountsGrow
<1> DEFINE g == GoldenData(v)
           c == Counts(r)
<1> HIDE DEF g, c
<1>4. g \in Words /\ c \in Seq(Words)
  BY <1>2, <1>3 DEF g, c
<1>5. <<g>> \o c \in Seq(Words)
  BY <1>4
<1> QED
  BY <1>2, <1>5 DEF RunWords, g, c

\* The recursive definition defines what it says.
LEMMA EncodingExists ==
  ASSUME NEW x \in Stream
  PROVE  Encodes(Encoding(x), x) /\ RleEncode(x) = Encoding(x)[1]
<1> DEFINE n == Len(x)
           W == Seq(Words)
           S == [1 .. n + 1 -> W]
           rep == [i \in 1 .. n |-> RepeatsAfter(x, i)]
           part == [i \in 1 .. n |-> RunWords(x[i], rep[i])]
           step == [p \in Nat \X S |-> IF p[1] \in 1 .. n
                      THEN [p[2] EXCEPT ![n + 1 - p[1]] =
                              part[n + 1 - p[1]] \o p[2][n + 1 - p[1] + rep[n + 1 - p[1]] + 1]]
                      ELSE p[2]]
           start == [i \in 1 .. n + 1 |-> <<>>]
<1>1. n \in Nat
  BY DEF Stream
<1>2. /\ \A i \in 1 .. n : rep[i] = RepeatsAfter(x, i) /\ rep[i] \in 0 .. n - i
      /\ \A i \in 1 .. n : part[i] = RunWords(x[i], RepeatsAfter(x, i)) /\ part[i] \in W
  <2> SUFFICES ASSUME NEW i \in 1 .. n
               PROVE  RepeatsAfter(x, i) \in 0 .. n - i /\ RunWords(x[i], RepeatsAfter(x, i)) \in W
    OBVIOUS
  <2>1. RepeatsAfter(x, i) \in 0 .. n - i
    BY RepeatsLaw
  <2>2. x[i] \in Values /\ RepeatsAfter(x, i) \in Nat
    BY <2>1 DEF Stream
  <2> QED
    BY <2>1, <2>2, RunWordsTypes
<1>3. start \in S
  OBVIOUS
<1>4. \A u, v \in W : u \o v \in W
  OBVIOUS
<1> HIDE DEF W, rep, part
<1>5. ASSUME NEW k \in 1 .. n, NEW g \in S
      PROVE  LET i == n + 1 - k
             IN [g EXCEPT ![i] = part[i] \o g[i + rep[i] + 1]] \in S
  <2> DEFINE i == n + 1 - k
  <2>1. i \in 1 .. n
    BY <1>1
  <2> HIDE DEF i
  <2>2. i + rep[i] + 1 \in 1 .. n + 1
    BY <1>1, <1>2, <2>1
  <2>3. part[i] \o g[i + rep[i] + 1] \in W
    BY <1>2, <1>4, <2>1, <2>2
  <2>4. i \in 1 .. n + 1
    BY <1>1, <2>1
  <2> QED
    BY <2>3, <2>4 DEF i
<1>6. step \in [Nat \X S -> S]
  <2>1. ASSUME NEW p \in Nat \X S
        PROVE  (IF p[1] \in 1 .. n
                THEN [p[2] EXCEPT ![n + 1 - p[1]] =
                        part[n + 1 - p[1]] \o p[2][n + 1 - p[1] + rep[n + 1 - p[1]] + 1]]
                ELSE p[2]) \in S
    <3>1. p[2] \in S
      OBVIOUS
    <3> QED
      BY <1>5, <3>1, Zenon
  <2> QED
    BY <2>1, Zenon
<1>7. \A k \in 1 .. n, g \in S :
        step[<<k, g>>] = [g EXCEPT ![n + 1 - k] = part[n + 1 - k] \o g[n + 1 - k + rep[n + 1 - k] + 1]]
  <2> SUFFICES ASSUME NEW k \in 1 .. n, NEW g \in S
               PROVE step[<<k, g>>] = [g EXCEPT ![n + 1 - k] = part[n + 1 - k] \o g[n + 1 - k + rep[n + 1 - k] + 1]]
    OBVIOUS
  <2>1. <<k, g>> \in Nat \X S /\ <<k, g>>[1] = k /\ <<k, g>>[2] = g
    OBVIOUS
  <2> QED
    BY <2>1, Zenon
<1> HIDE DEF step, S
<1>8. PICK h : Solution(h, S, start, step)
  BY <1>3, <1>6, Recursion
<1>9. /\ h \in [Nat -> S] /\ h[0] = start
      /\ \A k \in Nat : h[k + 1] = step[<<k + 1, h[k]>>]
  BY <1>8 DEF Solution
<1>10. \A k \in Nat : h[k] \in [1 .. n + 1 -> W]
  BY <1>9 DEF S
<1>11. ASSUME NEW k \in 1 .. n
       PROVE  LET i == n + 1 - k
              IN /\ h[k][i] = part[i] \o h[k - 1][i + rep[i] + 1]
                 /\ \A j \in 1 .. n + 1 : j # i => h[k][j] = h[k - 1][j]
  <2> DEFINE i == n + 1 - k
             e == part[i] \o h[k - 1][i + rep[i] + 1]
  <2>1. k - 1 \in Nat /\ k - 1 + 1 = k /\ i \in 1 .. n + 1
    BY <1>1
  <2>2. h[k] = step[<<k, h[k - 1]>>] /\ h[k - 1] \in S
    BY <1>9, <2>1
  <2>3. h[k] = [h[k - 1] EXCEPT ![i] = e]
    BY <1>7, <2>2, Zenon
  <2>4. h[k - 1] \in [1 .. n + 1 -> W]
    BY <1>10, <2>1
  <2> HIDE DEF i, e
  <2>5. h[k][i] = e /\ \A j \in 1 .. n + 1 : j # i => h[k][j] = h[k - 1][j]
    BY <2>1, <2>3, <2>4
  <2> QED
    BY <2>5 DEF i, e
\* What is done stays as it is.
<1> DEFINE Kept == {k \in Nat : k <= n => \A j \in n + 1 - k .. n + 1 : h[k][j] = h[n][j]}
           f == h[n]
<1>12. ASSUME NEW k \in 0 .. n, NEW j \in n + 1 - k .. n + 1 PROVE h[k][j] = f[j]
  <2> DEFINE Same == {d \in Nat : k + d <= n => h[k][j] = h[k + d][j]}
  <2>1. 0 \in Same
    OBVIOUS
  <2>2. ASSUME NEW d \in Nat, d \in Same PROVE d + 1 \in Same
    <3> SUFFICES ASSUME k + (d + 1) <= n PROVE h[k][j] = h[k + (d + 1)][j]
      OBVIOUS
    <3> DEFINE m == k + (d + 1)
    <3>1. m \in 1 .. n /\ m - 1 = k + d /\ k + d <= n /\ j \in 1 .. n + 1 /\ j # n + 1 - m
      BY <1>1
    <3> HIDE DEF m
    <3>2. h[m][j] = h[m - 1][j]
      BY <1>11, <3>1
    <3> QED
      BY <2>2, <3>1, <3>2 DEF m
  <2>3. n - k \in Nat /\ k + (n - k) = n
    BY <1>1
  <2>4. Nat \subseteq Same
    BY <2>1, <2>2, SetInduction
  <2> QED
    BY <2>3, <2>4
<1>13. f[n + 1] = <<>>
  <2>1. h[0][n + 1] = f[n + 1]
    BY <1>1, <1>12
  <2> QED
    BY <1>1, <1>9, <2>1
<1>14. ASSUME NEW i \in 1 .. n PROVE f[i] = part[i] \o f[i + rep[i] + 1]
  <2> DEFINE k == n + 1 - i
             j == i + rep[i] + 1
  <2>1. k \in 1 .. n /\ n + 1 - k = i /\ k - 1 \in 0 .. n /\ k \in 0 .. n
    BY <1>1
  <2>2. rep[i] \in 0 .. n - i
    BY <1>2
  <2>3. j \in n + 1 - (k - 1) .. n + 1
    BY <1>1, <2>2
  <2>4. i \in n + 1 - k .. n + 1
    BY <1>1
  <2> HIDE DEF k
  <2>5. h[k][i] = part[i] \o h[k - 1][j]
    BY <1>11, <2>1
  <2> HIDE DEF j, f
  <2>6. h[k - 1][j] = f[j] /\ h[k][i] = f[i]
    BY <1>12, <2>1, <2>3, <2>4
  <2> QED
    BY <2>5, <2>6 DEF j
<1>15. f \in [1 .. n + 1 -> W]
  BY <1>1, <1>10
<1> HIDE DEF f
<1> DEFINE IsEncoding(g) ==
             g = [i \in 1 .. Len(x) + 1 |->
                    IF i > Len(x) THEN <<>>
                    ELSE LET r == RepeatsAfter(x, i)
                         IN <<GoldenData(x[i])>> \o Counts(r) \o g[i + r + 1]]
<1>16. IsEncoding(f)
  <2>1. ASSUME NEW i \in 1 .. n + 1
        PROVE  f[i] = IF i > n THEN <<>>
                      ELSE LET r == RepeatsAfter(x, i)
                           IN <<GoldenData(x[i])>> \o Counts(r) \o f[i + r + 1]
    <3>1. CASE i > n
      <4>1. i = n + 1
        BY <1>1, <3>1
      <4> QED
        BY <1>13, <3>1, <4>1
    <3>2. CASE ~(i > n)
      <4>1. i \in 1 .. n
        BY <1>1, <3>2
      <4>2. f[i] = RunWords(x[i], RepeatsAfter(x, i)) \o f[i + RepeatsAfter(x, i) + 1]
        BY <1>2, <1>14, <4>1
      <4> QED
        BY <3>2, <4>2, Zenon DEF RunWords
    <3> QED
      BY <3>1, <3>2
  <2> QED
    BY <1>15, <2>1, Zenon
<1> DEFINE g == Encoding(x)
<1>17. IsEncoding(g)
  BY <1>16, Zenon DEF Encoding
<1>18. RleEncode(x) = g[1]
  BY Zenon DEF RleEncode, Encoding
<1> HIDE DEF g
<1>19. /\ g[n + 1] = <<>>
       /\ \A i \in 1 .. n : g[i] = part[i] \o g[i + rep[i] + 1]
  <2>1. n + 1 \in 1 .. Len(x) + 1 /\ n + 1 > Len(x)
    BY <1>1
  <2>2. g[n + 1] = <<>>
    BY <1>17, <2>1
  <2>3. ASSUME NEW i \in 1 .. n PROVE g[i] = part[i] \o g[i + rep[i] + 1]
    <3>1. i \in 1 .. Len(x) + 1 /\ ~(i > Len(x))
      BY <1>1
    <3>2. g[i] = <<GoldenData(x[i])>> \o Counts(RepeatsAfter(x, i)) \o g[i + RepeatsAfter(x, i) + 1]
      BY <1>17, <3>1, Zenon
    <3>3. g[i] = RunWords(x[i], RepeatsAfter(x, i)) \o g[i + RepeatsAfter(x, i) + 1]
      BY <3>2, Zenon DEF RunWords
    <3> QED
      BY <1>2, <3>3
  <2> QED
    BY <2>2, <2>3
<1>20. \A i \in 1 .. n + 1 : g[i] \in W
  <2> DEFINE Good == {d \in Nat : \A i \in 1 .. n + 1 : i >= n + 1 - d => g[i] \in W}
  <2>1. 0 \in Good
    <3>1. <<>> \in W
      BY DEF W
    <3>2. \A i \in 1 .. n + 1 : i >= n + 1 - 0 => i = n + 1
      BY <1>1
    <3> QED
      BY <1>19, <3>1, <3>2
  <2>2. ASSUME NEW d \in Nat, d \in Good PROVE d + 1 \in Good
    <3> SUFFICES ASSUME NEW i \in 1 .. n + 1, i >= n + 1 - (d + 1) PROVE g[i] \in W
      OBVIOUS
    <3>1. CASE i = n + 1
      <4>1. <<>> \in W
        BY DEF W
      <4> QED
        BY <1>19, <3>1, <4>1
    <3>2. CASE i # n + 1
      <4> DEFINE j == i + rep[i] + 1
      <4>1. i \in 1 .. n
        BY <1>1, <3>2
      <4>2. rep[i] \in 0 .. n - i
        BY <1>2, <4>1
      <4>3. j \in 1 .. n + 1 /\ j >= n + 1 - d
        BY <1>1, <4>1, <4>2
      <4> HIDE DEF j
      <4>4. g[j] \in W /\ part[i] \in W
        BY <1>2, <2>2, <4>1, <4>3
      <4>5. g[i] = part[i] \o g[j]
        BY <1>19, <4>1 DEF j
      <4> QED
        BY <1>4, <4>4, <4>5
    <3> QED
      BY <3>1, <3>2
  <2>3. Nat \subseteq Good
    BY <2>1, <2>2, SetInduction
  <2>4. ASSUME NEW i \in 1 .. n + 1 PROVE g[i] \in W
    <3>1. n \in Good /\ i >= n + 1 - n
      BY <1>1, <2>3
    <3> QED
      BY <3>1
  <2> QED
    BY <2>4
<1>21. Encodes(g, x)
  <2>1. ASSUME NEW i \in 1 .. n
        PROVE  g[i] = RunWords(x[i], RepeatsAfter(x, i)) \o g[i + RepeatsAfter(x, i) + 1]
    <3>1. part[i] = RunWords(x[i], RepeatsAfter(x, i)) /\ rep[i] = RepeatsAfter(x, i)
      BY <1>2
    <3>2. g[i] = part[i] \o g[i + rep[i] + 1]
      BY <1>19
    <3> QED
      BY <3>1, <3>2
  <2> QED
    BY <1>19, <1>20, <2>1 DEF Encodes, W
<1> QED
  BY <1>18, <1>21 DEF g

\* A stream is coded run by run: up to the beginning s of a run, of which p is
\* the part before, and from there on.
LEMMA EncodeSplits ==
  ASSUME NEW x \in Stream, NEW s \in 1 .. Len(x), s > 1 => x[s - 1] # x[s],
         NEW p \in Stream, Len(p) = s - 1, \A j \in 1 .. Len(p) : p[j] = x[j]
  PROVE  RleEncode(x) = RleEncode(p) \o Encoding(x)[s]
<1> DEFINE n == Len(x)
           f == Encoding(x)
           g == Encoding(p)
           F(i) == RepeatsAfter(x, i)
<1>1. n \in Nat /\ s \in Nat /\ s >= 1 /\ s <= n
  BY DEF Stream
<1>2. /\ \A i \in 1 .. n + 1 : f[i] \in Seq(Words)
      /\ \A i \in 1 .. n : f[i] = RunWords(x[i], F(i)) \o f[i + F(i) + 1]
      /\ RleEncode(x) = f[1]
  BY EncodingExists DEF Encodes
<1>3. /\ g[s] = <<>>
      /\ \A i \in 1 .. s : g[i] \in Seq(Words)
      /\ \A i \in 1 .. s - 1 : g[i] = RunWords(p[i], RepeatsAfter(p, i)) \o g[i + RepeatsAfter(p, i) + 1]
      /\ RleEncode(p) = g[1]
  <2>1. Len(p) + 1 = s
    BY <1>1
  <2> QED
    BY <2>1, EncodingExists DEF Encodes
<1>4. ASSUME NEW i \in 1 .. s - 1
      PROVE  F(i) \in Nat /\ i + F(i) < s /\ RepeatsAfter(p, i) = F(i) /\ p[i] = x[i]
  <2> DEFINE r == F(i)
  <2>1. i \in 1 .. n /\ i \in 1 .. Len(p) /\ p[i] = x[i]
    BY <1>1
  <2>2. r \in 0 .. n - i /\ RunOf(x, i, r)
    BY <2>1, RepeatsLaw
  <2> HIDE DEF r
  <2>3. i + r < s
    <3> SUFFICES ASSUME ~(i + r < s) PROVE FALSE
      OBVIOUS
    <3>1. s \in i + 1 .. i + r
      BY <1>1, <2>2
    <3>2. x[s] = x[i]
      BY <2>2, <3>1 DEF RunOf
    <3>3. x[s - 1] = x[i]
      <4>1. s - 1 = i \/ s - 1 \in i + 1 .. i + r
        BY <1>1, <2>2, <3>1
      <4> QED
        BY <2>2, <4>1 DEF RunOf
    <3> QED
      BY <1>1, <3>2, <3>3
  <2>4. RunOf(p, i, r)
    <3>1. ASSUME NEW j \in i + 1 .. i + r PROVE p[j] = p[i]
      <4>1. j \in 1 .. Len(p)
        BY <1>1, <2>2, <2>3
      <4>2. x[j] = x[i]
        BY <2>2 DEF RunOf
      <4> QED
        BY <2>1, <4>1, <4>2
    <3>2. ASSUME i + r < Len(p) PROVE p[i + r + 1] # p[i]
      <4>1. i + r + 1 \in 1 .. Len(p) /\ i + r < Len(x)
        BY <1>1, <2>2, <3>2
      <4>2. x[i + r + 1] # x[i]
        BY <2>2, <4>1 DEF RunOf
      <4> QED
        BY <2>1, <4>1, <4>2
    <3> QED
      BY <3>1, <3>2 DEF RunOf
  <2>5. r \in 0 .. Len(p) - i
    BY <1>1, <2>2, <2>3
  <2>6. RepeatsAfter(p, i) = r
    BY <2>1, <2>4, <2>5, RepeatsLaw
  <2> QED
    BY <2>1, <2>2, <2>3, <2>6 DEF r
<1> HIDE DEF f, g, F
<1> DEFINE From(d) == \A i \in 1 .. s : i + d >= s => f[i] = g[i] \o f[s]
           Good == {d \in Nat : From(d)}
<1>5. f[s] = g[s] \o f[s]
  <2>1. f[s] \in Seq(Words)
    BY <1>1, <1>2
  <2>2. <<>> \o f[s] = f[s]
    BY <2>1, ConcatEmptySeq
  <2> QED
    BY <1>3, <2>2
<1>10. 0 \in Good
  <2>1. \A i \in 1 .. s : i + 0 >= s => i = s
    BY <1>1
  <2> QED
    BY <1>5, <2>1
<1>6. ASSUME NEW d \in Nat, From(d) PROVE From(d + 1)
  <2> SUFFICES ASSUME NEW i \in 1 .. s, i + (d + 1) >= s PROVE f[i] = g[i] \o f[s]
    OBVIOUS
  <2>1. CASE i = s
    BY <1>5, <2>1
  <2>2. CASE i # s
    <3> DEFINE k == i + F(i) + 1
               w == RunWords(x[i], F(i))
    <3>1. i \in 1 .. s - 1 /\ i \in 1 .. n
      BY <1>1, <2>2
    <3>2. F(i) \in Nat /\ i + F(i) < s /\ RepeatsAfter(p, i) = F(i) /\ p[i] = x[i]
      BY <1>4, <3>1
    <3>3. k \in 1 .. s /\ k + d >= s /\ k \in 1 .. n + 1
      <4> DEFINE m == F(i)
      <4>1. m \in Nat /\ i + m < s /\ i \in Nat /\ i >= 1 /\ i + (d + 1) >= s
        BY <3>1, <3>2
      <4> HIDE DEF m, n
      <4>2. i + m + 1 \in 1 .. s /\ i + m + 1 + d >= s /\ i + m + 1 \in 1 .. n + 1
        BY <1>1, <4>1
      <4> QED
        BY <4>2 DEF m
    <3>4. f[i] = w \o f[k] /\ g[i] = w \o g[k]
      BY <1>2, <1>3, <3>1, <3>2
    <3>5. w \in Seq(Words)
      <4>1. x[i] \in Values
        BY <3>1 DEF Stream
      <4> QED
        BY <3>2, <4>1, RunWordsTypes
    <3> HIDE DEF k, w
    <3>6. f[k] = g[k] \o f[s]
      BY <1>6, <3>3
    <3>7. g[k] \in Seq(Words) /\ f[s] \in Seq(Words)
      BY <1>1, <1>2, <1>3, <3>3
    <3>8. (w \o g[k]) \o f[s] = w \o (g[k] \o f[s])
      <4>1. Regroups(w, g[k], f[s])
        BY <3>5, <3>7, WordsRegroup
      <4> QED
        BY <4>1 DEF Regroups
    <3> QED
      BY <3>4, <3>6, <3>8
  <2> QED
    BY <2>1, <2>2
<1>7. \A d \in Nat : From(d)
  <2> HIDE DEF From
  <2>1. \A d \in Nat : d \in Good => d + 1 \in Good
    BY <1>6
  <2> HIDE DEF Good
  <2>2. Nat \subseteq Good
    BY <1>10, <2>1, SetInduction
  <2> QED
    BY <2>2 DEF Good
<1>8. From(s) /\ 1 \in 1 .. s /\ 1 + s >= s
  <2>1. s \in Nat
    BY <1>1
  <2>2. From(s)
    <3> HIDE DEF From
    <3> QED
      BY <1>7, <2>1
  <2>3. 1 \in 1 .. s /\ 1 + s >= s
    BY <1>1
  <2> QED
    BY <2>2, <2>3
<1>9. f[1] = g[1] \o f[s]
  BY <1>8
<1> QED
  BY <1>2, <1>3, <1>9 DEF f

\* The last run of a stream begins at s.
LastRun(x, s) ==
  /\ s \in 1 .. Len(x) /\ (s > 1 => x[s - 1] # x[s])
  /\ \A j \in s .. Len(x) : x[j] = x[Len(x)]

\* With it, the code ends with a data word and the counts of that run.
LEMMA EncodeEnds ==
  ASSUME NEW x \in Stream, NEW s, LastRun(x, s),
         NEW p \in Stream, Len(p) = s - 1, \A j \in 1 .. Len(p) : p[j] = x[j]
  PROVE  RleEncode(x) = RleEncode(p) \o RunWords(x[s], Len(x) - s)
<1> DEFINE n == Len(x)
           f == Encoding(x)
           r == n - s
<1>1. n \in Nat /\ s \in 1 .. n /\ r \in 0 .. n - s /\ s + r = n /\ r \in Nat
  BY DEF Stream, LastRun
<1>2. RunOf(x, s, r)
  <2>1. ASSUME NEW j \in s + 1 .. n PROVE x[j] = x[s]
    <3>1. j \in s .. n /\ s \in s .. n
      BY <1>1
    <3> QED
      BY <3>1 DEF LastRun
  <2> QED
    BY <1>1, <2>1 DEF RunOf
<1>3. RepeatsAfter(x, s) = r
  BY <1>1, <1>2, RepeatsLaw
<1> HIDE DEF r
<1>4. f[s] = RunWords(x[s], r) \o f[n + 1] /\ f[n + 1] = <<>>
  <2>1. Encodes(f, x)
    BY EncodingExists
  <2>2. s + r + 1 = n + 1
    BY <1>1
  <2> HIDE DEF f
  <2> QED
    BY <1>1, <1>3, <2>1, <2>2 DEF Encodes
<1>5. RunWords(x[s], r) \in Seq(Words)
  <2>1. x[s] \in Values
    BY <1>1 DEF Stream
  <2> QED
    BY <1>1, <2>1, RunWordsTypes
<1>6. f[s] = RunWords(x[s], r)
  BY <1>4, <1>5, ConcatEmptySeq
<1>7. RleEncode(x) = RleEncode(p) \o f[s]
  BY <1>1, EncodeSplits DEF LastRun
<1> QED
  BY <1>6, <1>7 DEF r

\* rle_encode yields words of the format.
LEMMA EncodeTypes ==
  ASSUME NEW x \in Stream
  PROVE  RleEncode(x) \in Seq(Words) /\ (x = <<>> => RleEncode(x) = <<>>)
<1>1. Encodes(Encoding(x), x) /\ RleEncode(x) = Encoding(x)[1]
  BY EncodingExists
<1>2. Len(x) \in Nat /\ 1 \in 1 .. Len(x) + 1 /\ (x = <<>> => Len(x) + 1 = 1)
  BY DEF Stream
<1> QED
  BY <1>1, <1>2 DEF Encodes

\* A value that begins a run adds a data word.
LEMMA EncodeNew ==
  ASSUME NEW x \in Stream, NEW v \in Values, x # <<>> => x[Len(x)] # v
  PROVE  /\ RleEncode(Append(x, v)) = RleEncode(x) \o <<GoldenData(v)>>
         /\ LastRun(Append(x, v), Len(x) + 1)
<1> DEFINE y == Append(x, v)
           n == Len(x)
<1>1. /\ y \in Stream /\ n \in Nat /\ Len(y) = n + 1 /\ y[n + 1] = v
      /\ \A j \in 1 .. n : y[j] = x[j]
  BY DEF Stream
<1> HIDE DEF y
<1>2. LastRun(y, n + 1)
  <2>1. n + 1 > 1 => n \in 1 .. n /\ x # <<>> /\ n + 1 - 1 = n
    BY <1>1 DEF Stream
  <2>2. \A j \in n + 1 .. Len(y) : j = n + 1
    BY <1>1
  <2>3. n + 1 > 1 => y[n + 1 - 1] # y[n + 1]
    BY <1>1, <2>1
  <2>4. n + 1 \in 1 .. Len(y)
    BY <1>1
  <2> QED
    BY <1>1, <2>2, <2>3, <2>4 DEF LastRun
<1>3. RleEncode(y) = RleEncode(x) \o RunWords(v, 0)
  <2>1. n = n + 1 - 1 /\ Len(y) - (n + 1) = 0
    BY <1>1
  <2> QED
    BY <1>1, <1>2, <2>1, EncodeEnds
<1>4. RunWords(v, 0) = <<GoldenData(v)>>
  <2>1. <<GoldenData(v)>> \in Seq(Words)
    BY RunWordsTypes, 0 \in Nat
  <2> QED
    BY <2>1, CountsShape, ConcatEmptySeq DEF RunWords
<1> QED
  BY <1>2, <1>3, <1>4 DEF y

\* A repeat adds to the count of the last run.
LEMMA EncodeRepeat ==
  ASSUME NEW x \in Stream, NEW v \in Values, x # <<>>, x[Len(x)] = v, NEW s, LastRun(x, s)
  PROVE  /\ Recounts(RleEncode(x), RleEncode(Append(x, v)), (Len(x) - s) % MaxRun)
         /\ LastRun(Append(x, v), s)
<1> DEFINE y == Append(x, v)
           n == Len(x)
           p == [j \in 1 .. s - 1 |-> x[j]]
<1>1. /\ y \in Stream /\ n \in Nat /\ Len(y) = n + 1 /\ y[n + 1] = v
      /\ \A j \in 1 .. n : y[j] = x[j]
  BY DEF Stream
<1>2. s \in 1 .. n /\ s \in 1 .. n + 1
  BY <1>1 DEF LastRun
<1>3. p \in Stream /\ Len(p) = s - 1 /\ \A j \in 1 .. Len(p) : p[j] = x[j] /\ p[j] = y[j]
  <2>1. s - 1 \in Nat /\ \A j \in 1 .. s - 1 : x[j] \in Values /\ j \in 1 .. n
    BY <1>2 DEF Stream
  <2>2. p \in Stream /\ Len(p) = s - 1
    BY <2>1 DEF Stream
  <2> QED
    BY <1>1, <2>1, <2>2
<1> HIDE DEF y, p
<1>4. LastRun(y, s)
  <2>1. s > 1 => s - 1 \in 1 .. n
    BY <1>2
  <2>2. \A j \in s .. n + 1 : j \in s .. n \/ j = n + 1
    BY <1>1, <1>2
  <2>3. \A j \in s .. n : y[j] = x[j] /\ x[j] = v
    BY <1>1, <1>2 DEF LastRun
  <2>4. s > 1 => y[s - 1] # y[s]
    BY <1>1, <1>2, <2>1 DEF LastRun
  <2>5. \A j \in s .. Len(y) : y[j] = y[Len(y)]
    BY <1>1, <2>2, <2>3
  <2> QED
    BY <1>1, <1>2, <2>4, <2>5 DEF LastRun
<1> DEFINE t == n - s
           e == RleEncode(p)
           d == GoldenData(x[s])
           z == e \o <<d>>
           c == Counts(t)
           b == Counts(t + 1)
<1>5. t \in Nat /\ Len(y) - s = t + 1
  BY <1>1, <1>2
<1>6. RleEncode(x) = e \o RunWords(x[s], t)
  BY <1>3, EncodeEnds
<1>7. RleEncode(y) = e \o RunWords(x[s], t + 1)
  <2>1. y[s] = x[s]
    BY <1>1, <1>2
  <2> QED
    <3>1. \A j \in 1 .. Len(p) : p[j] = y[j]
      BY <1>3
    <3>2. RleEncode(y) = RleEncode(p) \o RunWords(y[s], Len(y) - s)
      BY <1>1, <1>3, <1>4, <3>1, EncodeEnds
    <3> QED
      BY <1>5, <2>1, <3>2
<1>8. c \in Seq(Words) /\ b \in Seq(Words) /\ Recounts(c, b, t % MaxRun) /\ t % MaxRun \in 0 .. MaxRun - 1
  <2>1. t \in Nat
    BY <1>5
  <2> DEFINE u == t + 1
  <2>2. u \in Nat
    BY <2>1
  <2> HIDE DEF t, u
  <2>3. Counts(t) \in Seq(Words) /\ Recounts(Counts(t), Counts(t + 1), t % MaxRun)
    BY <2>1, CountsGrow, Zenon
  <2>4. Counts(u) \in Seq(Words)
    BY <2>2, CountsGrow, Zenon
  <2>5. t % MaxRun \in 0 .. MaxRun - 1
    BY <2>1, CountsGrow
  <2> QED
    BY <2>3, <2>4, <2>5, Zenon DEF u
<1>9. e \in Seq(Words) /\ d \in Words
  <2>1. x[s] \in Values
    BY <1>2 DEF Stream
  <2> QED
    BY <1>3, <1>5, <2>1, EncodeTypes, RunWordsTypes
<1>10. RleEncode(x) = e \o (<<d>> \o c) /\ RleEncode(y) = e \o (<<d>> \o b)
  BY <1>6, <1>7 DEF RunWords
<1> HIDE DEF e, d, c, b, t
<1>11. <<d>> \in Seq(Words) /\ z \in Seq(Words)
  BY <1>9
<1>12. RleEncode(x) = z \o c /\ RleEncode(y) = z \o b
  <2> DEFINE w == <<d>>
  <2>1. w \in Seq(Words) /\ z = e \o w
    BY <1>11
  <2>2. RleEncode(x) = e \o (w \o c) /\ RleEncode(y) = e \o (w \o b)
    BY <1>10
  <2> HIDE DEF w, z
  <2>3. (e \o w) \o c = e \o (w \o c) /\ (e \o w) \o b = e \o (w \o b)
    <3>1. e \in Seq(Words) /\ w \in Seq(Words) /\ c \in Seq(Words) /\ b \in Seq(Words)
      BY <1>8, <1>9, <2>1
    <3>2. Regroups(e, w, c) /\ Regroups(e, w, b)
      BY <3>1, WordsRegroup
    <3> QED
      BY <3>2 DEF Regroups
  <2> QED
    BY <2>1, <2>2, <2>3, Zenon
<1> HIDE DEF z
<1> DEFINE a == t % MaxRun
<1>13. a \in 0 .. MaxRun - 1 /\ MaxRun \in Nat \ {0} /\ Recounts(c, b, a)
  BY <1>8, MaxRunAssumption
<1> HIDE DEF a
<1>14. Recounts(z \o c, z \o b, a)
  <2>1. CASE a = 0
    <3>1. <<CountWord(1)>> \in Seq(Words)
      BY <1>13, WordTypes
    <3>2. b = c \o <<CountWord(1)>>
      BY <1>13, <2>1 DEF Recounts
    <3>3. z \o (c \o <<CountWord(1)>>) = (z \o c) \o <<CountWord(1)>>
      <4>1. Regroups(z, c, <<CountWord(1)>>)
        BY <1>8, <1>11, <3>1, WordsRegroup
      <4> QED
        BY <4>1 DEF Regroups
    <3> QED
      BY <2>1, <3>2, <3>3 DEF Recounts
  <2>2. CASE a # 0
    <3>1. <<CountWord(a)>> \in Seq(Words) /\ <<CountWord(a + 1)>> \in Seq(Words)
      <4>1. a \in 1 .. MaxRun /\ a + 1 \in 1 .. MaxRun
        BY <1>13, <2>2
      <4> QED
        BY <4>1, WordTypes
    <3>2. PICK u \in Seq(Words) : c = u \o <<CountWord(a)>> /\ b = u \o <<CountWord(a + 1)>>
      BY <1>13, <2>2 DEF Recounts
    <3>3. /\ z \o (u \o <<CountWord(a)>>) = (z \o u) \o <<CountWord(a)>>
          /\ z \o (u \o <<CountWord(a + 1)>>) = (z \o u) \o <<CountWord(a + 1)>>
      <4>1. Regroups(z, u, <<CountWord(a)>>) /\ Regroups(z, u, <<CountWord(a + 1)>>)
        BY <1>11, <3>1, WordsRegroup
      <4> QED
        BY <4>1 DEF Regroups
    <3>4. z \o u \in Seq(Words)
      BY <1>11
    <3>5. z \o c = (z \o u) \o <<CountWord(a)>> /\ z \o b = (z \o u) \o <<CountWord(a + 1)>>
      BY <3>2, <3>3
    <3> QED
      BY <2>2, <3>4, <3>5 DEF Recounts
  <2> QED
    BY <2>1, <2>2
<1> QED
  BY <1>4, <1>12, <1>14 DEF y, a, t

----------------------------------------------------------------------------
(* The golden decoder. *)

\* The current value and the samples after each word.
Currents(words) ==
  CHOOSE f : f = [i \in 0 .. Len(words) |->
                    IF i = 0 THEN "None"
                    ELSE IF words[i].isCount THEN f[i - 1] ELSE words[i].value]

Replay(words) ==
  CHOOSE f : f = [i \in 0 .. Len(words) |->
                    IF i = 0 THEN <<>>
                    ELSE f[i - 1] \o [j \in 1 .. (IF words[i].isCount THEN words[i].value ELSE 1) |->
                                        Currents(words)[i]]]

\* How many samples a word adds.
Adds(w) == IF w.isCount THEN w.value ELSE 1

Replays(v, f, words) ==
  /\ v[0] = "None" /\ f[0] = <<>>
  /\ \A i \in 0 .. Len(words) : f[i] \in Seq(Values \cup {"None"})
  /\ \A i \in 1 .. Len(words) :
       /\ v[i] = IF words[i].isCount THEN v[i - 1] ELSE words[i].value
       /\ f[i] = f[i - 1] \o [j \in 1 .. Adds(words[i]) |-> v[i]]

\* A word adds some samples of some value.
LEMMA WordAdds ==
  ASSUME NEW w \in Words
  PROVE  /\ Adds(w) \in Nat /\ w.isCount \in BOOLEAN
         /\ ~w.isCount => w.value \in Values
<1>1. CASE w \in [isCount : {FALSE}, value : Values, trig : BOOLEAN]
  BY <1>1 DEF Adds
<1>2. CASE w \in [isCount : {TRUE}, value : 1 .. MaxRun, trig : {FALSE}]
  <2>1. w.isCount = TRUE /\ w.value \in 1 .. MaxRun
    BY <1>2
  <2>2. w.value \in Nat
    BY <2>1, MaxRunAssumption
  <2> QED
    BY <2>1, <2>2, Zenon DEF Adds
<1> QED
  BY <1>1, <1>2 DEF Words

\* The recursive definitions define what they say.
LEMMA ReplayExists ==
  ASSUME NEW w \in Seq(Words)
  PROVE  Replays(Currents(w), Replay(w), w) /\ RleDecode(w) = Replay(w)[Len(w)]
<1> DEFINE n == Len(w)
           none == "None"
           V == Values \cup {none}
           S == Seq(V)
           keep == [p \in Nat \X V |-> IF p[1] \in 1 .. n
                                         THEN IF w[p[1]].isCount THEN p[2] ELSE w[p[1]].value
                                         ELSE p[2]]
           v == Currents(w)
           f == Replay(w)
           HoldsIn(g) == g = [i \in 0 .. n |-> IF i = 0 THEN none
                                               ELSE IF w[i].isCount THEN g[i - 1] ELSE w[i].value]
           more == [i \in 1 .. n |-> [j \in 1 .. Adds(w[i]) |-> v[i]]]
           ReplaysIn(g) == g = [i \in 0 .. n |-> IF i = 0 THEN <<>>
                                   ELSE g[i - 1] \o [j \in 1 .. Adds(w[i]) |-> v[i]]]
           join == [p \in Nat \X S |-> IF p[1] \in 1 .. n THEN p[2] \o more[p[1]] ELSE p[2]]
<1>1. n \in Nat /\ \A i \in 1 .. n : w[i] \in Words
  OBVIOUS
<1>2. v = CHOOSE g : HoldsIn(g)
  BY Zenon DEF Currents
<1> HIDE DEF v
<1>3. f = CHOOSE g : ReplaysIn(g)
  BY Zenon DEF Replay, Adds, v
<1>4. RleDecode(w) = f[n]
  BY Zenon DEF RleDecode, Replay, Currents
<1> HIDE DEF f, none
<1>5. none \in V /\ Values \subseteq V
  OBVIOUS
<1>6. keep \in [Nat \X V -> V]
  <2>1. ASSUME NEW p \in Nat \X V
        PROVE  (IF p[1] \in 1 .. n THEN IF w[p[1]].isCount THEN p[2] ELSE w[p[1]].value
                ELSE p[2]) \in V
    <3>1. p[2] \in V
      OBVIOUS
    <3>2. p[1] \in 1 .. n /\ ~w[p[1]].isCount => w[p[1]].value \in V
      BY <1>1, <1>5, WordAdds
    <3> QED
      BY <3>1, <3>2
  <2> QED
    BY <2>1
<1>7. \A i \in 1 .. n, x \in V : keep[<<i, x>>] = IF w[i].isCount THEN x ELSE w[i].value
  OBVIOUS
<1> HIDE DEF V, keep
<1>8. HoldsIn(v)
  <2>4. PICK g : UpTo(g, V, none, n, keep)
    BY <1>1, <1>5, <1>6, TableUpTo
  <2>1. /\ g \in [0 .. n -> V] /\ g[0] = none
        /\ \A i \in 1 .. n : g[i] = keep[<<i, g[i - 1]>>]
    BY <2>4 DEF UpTo
  <2>2. ASSUME NEW i \in 0 .. n
        PROVE  g[i] = IF i = 0 THEN none ELSE IF w[i].isCount THEN g[i - 1] ELSE w[i].value
    <3>1. i # 0 => i \in 1 .. n /\ i - 1 \in 0 .. n
      OBVIOUS
    <3>2. i # 0 => g[i - 1] \in V
      BY <2>1, <3>1
    <3> QED
      BY <1>7, <2>1, <3>1, <3>2
  <2>3. HoldsIn(g)
    BY <2>1, <2>2
  <2> HIDE DEF HoldsIn
  <2> QED
    BY <1>2, <2>3, Zenon
<1>9. v[0] = none /\ \A i \in 1 .. n : v[i] = IF w[i].isCount THEN v[i - 1] ELSE w[i].value
  <2>1. v[0] = none
    BY <1>1, <1>8
  <2>2. ASSUME NEW i \in 1 .. n PROVE v[i] = IF w[i].isCount THEN v[i - 1] ELSE w[i].value
    <3>1. i \in 0 .. n /\ i # 0
      OBVIOUS
    <3> QED
      BY <1>8, <3>1
  <2> QED
    BY <2>1, <2>2
<1> HIDE DEF HoldsIn
<1>10. \A i \in 0 .. n : v[i] \in V
  <2>1. \A i \in 1 .. n : v[i - 1] \in V => v[i] \in V
    <3> SUFFICES ASSUME NEW i \in 1 .. n, v[i - 1] \in V PROVE v[i] \in V
      OBVIOUS
    <3>1. ~w[i].isCount => w[i].value \in V
      BY <1>1, <1>5, WordAdds
    <3> QED
      BY <1>9, <3>1
  <2> QED
    BY <1>1, <1>5, <1>9, <2>1, TypedUpTo
<1>11. \A i \in 1 .. n : more[i] = [j \in 1 .. Adds(w[i]) |-> v[i]] /\ more[i] \in S
  <2> SUFFICES ASSUME NEW i \in 1 .. n PROVE [j \in 1 .. Adds(w[i]) |-> v[i]] \in S
    BY Zenon
  <2>1. Adds(w[i]) \in Nat /\ v[i] \in V
    BY <1>1, <1>10, WordAdds
  <2> QED
    BY <2>1
<1>12. \A a, b \in S : a \o b \in S
  OBVIOUS
<1>13. <<>> \in S
  OBVIOUS
<1> HIDE DEF S, more
<1>14. join \in [Nat \X S -> S]
  <2>1. ASSUME NEW p \in Nat \X S
        PROVE  (IF p[1] \in 1 .. n THEN p[2] \o more[p[1]] ELSE p[2]) \in S
    <3>1. p[2] \in S
      OBVIOUS
    <3> QED
      BY <1>11, <1>12, <3>1
  <2> QED
    BY <2>1
<1>15. \A i \in 1 .. n, x \in S : join[<<i, x>>] = x \o more[i]
  <2> SUFFICES ASSUME NEW i \in 1 .. n, NEW x \in S PROVE join[<<i, x>>] = x \o more[i]
    OBVIOUS
  <2>1. <<i, x>> \in Nat \X S /\ <<i, x>>[1] = i /\ <<i, x>>[2] = x
    OBVIOUS
  <2> QED
    BY <2>1, Zenon
<1> HIDE DEF join
<1>16. ReplaysIn(f)
  <2>4. PICK g : UpTo(g, S, <<>>, n, join)
    BY <1>1, <1>13, <1>14, TableUpTo
  <2>1. /\ g \in [0 .. n -> S] /\ g[0] = <<>>
        /\ \A i \in 1 .. n : g[i] = join[<<i, g[i - 1]>>]
    BY <2>4 DEF UpTo
  <2>2. ASSUME NEW i \in 0 .. n
        PROVE  g[i] = IF i = 0 THEN <<>> ELSE g[i - 1] \o [j \in 1 .. Adds(w[i]) |-> v[i]]
    <3>1. i # 0 => i \in 1 .. n /\ i - 1 \in 0 .. n
      OBVIOUS
    <3>2. CASE i # 0
      <4>1. g[i] = g[i - 1] \o more[i]
        BY <1>15, <2>1, <3>1, <3>2
      <4>2. more[i] = [j \in 1 .. Adds(w[i]) |-> v[i]]
        BY <1>11, <3>1, <3>2
      <4> QED
        BY <3>2, <4>1, <4>2, Zenon
    <3> QED
      BY <2>1, <3>2
  <2>3. ReplaysIn(g)
    BY <2>1, <2>2, Zenon
  <2> HIDE DEF ReplaysIn
  <2> QED
    BY <1>3, <2>3, Zenon
<1>17. f[0] = <<>> /\ \A i \in 1 .. n : f[i] = f[i - 1] \o more[i]
  <2>1. f[0] = <<>>
    BY <1>1, <1>16
  <2>2. ASSUME NEW i \in 1 .. n PROVE f[i] = f[i - 1] \o more[i]
    <3>1. i \in 0 .. n /\ i # 0
      OBVIOUS
    <3>2. f[i] = f[i - 1] \o [j \in 1 .. Adds(w[i]) |-> v[i]]
      BY <1>16, <3>1, Zenon
    <3> QED
      BY <1>11, <3>2
  <2> QED
    BY <2>1, <2>2
<1> HIDE DEF ReplaysIn
<1>18. \A i \in 0 .. n : f[i] \in S
  <2>1. \A i \in 1 .. n : f[i - 1] \in S => f[i] \in S
    BY <1>11, <1>12, <1>17
  <2> QED
    BY <1>1, <1>13, <1>17, <2>1, TypedUpTo
<1>19. \A i \in 1 .. n : f[i] = f[i - 1] \o [j \in 1 .. Adds(w[i]) |-> v[i]]
  BY <1>11, <1>17
<1>20. Replays(v, f, w)
  BY <1>9, <1>17, <1>18, <1>19, Zenon DEF Replays, S, V, none
<1> QED
  BY <1>4, <1>20 DEF v, f

\* The value a count word would repeat.
Current(words) == Currents(words)[Len(words)]

\* rle_decode is a matter of the last word.
LEMMA ReplayLaws ==
  ASSUME NEW w \in Seq(Words)
  PROVE  /\ RleDecode(<<>>) = <<>> /\ RleDecode(w) \in Seq(Values \cup {"None"})
         /\ \A x \in Words :
              /\ Current(Append(w, x)) = IF x.isCount THEN Current(w) ELSE x.value
              /\ RleDecode(Append(w, x)) =
                   RleDecode(w) \o [j \in 1 .. Adds(x) |-> Current(Append(w, x))]
<1>1. RleDecode(<<>>) = <<>>
  <2>1. <<>> \in Seq(Words) /\ Len(<<>>) = 0
    OBVIOUS
  <2>2. Replays(Currents(<<>>), Replay(<<>>), <<>>) /\ RleDecode(<<>>) = Replay(<<>>)[Len(<<>>)]
    BY <2>1, ReplayExists
  <2> QED
    BY <2>1, <2>2, Zenon DEF Replays
<1>2. RleDecode(w) \in Seq(Values \cup {"None"})
  <2>1. Len(w) \in 0 .. Len(w)
    OBVIOUS
  <2> QED
    BY <2>1, ReplayExists, Zenon DEF Replays
<1>3. ASSUME NEW x \in Words
      PROVE  /\ Current(Append(w, x)) = IF x.isCount THEN Current(w) ELSE x.value
             /\ RleDecode(Append(w, x)) = RleDecode(w) \o [j \in 1 .. Adds(x) |-> Current(Append(w, x))]
  <2> DEFINE y == Append(w, x)
             n == Len(w)
             c == Currents(w)
             d == Currents(y)
             f == Replay(w)
             g == Replay(y)
  <2>1. /\ y \in Seq(Words) /\ Len(y) = n + 1 /\ n \in Nat
        /\ y[n + 1] = x /\ \A i \in 1 .. n : y[i] = w[i]
    OBVIOUS
  <2> HIDE DEF y
  <2>2. Replays(c, f, w) /\ RleDecode(w) = f[n] /\ Replays(d, g, y) /\ RleDecode(y) = g[Len(y)]
    BY <2>1, ReplayExists
  <2>3. Current(w) = c[n] /\ Current(y) = d[n + 1]
    BY <2>1 DEF Current
  <2> HIDE DEF c, d, f, g
  <2>4. c[0] = d[0] /\ f[0] = g[0]
    BY <2>2, Zenon DEF Replays
  <2>5. ASSUME NEW i \in 1 .. n
        PROVE  /\ c[i] = IF w[i].isCount THEN c[i - 1] ELSE w[i].value
               /\ d[i] = IF w[i].isCount THEN d[i - 1] ELSE w[i].value
               /\ f[i] = f[i - 1] \o [j \in 1 .. Adds(w[i]) |-> c[i]]
               /\ g[i] = g[i - 1] \o [j \in 1 .. Adds(w[i]) |-> d[i]]
    <3>1. i \in 1 .. Len(y) /\ y[i] = w[i]
      BY <2>1
    <3> QED
      BY <2>2, <3>1, Zenon DEF Replays
  <2> DEFINE Same == {i \in Nat : i <= n => c[i] = d[i] /\ f[i] = g[i]}
  <2>6. 0 \in Same
    BY <2>4
  <2>7. ASSUME NEW i \in Nat, i \in Same PROVE i + 1 \in Same
    <3> SUFFICES ASSUME i + 1 <= n PROVE c[i + 1] = d[i + 1] /\ f[i + 1] = g[i + 1]
      OBVIOUS
    <3> DEFINE k == i + 1
    <3>1. k \in 1 .. n /\ k - 1 = i /\ c[i] = d[i] /\ f[i] = g[i]
      BY <2>1, <2>7
    <3> HIDE DEF k
    <3>2. c[k] = d[k]
      BY <2>5, <3>1
    <3>3. f[k] = g[k]
      BY <2>5, <3>1, <3>2, Zenon
    <3> QED
      BY <3>2, <3>3 DEF k
  <2>8. Nat \subseteq Same
    BY <2>6, <2>7, SetInduction
  <2>9. c[n] = d[n] /\ f[n] = g[n]
    BY <2>1, <2>8
  <2>10. n + 1 \in 1 .. Len(y) /\ n + 1 - 1 = n
    BY <2>1
  <2>11. /\ d[n + 1] = IF x.isCount THEN d[n] ELSE x.value
         /\ g[n + 1] = g[n] \o [j \in 1 .. Adds(x) |-> d[n + 1]]
    <3> DEFINE m == n + 1
    <3>1. m \in 1 .. Len(y) /\ m - 1 = n /\ y[m] = x
      BY <2>1, <2>10
    <3> HIDE DEF m
    <3>2. /\ d[m] = IF y[m].isCount THEN d[m - 1] ELSE y[m].value
          /\ g[m] = g[m - 1] \o [j \in 1 .. Adds(y[m]) |-> d[m]]
      BY <2>2, <3>1, Zenon DEF Replays
    <3>3. /\ d[m] = IF x.isCount THEN d[n] ELSE x.value
          /\ g[m] = g[n] \o [j \in 1 .. Adds(x) |-> d[m]]
      BY <3>1, <3>2, Zenon
    <3> QED
      BY <3>3 DEF m
  <2>12. Current(y) = IF x.isCount THEN Current(w) ELSE x.value
    BY <2>3, <2>9, <2>11
  <2>13. RleDecode(y) = RleDecode(w) \o [j \in 1 .. Adds(x) |-> Current(y)]
    BY <2>1, <2>2, <2>3, <2>9, <2>11, Zenon
  <2> QED
    BY <2>12, <2>13 DEF y
<1> QED
  BY <1>1, <1>2, <1>3

\* The values of one more sample.
LEMMA PlainAppend ==
  ASSUME NEW d \in Seq(Samples), NEW s \in Samples
  PROVE  Plain(Append(d, s)) = Append(Plain(d), s.value) /\ s.value \in Values
<1> DEFINE y == Append(d, s)
           p == Plain(d)
           q == Plain(y)
           r == Append(p, s.value)
<1>1. s.value \in Values
  BY DEF Samples
<1>2. /\ y \in Seq(Samples) /\ Len(y) = Len(d) + 1 /\ y[Len(d) + 1] = s
      /\ \A k \in 1 .. Len(d) : y[k] = d[k]
      /\ Len(d) \in Nat
  OBVIOUS
<1>3. p \in Seq(Values) /\ Len(p) = Len(d) /\ \A k \in 1 .. Len(d) : p[k] = d[k].value
  BY PlainLaws
<1> HIDE DEF y
<1>4. q \in Seq(Values) /\ Len(q) = Len(y) /\ \A k \in 1 .. Len(y) : q[k] = y[k].value
  BY <1>2, PlainLaws
<1> HIDE DEF p, q
<1>5. /\ r \in Seq(Values) /\ Len(r) = Len(d) + 1 /\ r[Len(d) + 1] = s.value
      /\ \A k \in 1 .. Len(d) : r[k] = d[k].value
  BY <1>1, <1>3
<1>6. ASSUME NEW k \in 1 .. Len(q) PROVE q[k] = r[k]
  <2>1. k \in 1 .. Len(d) \/ k = Len(d) + 1
    BY <1>2, <1>4
  <2> QED
    BY <1>2, <1>4, <1>5, <2>1
<1> HIDE DEF r
<1>7. q = r
  BY <1>2, <1>4, <1>5, <1>6, SeqEqual
<1> QED
  BY <1>1, <1>7 DEF q, r, p, y

\* One more copy of a value.
LEMMA CopiesGrow ==
  ASSUME NEW S, NEW q \in Seq(S), NEW v \in S, NEW a \in Nat
  PROVE  /\ q \o [j \in 1 .. a + 1 |-> v] = Append(q \o [j \in 1 .. a |-> v], v)
         /\ q \o [j \in 1 .. 1 |-> v] = Append(q, v)
         /\ q \o [j \in 1 .. a |-> v] \in Seq(S)
<1> DEFINE R(n) == [j \in 1 .. n |-> v]
<1>1. ASSUME NEW n \in Nat PROVE R(n) \in Seq(S) /\ Len(R(n)) = n /\ \A j \in 1 .. n : R(n)[j] = v
  OBVIOUS
<1>2. ASSUME NEW n \in Nat PROVE R(n + 1) = Append(R(n), v)
  <2> DEFINE x == R(n + 1)
             y == Append(R(n), v)
  <2>1. x \in Seq(S) /\ Len(x) = n + 1 /\ \A j \in 1 .. n + 1 : x[j] = v
    OBVIOUS
  <2>2. y \in Seq(S) /\ Len(y) = n + 1 /\ \A j \in 1 .. n + 1 : y[j] = v
    BY <1>1
  <2> HIDE DEF x, y
  <2>3. x = y
    BY <2>1, <2>2, SeqEqual
  <2> QED
    BY <2>3 DEF x, y
<1>3. R(0) = <<>>
  OBVIOUS
<1>4. R(1) = <<v>>
  <2>1. R(0 + 1) = Append(R(0), v)
    BY <1>2, 0 \in Nat, Zenon
  <2>2. 0 + 1 = 1 /\ Append(<<>>, v) = <<v>>
    OBVIOUS
  <2> HIDE DEF R
  <2> QED
    BY <1>3, <2>1, <2>2
<1>5. R(a) \in Seq(S) /\ R(a + 1) = Append(R(a), v)
  BY <1>1, <1>2
<1> HIDE DEF R
<1>6. q \o R(a + 1) = Append(q \o R(a), v)
  <2> DEFINE x == R(a)
             w == <<v>>
  <2>1. x \in Seq(S) /\ w \in Seq(S) /\ q \o x \in Seq(S)
    BY <1>5
  <2>2. Append(x, v) = x \o w /\ Append(q \o x, v) = (q \o x) \o w
    BY <2>1, AppendIsConcat
  <2>3. R(a + 1) = Append(x, v)
    BY <1>5
  <2> HIDE DEF x, w
  <2>6. Regroups(q, x, w)
    BY <2>1, SequencesRegroup
  <2>4. (q \o x) \o w = q \o (x \o w)
    BY <2>6 DEF Regroups
  <2>5. q \o R(a + 1) = Append(q \o x, v)
    BY <2>2, <2>3, <2>4
  <2> QED
    BY <2>5 DEF x
<1>7. q \o R(1) = Append(q, v)
  BY <1>4, AppendIsConcat
<1>8. q \o R(a) \in Seq(S)
  BY <1>5
<1> QED
  BY <1>6, <1>7, <1>8 DEF R

\* What the words of a stream are to both decoders, and that it has a last
\* run.
Inverted(x) ==
  /\ RleDecode(RleEncode(x)) = x /\ Plain(Decode(RleEncode(x))) = x
  /\ Len(RleEncode(x)) <= Len(x)
  /\ x # <<>> => Current(RleEncode(x)) = x[Len(x)] /\ \E s : LastRun(x, s)

\* One more value.
LEMMA InvertStep ==
  ASSUME NEW x \in Stream, NEW v \in Values, Inverted(x)
  PROVE  Inverted(Append(x, v))
<1> DEFINE y == Append(x, v)
           w == RleEncode(x)
           z == RleEncode(y)
           n == Len(x)
           d == Decode(w)
           one == [value |-> v, trig |-> FALSE]
<1>1. /\ y \in Stream /\ n \in Nat /\ Len(y) = n + 1 /\ y[Len(y)] = v /\ y # <<>>
  BY DEF Stream
<1>2. /\ RleDecode(w) = x /\ Plain(d) = x /\ Len(w) <= n
      /\ x # <<>> => Current(w) = x[n] /\ \E s : LastRun(x, s)
  BY DEF Inverted
<1>3. w \in Seq(Words)
  BY EncodeTypes
<1>4. d \in Seq(Samples) /\ one \in Samples /\ one.value = v
  <2>1. d \in Seq(Samples)
    BY <1>3, DecodeLaws
  <2> QED
    BY <2>1 DEF Samples
<1>5. Plain(Append(d, one)) = y
  BY <1>2, <1>4, PlainAppend
<1>6. Len(d) = n /\ \A k \in 1 .. n : x[k] = d[k].value
  BY <1>2, <1>4, PlainLaws
<1>7. SUFFICES /\ RleDecode(z) = y /\ Decode(z) = Append(d, one) /\ Len(z) <= n + 1
               /\ Current(z) = v /\ \E s : LastRun(y, s)
  BY <1>1, <1>5 DEF Inverted
<1> HIDE DEF one
<1>8. CASE x = <<>> \/ x[n] # v
  <2> DEFINE g == GoldenData(v)
  <2>1. g \in Words /\ g = [isCount |-> FALSE, value |-> v, trig |-> FALSE]
    BY RunWordsTypes, 0 \in Nat, Zenon DEF GoldenData, DataWord
  <2>2. z = w \o <<g>> /\ LastRun(y, n + 1)
    BY <1>8, EncodeNew
  <2>3. ~g.isCount /\ g.value = v /\ g.trig = FALSE /\ Adds(g) = 1
    BY <2>1 DEF Adds
  <2> HIDE DEF g, y, w, z, d, n
  <2>4. z = Append(w, g)
    BY <1>3, <2>1, <2>2, AppendIsConcat
  <2>5. Current(z) = v
    BY <1>3, <2>1, <2>3, <2>4, ReplayLaws
  <2>6. RleDecode(z) = x \o [j \in 1 .. 1 |-> v]
    <3>1. RleDecode(z) = RleDecode(w) \o [j \in 1 .. Adds(g) |-> Current(z)]
      BY <1>3, <2>1, <2>4, ReplayLaws, Zenon
    <3> QED
      BY <1>2, <2>3, <2>5, <3>1, Zenon
  <2>7. RleDecode(z) = y
    <3>1. x \o [j \in 1 .. 1 |-> v] = Append(x, v)
      BY CopiesGrow, 0 \in Nat, Zenon DEF Stream
    <3> QED
      BY <2>6, <3>1, Zenon DEF y
  <2>8. Decode(z) = Append(d, one)
    <3>1. Decode(z) = Expand(d, g)
      BY <1>3, <2>1, <2>4, DecodeLaws DEF d
    <3>2. Expand(d, g) = Append(d, [value |-> g.value, trig |-> g.trig])
      BY <2>3, Zenon DEF Expand
    <3> QED
      BY <2>3, <3>1, <3>2, Zenon DEF one
  <2>9. Len(z) = Len(w) + 1 /\ Len(w) \in Nat
    BY <1>3, <2>1, <2>4
  <2> QED
    BY <1>1, <1>2, <2>2, <2>5, <2>7, <2>8, <2>9
<1>9. CASE x # <<>> /\ x[n] = v
  <2>1. PICK s : LastRun(x, s)
    BY <1>2, <1>9
  <2> DEFINE a == (n - s) % MaxRun
  <2>2. Recounts(w, z, a) /\ LastRun(y, s)
    BY <1>9, <2>1, EncodeRepeat
  <2>3. a \in 0 .. MaxRun - 1 /\ MaxRun \in Nat \ {0} /\ a \in Nat
    <3>1. n - s \in Nat
      BY <1>1, <2>1 DEF LastRun
    <3>2. a \in 0 .. MaxRun - 1
      BY <3>1, CountsGrow
    <3> HIDE DEF a
    <3> QED
      BY <3>2, MaxRunAssumption
  <2>4. Current(w) = v /\ n >= 1 /\ n \in 1 .. n /\ d # <<>> /\ d[n].value = v
    <3>1. n >= 1
      BY <1>1, <1>9 DEF Stream
    <3> QED
      BY <1>1, <1>2, <1>4, <1>6, <1>9, <3>1
  <2>5. \A k \in 1 .. MaxRun : /\ CountWord(k) \in Words /\ CountWord(k).isCount
                              /\ CountWord(k).value = k /\ CountWord(k).trig = FALSE
                              /\ Adds(CountWord(k)) = k
    BY WordTypes DEF CountWord, Adds
  <2> HIDE DEF y, w, z, d, n, a
  \* Both decoders on a count word.
  <2>6. ASSUME NEW e \in Seq(Words), NEW k \in 1 .. MaxRun
        PROVE  /\ e \o <<CountWord(k)>> \in Seq(Words)
               /\ Len(e \o <<CountWord(k)>>) = Len(e) + 1 /\ Len(e) \in Nat
               /\ Current(e \o <<CountWord(k)>>) = Current(e)
               /\ RleDecode(e \o <<CountWord(k)>>) = RleDecode(e) \o [j \in 1 .. k |-> Current(e)]
               /\ Decode(e) = <<>> => Decode(e \o <<CountWord(k)>>) = <<>>
               /\ Decode(e) # <<>> =>
                    Decode(e \o <<CountWord(k)>>) =
                      Decode(e) \o [j \in 1 .. k |-> [value |-> Last(Decode(e)).value, trig |-> FALSE]]
               /\ Decode(e) \in Seq(Samples)
    <3> DEFINE c == CountWord(k)
               f == Decode(e)
    <3>1. c \in Words /\ c.isCount /\ c.value = k /\ c.trig = FALSE /\ Adds(c) = k
      BY <2>5
    <3> HIDE DEF c
    <3>2. e \o <<c>> = Append(e, c) /\ Append(e, c) \in Seq(Words)
          /\ Len(Append(e, c)) = Len(e) + 1 /\ Len(e) \in Nat
      BY <3>1, AppendIsConcat
    <3>3. /\ Current(Append(e, c)) = Current(e)
          /\ RleDecode(Append(e, c)) = RleDecode(e) \o [j \in 1 .. k |-> Current(e)]
      <4>1. /\ Current(Append(e, c)) = IF c.isCount THEN Current(e) ELSE c.value
            /\ RleDecode(Append(e, c)) = RleDecode(e) \o [j \in 1 .. Adds(c) |-> Current(Append(e, c))]
        BY <3>1, ReplayLaws, Zenon
      <4>2. Current(Append(e, c)) = Current(e)
        BY <3>1, <4>1
      <4> QED
        BY <3>1, <4>1, <4>2, Zenon
    <3>4. Decode(Append(e, c)) = Expand(f, c) /\ f \in Seq(Samples)
      BY <3>1, DecodeLaws
    <3> HIDE DEF f
    <3>5. f = <<>> => Expand(f, c) = <<>>
      BY <3>1, Zenon DEF Expand
    <3>6. f # <<>> => Expand(f, c) = f \o [j \in 1 .. k |-> [value |-> Last(f).value, trig |-> FALSE]]
      BY <3>1, Zenon DEF Expand
    <3>7. /\ Append(e, c) \in Seq(Words)
          /\ Len(Append(e, c)) = Len(e) + 1 /\ Len(e) \in Nat
          /\ Current(Append(e, c)) = Current(e)
          /\ RleDecode(Append(e, c)) = RleDecode(e) \o [j \in 1 .. k |-> Current(e)]
          /\ f = <<>> => Decode(Append(e, c)) = <<>>
          /\ f # <<>> => Decode(Append(e, c)) = f \o [j \in 1 .. k |-> [value |-> Last(f).value, trig |-> FALSE]]
          /\ f \in Seq(Samples)
      BY <3>2, <3>3, <3>4, <3>5, <3>6, Zenon
    <3> QED
      BY <3>2, <3>7, Zenon DEF c, f
  <2>7. CASE a = 0
    <3>1. z = w \o <<CountWord(1)>>
      BY <2>2, <2>7 DEF Recounts
    <3>2. 1 \in 1 .. MaxRun
      BY <2>3
    <3>3. /\ Len(z) = Len(w) + 1 /\ Len(w) \in Nat /\ Current(z) = v
          /\ RleDecode(z) = x \o [j \in 1 .. 1 |-> v]
      BY <1>2, <1>3, <2>4, <2>6, <3>1, <3>2, Zenon
    <3>4. Decode(z) = d \o [j \in 1 .. 1 |-> [value |-> Last(d).value, trig |-> FALSE]]
      BY <1>3, <2>4, <2>6, <3>1, <3>2, Zenon DEF d
    <3>5. Last(d).value = v
      BY <1>6, <2>4 DEF Last
    <3>6. Decode(z) = d \o [j \in 1 .. 1 |-> one]
      BY <3>4, <3>5, Zenon DEF one
    <3>7. Decode(z) = Append(d, one)
      BY <1>4, <3>6, CopiesGrow, 0 \in Nat, Zenon
    <3>8. RleDecode(z) = y
      <4>1. x \o [j \in 1 .. 1 |-> v] = Append(x, v)
        BY CopiesGrow, 0 \in Nat, Zenon DEF Stream
      <4> QED
        BY <3>3, <4>1, Zenon DEF y
    <3>9. Len(z) <= n + 1
      BY <1>1, <1>2, <3>3
    <3> QED
      BY <2>2, <3>3, <3>7, <3>8, <3>9
  <2>8. CASE a # 0
    <3>1. PICK e \in Seq(Words) : w = e \o <<CountWord(a)>> /\ z = e \o <<CountWord(a + 1)>>
      BY <2>2, <2>8 DEF Recounts
    <3>2. a \in 1 .. MaxRun /\ a + 1 \in 1 .. MaxRun
      BY <2>3, <2>8
    <3> DEFINE f == Decode(e)
               k == a + 1
    <3>3. k \in 1 .. MaxRun /\ z = e \o <<CountWord(k)>>
      BY <3>1, <3>2
    <3>4. /\ Len(w) = Len(e) + 1 /\ Len(e) \in Nat /\ Current(w) = Current(e)
          /\ RleDecode(w) = RleDecode(e) \o [j \in 1 .. a |-> Current(e)]
          /\ f = <<>> => Decode(w) = <<>>
          /\ f # <<>> => Decode(w) = f \o [j \in 1 .. a |-> [value |-> Last(f).value, trig |-> FALSE]]
          /\ f \in Seq(Samples)
      BY <2>6, <3>1, <3>2, Zenon
    <3> HIDE DEF k
    <3>5. /\ Len(z) = Len(e) + 1 /\ Current(z) = Current(e)
          /\ RleDecode(z) = RleDecode(e) \o [j \in 1 .. k |-> Current(e)]
          /\ f # <<>> => Decode(z) = f \o [j \in 1 .. k |-> [value |-> Last(f).value, trig |-> FALSE]]
      BY <2>6, <3>3, Zenon
    <3>6. Current(e) = v /\ Current(z) = v
      BY <2>4, <3>4, <3>5
    <3>7. RleDecode(z) = y
      <4>1. /\ x = RleDecode(e) \o [j \in 1 .. a |-> v]
            /\ RleDecode(z) = RleDecode(e) \o [j \in 1 .. k |-> v]
        BY <1>2, <3>4, <3>5, <3>6, Zenon
      <4> DEFINE V == Values \cup {"None"}
                 q == RleDecode(e)
      <4>2. q \in Seq(V) /\ v \in V /\ a \in Nat
        BY <2>3, ReplayLaws
      <4> HIDE DEF V, q
      <4>3. q \o [j \in 1 .. a + 1 |-> v] = Append(q \o [j \in 1 .. a |-> v], v)
        BY <4>2, CopiesGrow
      <4> QED
        BY <4>1, <4>3, Zenon DEF k, y, q
    <3>8. f # <<>>
      BY <2>4, <3>4 DEF d
    <3> DEFINE p == Last(f).value
               r == [value |-> p, trig |-> FALSE]
               t == [j \in 1 .. a |-> r]
    <3>9. d = f \o t /\ Decode(z) = f \o [j \in 1 .. k |-> r]
      BY <3>4, <3>5, <3>8 DEF d
    <3> HIDE DEF f
    <3>10. p \in Values /\ r \in Samples
      <4>1. Last(f) \in Samples
        BY <3>4, <3>8 DEF Last
      <4> QED
        BY <4>1 DEF Samples
    <3>16. r.value = p
      OBVIOUS
    <3> HIDE DEF p, r
    <3>11. t \in Seq(Samples) /\ Len(t) = a /\ t[a] = r
      BY <2>3, <3>2, <3>10
    <3> HIDE DEF t
    <3>12. d[n] = r
      <4>1. Len(f) + a = n /\ Len(f) \in Nat
        <5>1. Len(f \o t) = Len(f) + Len(t) /\ Len(f) \in Nat
          BY <3>4, <3>11, ConcatProperties
        <5> QED
          BY <1>6, <3>9, <3>11, <5>1
      <4>2. Len(f) + a \in 1 .. Len(f) + Len(t) /\ ~(Len(f) + a <= Len(f)) /\ Len(f) + a - Len(f) = a
        BY <2>3, <3>2, <3>11, <4>1
      <4>3. (f \o t)[Len(f) + a] = t[a]
        BY <3>4, <3>11, <4>2, ConcatProperties
      <4> QED
        BY <3>9, <3>11, <4>1, <4>3
    <3>13. r = one
      <4>1. p = v
        BY <2>4, <3>12, <3>16
      <4> QED
        BY <4>1 DEF r, one
    <3>14. Decode(z) = Append(d, one)
      <4>1. f \o [j \in 1 .. a + 1 |-> one] = Append(f \o [j \in 1 .. a |-> one], one)
        <5>1. a \in Nat /\ f \in Seq(Samples) /\ one \in Samples
          BY <1>4, <2>3, <3>4
        <5> QED
          BY <5>1, CopiesGrow
      <4> QED
        BY <3>9, <3>13, <4>1, Zenon DEF k, t
    <3>15. Len(z) <= n + 1
      BY <1>1, <1>2, <3>4, <3>5
    <3> QED
      BY <2>2, <3>6, <3>7, <3>14, <3>15
  <2> QED
    BY <2>7, <2>8
<1> QED
  BY <1>8, <1>9

\* decode(encode(x)) = x, for every stream.
LEMMA EncodingInverted == \A x \in Stream : Inverted(x)
<1> DEFINE All(n) == \A x \in Stream : Len(x) = n => Inverted(x)
           Good == {n \in Nat : All(n)}
<1>1. All(0)
  <2> SUFFICES ASSUME NEW x \in Stream, Len(x) = 0 PROVE Inverted(x)
    OBVIOUS
  <2>1. x = <<>>
    BY DEF Stream
  <2>2. RleEncode(x) = <<>>
    BY <2>1, EncodeTypes
  <2>3. <<>> \in Seq(Words) /\ Len(<<>>) = 0 /\ Plain(<<>>) = <<>>
    BY DEF Plain
  <2>4. RleDecode(<<>>) = <<>> /\ Decode(<<>>) = <<>>
    BY <2>3, ReplayLaws, DecodeLaws
  <2> QED
    BY <2>1, <2>2, <2>3, <2>4 DEF Inverted
<1>2. ASSUME NEW n \in Nat, All(n) PROVE All(n + 1)
  <2> SUFFICES ASSUME NEW y \in Stream, Len(y) = n + 1 PROVE Inverted(y)
    OBVIOUS
  <2> DEFINE x == [i \in 1 .. n |-> y[i]]
             v == y[n + 1]
             z == Append(x, v)
  <2>1. \A i \in 1 .. n + 1 : y[i] \in Values
    BY DEF Stream
  <2>2. /\ x \in Stream /\ Len(x) = n /\ v \in Values /\ \A i \in 1 .. n : x[i] = y[i]
    BY <2>1 DEF Stream
  <2> HIDE DEF x
  <2>3. z \in Stream /\ Len(z) = n + 1 /\ z[n + 1] = v /\ \A i \in 1 .. n : z[i] = y[i]
    BY <2>2 DEF Stream
  <2>4. \A i \in 1 .. Len(y) : y[i] = z[i]
    BY <2>3
  <2> HIDE DEF z, v
  <2>5. y = z
    BY <2>3, <2>4, SeqEqual DEF Stream
  <2>6. Inverted(x)
    BY <1>2, <2>2
  <2>7. Inverted(z)
    BY <2>2, <2>6, InvertStep DEF z
  <2> QED
    BY <2>5, <2>7
<1> HIDE DEF All
<1>3. \A n \in Nat : n \in Good => n + 1 \in Good
  BY <1>2
<1>4. Nat \subseteq Good
  BY <1>1, <1>3, SetInduction
<1>5. ASSUME NEW x \in Stream PROVE Inverted(x)
  <2>1. Len(x) \in Nat
    BY DEF Stream
  <2>2. All(Len(x))
    BY <1>4, <2>1
  <2> QED
    BY <2>2 DEF All
<1> QED
  BY <1>5

----------------------------------------------------------------------------
(* The encoder in the bench. *)

\* The count word of the run not yet emitted.
Owes == IF enable /\ acc # 0 THEN <<CountWord(acc)>> ELSE <<>>

\* What the words so far and the one owed are to be.
Golden(e, r) == IF e THEN RleEncode(Plain(r)) ELSE [i \in DOMAIN r |-> GoldenData(r[i].value)]

\* While the bench streams, acc is the length of the last run, counted up to
\* MaxRun.
BenchInv ==
  /\ stage \in {"streaming", "flushed"}
  /\ Emitted \o Owes = Golden(enable, raw)
  /\ ~enable => acc = 0
  /\ enable => /\ havePrev = (raw # <<>>)
               /\ raw # <<>> => prev = raw[Len(raw)].value
  /\ enable /\ stage = "streaming" =>
       /\ raw = <<>> => acc = 0
       /\ raw # <<>> => \E s : LastRun(Plain(raw), s) /\ acc = (Len(raw) - s) % MaxRun

\* A cycle's words are appended to those emitted.
LEMMA Emits ==
  ASSUME RleIInv, NEW produced \in Seq(Words), Len(produced) \in 0 .. 2,
         Len(pend) + Len(produced) <= 2, Emit(produced)
  PROVE  Emitted' = Emitted \o produced /\ Emitted \in Seq(Words)
<1>1. pend \in Seq(Words) /\ Len(pend) <= 1 /\ out \in Seq(Words)
  BY Zenon DEF RleIInv, RleTypeOK
<1> QED
  BY <1>1, EmitInOrder

\* The word owed is a word.
LEMMA OwesTypes ==
  ASSUME RleIInv
  PROVE  /\ acc \in Nat /\ acc < MaxRun /\ MaxRun \in Nat \ {0}
         /\ Owes \in Seq(Words) /\ Len(Owes) \in 0 .. 1
         /\ Len(pend) + Len(Owes) <= 2 /\ (acc = 0 => Owes = <<>>) /\ (~enable => Owes = <<>>)
         /\ enable /\ acc # 0 => Owes = <<CountWord(acc)>> /\ CountWord(acc) \in Words
<1>1. pend \in Seq(Words) /\ Len(pend) <= 1 /\ acc \in 0 .. MaxRun - 1
  BY Zenon DEF RleIInv, RleTypeOK
<1>2. acc \in Nat /\ acc < MaxRun /\ MaxRun \in Nat \ {0} /\ (acc # 0 => acc \in 1 .. MaxRun)
  BY <1>1, MaxRunAssumption
<1>3. acc # 0 => CountWord(acc) \in Words
  BY <1>2, WordTypes
<1>4. Len(pend) \in Nat
  BY <1>1
<1>5. CASE enable /\ acc # 0
  <2>1. Owes = <<CountWord(acc)>>
    BY <1>5 DEF Owes
  <2>2. Owes \in Seq(Words) /\ Len(Owes) = 1
    BY <1>3, <1>5, <2>1
  <2> QED
    BY <1>1, <1>2, <1>3, <1>4, <1>5, <2>1, <2>2
<1>6. CASE ~(enable /\ acc # 0)
  <2>1. Owes = <<>>
    BY <1>6 DEF Owes
  <2>2. Owes \in Seq(Words) /\ Len(Owes) = 0
    BY <2>1
  <2> QED
    BY <1>1, <1>2, <1>4, <1>6, <2>1, <2>2
<1> QED
  BY <1>5, <1>6

\* One repeat more, and counting begins anew after MaxRun.
LEMMA NextRest ==
  ASSUME NEW t \in Nat
  PROVE  /\ (t + 1) % MaxRun = IF t % MaxRun = MaxRun - 1 THEN 0 ELSE (t % MaxRun) + 1
         /\ 0 % MaxRun = 0
<1> DEFINE M == MaxRun
<1>1. M \in Nat \ {0}
  BY MaxRunAssumption
<1>2. PICK q \in Nat, a \in 0 .. M - 1 : t = q * M + a
  BY <1>1, HasPlace
<1>3. \A x, y, z \in Nat : z < y => (x * y + z) % y = z
  BY Z3
<1>4. a \in Nat /\ M \in Nat /\ a < M /\ 0 < M /\ q * M \in Nat
  BY <1>1, <1>2, Products
<1>5. t % M = a
  BY <1>2, <1>3, <1>4, Zenon
<1>6. 0 % M = 0
  <2>1. (0 * M + 0) % M = 0
    BY <1>3, <1>4, 0 \in Nat, Zenon
  <2>2. 0 * M + 0 = 0
    BY <1>1, Products
  <2> QED
    BY <2>1, <2>2
<1>7. CASE a = M - 1
  <2> DEFINE p == q + 1
  <2>1. t + 1 = p * M + 0 /\ p \in Nat
    <3>1. (q + 1) * M = q * M + M
      BY <1>1, Products
    <3> QED
      BY <1>2, <1>4, <1>7, <3>1
  <2>2. (p * M + 0) % M = 0
    BY <1>3, <1>4, <2>1, 0 \in Nat, Zenon
  <2> HIDE DEF p
  <2> QED
    BY <1>5, <1>6, <1>7, <2>1, <2>2, Zenon
<1>8. CASE a # M - 1
  <2> DEFINE b == a + 1
  <2>1. t + 1 = q * M + b /\ b \in Nat /\ b < M
    BY <1>2, <1>4, <1>8
  <2> HIDE DEF b
  <2>2. (q * M + b) % M = b
    BY <1>3, <1>4, <2>1, Zenon
  <2>3. (t + 1) % M = b
    BY <2>1, <2>2, Zenon
  <2> QED
    BY <1>5, <1>6, <1>8, <2>3 DEF b
<1> QED
  BY <1>7, <1>8

\* A repeat turns the word owed into the next one.
LEMMA NextOwed ==
  ASSUME NEW e \in Seq(Words), NEW w, NEW z, NEW a \in 0 .. MaxRun - 1,
         w = e \o (IF a # 0 THEN <<CountWord(a)>> ELSE <<>>), Recounts(w, z, a)
  PROVE  z = e \o <<CountWord(a + 1)>>
<1>1. CASE a = 0
  <2>1. w = e
    BY <1>1, ConcatEmptySeq
  <2> QED
    BY <1>1, <2>1 DEF Recounts
<1>2. CASE a # 0
  <2> DEFINE c == CountWord(a)
  <2>1. PICK u \in Seq(Words) : w = u \o <<c>> /\ z = u \o <<CountWord(a + 1)>>
    BY <1>2 DEF Recounts
  <2>2. c \in Words
    <3>1. a \in 1 .. MaxRun
      BY <1>2, MaxRunAssumption
    <3> QED
      BY <3>1, WordTypes
  <2> HIDE DEF c
  <2>3. u \o <<c>> = Append(u, c) /\ e \o <<c>> = Append(e, c)
    BY <2>2, AppendIsConcat
  <2>4. Append(u, c) = Append(e, c)
    BY <1>2, <2>1, <2>3 DEF c
  <2>5. u = e
    <3>1. Len(u) = Len(e) /\ Len(u) \in Nat
      <4>1. Len(Append(u, c)) = Len(u) + 1 /\ Len(Append(e, c)) = Len(e) + 1 /\ Len(u) \in Nat /\ Len(e) \in Nat
        BY <2>2
      <4> QED
        BY <2>4, <4>1
    <3>2. \A i \in 1 .. Len(u) : u[i] = e[i]
      <4>1. /\ \A i \in 1 .. Len(u) : Append(u, c)[i] = u[i]
            /\ \A i \in 1 .. Len(e) : Append(e, c)[i] = e[i]
        BY <2>2
      <4> QED
        BY <2>4, <3>1, <4>1
    <3> QED
      BY <3>1, <3>2, SeqEqual
  <2> QED
    BY <2>1, <2>5
<1> QED
  BY <1>1, <1>2

\* A sample of the bench.
LEMMA BenchSample ==
  ASSUME RleIInv, BenchInv, stage = "streaming", NEW s \in Samples, ~s.trig, Sample(s),
         stage' = stage
  PROVE  BenchInv'
<1> DEFINE x == Plain(raw)
           v == s.value
           n == Len(raw)
           W == RleEncode(x)
           y == Append(x, v)
           Z == RleEncode(y)
<1>1. enable \in BOOLEAN /\ havePrev \in BOOLEAN
  BY Zenon DEF RleIInv, RleTypeOK
<1>2. /\ prev \in Values /\ acc \in 0 .. MaxRun - 1
      /\ raw \in Seq(Samples) /\ n \in Nat
  <2>1. raw \in Seq(Samples)
    BY Zenon DEF RleIInv, RleTypeOK
  <2> QED
    BY <2>1, Zenon, LenProperties DEF RleIInv, RleTypeOK
<1>3. /\ Follow(s) /\ Emit(Produced(s)) /\ raw' = Append(raw, s) /\ enable' = enable
  BY DEF Sample
<1>4. Produced(s) \in Seq(Words) /\ Len(Produced(s)) \in 0 .. 2
  BY <1>1, <1>2, ProducedShape
<1>5. Emitted' = Emitted \o Produced(s) /\ Emitted \in Seq(Words)
  BY <1>3, <1>4, SkidHolds, Emits
<1>6. v \in Values /\ s.trig = FALSE /\ DataWord(s) = GoldenData(v) /\ DataWord(s) \in Words
  <2>1. s.value \in Values /\ s.trig \in BOOLEAN
    BY DEF Samples
  <2>2. DataWord(s) = GoldenData(v)
    BY <2>1, Zenon DEF DataWord, GoldenData
  <2> QED
    BY <2>1, <2>2, WordTypes
<1>7. /\ x \in Stream /\ Len(x) = n /\ Plain(raw') = y /\ (x = <<>> <=> raw = <<>>)
      /\ raw # <<>> => x[n] = raw[n].value
  <2>1. x \in Stream /\ Len(x) = n /\ \A k \in 1 .. n : x[k] = raw[k].value
    BY <1>2, PlainLaws DEF Stream
  <2>2. Plain(raw') = y
    BY <1>2, <1>3, PlainAppend
  <2>3. raw # <<>> => n \in 1 .. n
    BY <1>2
  <2>4. (x = <<>> <=> n = 0) /\ (raw = <<>> <=> n = 0)
    BY <1>2, <2>1 DEF Stream
  <2> QED
    BY <2>1, <2>2, <2>3, <2>4
<1>8. raw' # <<>> /\ Len(raw') = n + 1 /\ raw'[Len(raw')] = s /\ \A k \in 1 .. n : raw'[k] = raw[k]
  BY <1>2, <1>3
<1>9. /\ Emitted \o Owes = Golden(enable, raw)
      /\ ~enable => acc = 0
      /\ enable => havePrev = (raw # <<>>) /\ (raw # <<>> => prev = raw[n].value)
      /\ enable => /\ raw = <<>> => acc = 0
                   /\ raw # <<>> => \E k : LastRun(x, k) /\ acc = (n - k) % MaxRun
  BY DEF BenchInv
<1>10. /\ acc \in Nat /\ acc < MaxRun /\ MaxRun \in Nat \ {0} /\ Owes \in Seq(Words)
       /\ (acc = 0 => Owes = <<>>) /\ (~enable => Owes = <<>>)
       /\ enable /\ acc # 0 => Owes = <<CountWord(acc)>> /\ CountWord(acc) \in Words
  BY OwesTypes
<1> HIDE DEF x, v, y, n
<1>11. CASE ~enable
  <2>1. acc' = acc /\ Produced(s) = <<DataWord(s)>>
    BY <1>3, <1>11 DEF Follow, runState, Produced
  <2>2. acc = 0 /\ Owes = <<>>
    BY <1>9, <1>10, <1>11
  <2>3. Owes' = <<>>
    BY <1>3, <1>11 DEF Owes
  <2> DEFINE g == [i \in DOMAIN raw |-> GoldenData(raw[i].value)]
             h == [i \in DOMAIN raw' |-> GoldenData(raw'[i].value)]
  <2>4. Emitted = g
    <3>1. Emitted \o <<>> = Emitted
      BY <1>5, ConcatEmptySeq
    <3> QED
      BY <1>9, <1>11, <2>2, <3>1 DEF Golden
  <2>5. Len(g) = n /\ \A i \in 1 .. n : g[i] = GoldenData(raw[i].value)
    <3>1. DOMAIN raw = 1 .. n /\ n \in Nat
      BY <1>2 DEF n
    <3> QED
      BY <1>5, <2>4, <3>1
  <2> HIDE DEF g
  <2>6. Append(g, DataWord(s)) = h
    <3> DEFINE q == Append(g, DataWord(s))
    <3>1. /\ q \in Seq(Words) /\ Len(q) = n + 1 /\ q[n + 1] = GoldenData(v)
          /\ \A i \in 1 .. n : q[i] = GoldenData(raw[i].value)
      BY <1>2, <1>5, <1>6, <2>4, <2>5
    <3>2. DOMAIN raw' = 1 .. n + 1
      <4>1. raw' \in Seq(Samples)
        BY <1>2, <1>3
      <4> QED
        BY <1>8, <4>1
    <3> HIDE DEF q
    <3>3. \A i \in 1 .. n + 1 : q[i] = GoldenData(raw'[i].value)
      <4> SUFFICES ASSUME NEW i \in 1 .. n + 1 PROVE q[i] = GoldenData(raw'[i].value)
        OBVIOUS
      <4>1. i \in 1 .. n \/ i = n + 1
        BY <1>2
      <4>2. i \in 1 .. n => raw'[i] = raw[i]
        BY <1>8
      <4>3. i = n + 1 => raw'[i].value = v
        BY <1>8 DEF v
      <4> QED
        BY <3>1, <4>1, <4>2, <4>3
    <3>4. q = [i \in 1 .. n + 1 |-> q[i]]
      BY <3>1
    <3> QED
      BY <3>2, <3>3, <3>4 DEF q
  <2>7. Emitted' = h
    <3>1. Emitted \o <<DataWord(s)>> = Append(Emitted, DataWord(s))
      BY <1>5, <1>6, AppendIsConcat
    <3> QED
      BY <1>5, <2>1, <2>4, <2>6, <3>1
  <2>8. Emitted' \o Owes' = Golden(enable', raw')
    <3>1. Emitted' \in Seq(Words)
      BY <1>4, <1>5
    <3>2. Emitted' \o <<>> = Emitted'
      BY <3>1, ConcatEmptySeq
    <3> QED
      BY <1>3, <1>11, <2>3, <2>7, <3>2 DEF Golden
  <2>9. acc' = 0 /\ ~enable' /\ stage' = "streaming"
    BY <1>3, <1>11, <2>1, <2>2
  <2> QED
    BY <2>8, <2>9 DEF BenchInv
<1>12. CASE enable
  <2> USE <1>12
  <2>1. W = Emitted \o Owes /\ W \in Seq(Words)
    BY <1>7, <1>9, EncodeTypes DEF Golden, x
  <2>2. havePrev' = TRUE /\ enable' = TRUE /\ stage' = "streaming"
    BY <1>1, <1>3 DEF Follow
  <2>3. prev' = v
    BY <1>3, Zenon DEF Follow, Repeats, v
  <2>4. /\ acc' = IF ~Repeats(s) \/ acc = MaxRun - 1 THEN 0 ELSE acc + 1
        /\ Repeats(s) = (raw # <<>> /\ x[n] = v)
    <3>1. acc' = IF ~Repeats(s) \/ acc = MaxRun - 1 THEN 0 ELSE acc + 1
      BY <1>3, Zenon DEF Follow
    <3>2. Repeats(s) <=> raw # <<>> /\ x[n] = v
      BY <1>6, <1>7, <1>9 DEF Repeats, v
    <3>3. Repeats(s) \in BOOLEAN
      BY <1>1 DEF Repeats
    <3> QED
      BY <3>1, <3>2, <3>3
  \* What is left to show in either case.
  <2>5. SUFFICES /\ Emitted' \o Owes' = Z
                 /\ \E k : LastRun(y, k) /\ acc' = ((n + 1) - k) % MaxRun
    <3> SUFFICES ASSUME Emitted' \o Owes' = Z,
                        \E k : LastRun(y, k) /\ acc' = ((n + 1) - k) % MaxRun
                 PROVE  BenchInv'
      OBVIOUS
    <3>1. Golden(enable', raw') = Z
      BY <1>7, <2>2 DEF Golden
    <3>2. havePrev' = (raw' # <<>>)
      BY <1>8, <2>2
    <3>3. prev' = raw'[Len(raw')].value
      BY <1>8, <2>3 DEF v
    <3>4. \E k : LastRun(Plain(raw'), k) /\ acc' = (Len(raw') - k) % MaxRun
      BY <1>7, <1>8
    <3> HIDE DEF Z
    <3> QED
      BY <1>8, <2>2, <3>1, <3>2, <3>3, <3>4, Zenon DEF BenchInv
  <2>6. CASE ~Repeats(s)
    <3>1. Emitted \o Produced(s) = W \o <<DataWord(s)>>
      <4>1. CASE acc = 0
        <5>1. Produced(s) = <<DataWord(s)>>
          BY <2>6, <4>1 DEF Produced
        <5>2. W = Emitted
          BY <1>5, <1>10, <2>1, <4>1, ConcatEmptySeq
        <5> QED
          BY <5>1, <5>2
      <4>2. CASE acc # 0
        <5>1. havePrev
          BY <1>9, <4>2
        <5>2. Produced(s) = <<CountWord(acc), DataWord(s)>>
          BY <2>6, <4>2, <5>1 DEF Produced
        <5> DEFINE c == CountWord(acc)
                   d == DataWord(s)
        <5>3. c \in Words /\ d \in Words /\ Owes = <<c>>
          BY <1>6, <1>10, <4>2
        <5>4. Produced(s) = <<c, d>>
          BY <5>2
        <5> HIDE DEF c, d
        <5>5. <<c, d>> = <<c>> \o <<d>>
          <6>1. <<c, d>> \in Seq(Words) /\ Len(<<c, d>>) = 2 /\ <<c, d>>[1] = c /\ <<c, d>>[2] = d
            BY <5>3
          <6> DEFINE q == <<c, d>>
          <6>2. q = <<q[1]>> \o <<q[2]>>
            BY <6>1, ShortQueues
          <6> QED
            BY <6>1, <6>2
        <5>6. <<c>> \in Seq(Words) /\ <<d>> \in Seq(Words)
          BY <5>3
        <5>7. Emitted \o (<<c>> \o <<d>>) = (Emitted \o <<c>>) \o <<d>>
          <6>1. Regroups(Emitted, <<c>>, <<d>>)
            BY <1>5, <5>6, WordsRegroup
          <6> QED
            BY <6>1 DEF Regroups
        <5> QED
          BY <2>1, <5>3, <5>4, <5>5, <5>7 DEF d
      <4> QED
        BY <4>1, <4>2
    <3>2. x # <<>> => x[Len(x)] # v
      BY <1>7, <2>4, <2>6
    <3>3. Z = W \o <<DataWord(s)>> /\ LastRun(y, n + 1)
      BY <1>6, <1>7, <3>2, EncodeNew DEF y
    <3>4. acc' = 0 /\ Owes' = <<>>
      BY <2>4, <2>6 DEF Owes
    <3>5. Z \in Seq(Words)
      BY <1>6, <2>1, <3>3
    <3>6. Emitted' \o Owes' = Z
      BY <1>5, <3>1, <3>3, <3>4, <3>5, ConcatEmptySeq
    <3>7. acc' = ((n + 1) - (n + 1)) % MaxRun
      <4>1. (n + 1) - (n + 1) = 0
        BY <1>2 DEF n
      <4>2. 0 % MaxRun = 0
        BY NextRest, 0 \in Nat
      <4> QED
        BY <3>4, <4>1, <4>2
    <3> HIDE DEF Z, W
    <3> QED
      BY <3>3, <3>6, <3>7
  <2>7. CASE Repeats(s)
    <3>1. raw # <<>> /\ x # <<>> /\ x[Len(x)] = v /\ havePrev
      BY <1>7, <1>9, <2>4, <2>7
    <3>2. PICK k : LastRun(x, k) /\ acc = (n - k) % MaxRun
      BY <1>9, <3>1
    <3>3. Recounts(W, Z, acc) /\ LastRun(y, k)
      BY <1>6, <1>7, <3>1, <3>2, EncodeRepeat DEF y
    <3>4. Z = Emitted \o <<CountWord(acc + 1)>>
      <4>1. W = Emitted \o (IF acc # 0 THEN <<CountWord(acc)>> ELSE <<>>)
        BY <1>10, <2>1
      <4> HIDE DEF W, Z
      <4> QED
        BY <1>2, <1>5, <3>3, <4>1, NextOwed
    <3>5. acc' = ((n + 1) - k) % MaxRun
      <4> DEFINE t == n - k
      <4>1. t \in Nat /\ (n + 1) - k = t + 1
        BY <1>2, <1>7, <3>2 DEF LastRun, n
      <4>2. acc = t % MaxRun
        BY <3>2
      <4> HIDE DEF t
      <4>3. (t + 1) % MaxRun = IF t % MaxRun = MaxRun - 1 THEN 0 ELSE (t % MaxRun) + 1
        BY <4>1, NextRest
      <4>4. acc' = IF acc = MaxRun - 1 THEN 0 ELSE acc + 1
        BY <2>4, <2>7
      <4> QED
        BY <4>1, <4>2, <4>3, <4>4, Zenon
    <3>6. Emitted' \o Owes' = Z
      <4>1. CASE acc = MaxRun - 1
        <5>1. Produced(s) = <<CountWord(MaxRun)>>
          BY <2>7, <3>1, <4>1 DEF Produced
        <5>2. acc + 1 = MaxRun /\ acc' = 0
          BY <1>10, <2>4, <4>1
        <5>3. Owes' = <<>>
          BY <5>2 DEF Owes
        <5>4. Emitted' = Z /\ Z \in Seq(Words)
          <6>1. Emitted' = Z
            BY <1>5, <3>4, <5>1, <5>2
          <6>2. Emitted' \in Seq(Words)
            BY <1>4, <1>5
          <6> HIDE DEF Z
          <6> QED
            BY <6>1, <6>2
        <5> QED
          BY <5>3, <5>4, ConcatEmptySeq
      <4>2. CASE acc # MaxRun - 1
        <5>1. Produced(s) = <<>>
          BY <2>7, <3>1, <4>2 DEF Produced
        <5>2. acc' = acc + 1 /\ acc' # 0
          BY <1>10, <2>4, <2>7, <4>2
        <5>3. Owes' = <<CountWord(acc + 1)>>
          BY <2>2, <5>2 DEF Owes
        <5>4. Emitted' = Emitted
          BY <1>5, <5>1, ConcatEmptySeq
        <5> QED
          BY <3>4, <5>3, <5>4
      <4> QED
        BY <4>1, <4>2
    <3> HIDE DEF Z, W
    <3> QED
      BY <3>3, <3>5, <3>6
  <2> QED
    BY <2>6, <2>7
<1> QED
  BY <1>1, <1>11, <1>12

\* The flush of the bench.
LEMMA BenchFlush ==
  ASSUME RleIInv, BenchInv, Flush, stage' = "flushed"
  PROVE  BenchInv'
<1>1. /\ Emit(Owes) /\ acc' = (IF enable THEN 0 ELSE acc)
      /\ enable' = enable /\ havePrev' = havePrev /\ prev' = prev /\ raw' = raw
  BY DEF Flush, Owes
<1>2. Owes \in Seq(Words) /\ Len(Owes) \in 0 .. 2 /\ Len(pend) + Len(Owes) <= 2
  BY OwesTypes
<1>3. Emitted' = Emitted \o Owes /\ Emitted \in Seq(Words)
  BY <1>1, <1>2, Emits
<1>4. acc' = 0
  BY <1>1 DEF BenchInv
<1>5. Owes' = <<>>
  BY <1>4 DEF Owes
<1>6. Emitted' \o Owes' = Emitted'
  <2>1. Emitted' \in Seq(Words)
    BY <1>2, <1>3
  <2> QED
    BY <1>5, <2>1, ConcatEmptySeq
<1>7. Emitted' \o Owes' = Golden(enable', raw')
  BY <1>1, <1>3, <1>6 DEF BenchInv
<1> QED
  BY <1>1, <1>4, <1>7 DEF BenchInv

\* A cycle without a sample.
LEMMA BenchGap ==
  ASSUME RleIInv, BenchInv, Gap, stage' = stage
  PROVE  BenchInv'
<1>1. /\ Emit(<<>>) /\ enable' = enable /\ havePrev' = havePrev /\ prev' = prev /\ acc' = acc /\ raw' = raw
  BY DEF Gap, runState
<1>2. <<>> \in Seq(Words) /\ Len(<<>>) = 0
  OBVIOUS
<1>3. pend \in Seq(Words) /\ Len(pend) <= 1
  BY Zenon DEF RleIInv, RleTypeOK
<1>4. Emitted' = Emitted \o <<>> /\ Emitted \in Seq(Words)
  <2>1. Len(pend) \in Nat
    BY <1>3
  <2>2. Len(pend) + Len(<<>>) <= 2 /\ Len(<<>>) \in 0 .. 2
    BY <1>2, <1>3, <2>1
  <2> QED
    BY <1>1, <1>2, <2>2, Emits
<1>5. Emitted' = Emitted
  BY <1>4, ConcatEmptySeq
<1>6. Owes' = Owes
  BY <1>1 DEF Owes
<1> QED
  BY <1>1, <1>5, <1>6 DEF BenchInv

\* The bench begins with an encoder that has seen nothing.
LEMMA BenchBegins == BenchInit => RleIInv /\ BenchInv
<1> SUFFICES ASSUME BenchInit PROVE RleIInv /\ BenchInv
  OBVIOUS
<1>1. /\ enable \in BOOLEAN /\ havePrev = FALSE /\ prev \in Values /\ acc = 0
      /\ pend = <<>> /\ raw = <<>> /\ out = <<>> /\ mark = 0 /\ stage = "streaming"
  BY DEF BenchInit
<1>2. RleIInv
  <2>1. enable \in BOOLEAN /\ havePrev \in BOOLEAN
    BY <1>1, Zenon
  <2>2. /\ prev \in Values /\ acc \in 0 .. MaxRun - 1
        /\ pend \in Seq(Words) /\ Len(pend) <= 1
        /\ raw \in Seq(Samples) /\ out \in Seq(Words) /\ mark \in Nat
    BY <1>1, MaxRunAssumption
  <2>3. SkidExcludesRun /\ NeverExpands
    BY <1>1 DEF SkidExcludesRun, NeverExpands
  <2> QED
    BY <2>1, <2>2, <2>3, Zenon DEF RleIInv, RleTypeOK
<1>3. Emitted \o Owes = <<>>
  BY <1>1 DEF Emitted, Owes
<1>4. Golden(enable, raw) = <<>>
  <2>1. <<>> \in Stream /\ Plain(<<>>) = <<>>
    BY DEF Stream, Plain
  <2>2. RleEncode(<<>>) = <<>>
    BY <2>1, EncodeTypes
  <2>3. [i \in DOMAIN <<>> |-> GoldenData(<<>>[i].value)] = <<>>
    OBVIOUS
  <2> QED
    BY <1>1, <2>1, <2>2, <2>3 DEF Golden
<1> QED
  BY <1>1, <1>2, <1>3, <1>4 DEF BenchInv

\* Its every step keeps the invariant.
LEMMA BenchStep == RleIInv /\ BenchInv /\ [BenchNext]_benchVars => RleIInv' /\ BenchInv'
<1> SUFFICES ASSUME RleIInv, BenchInv, [BenchNext]_benchVars PROVE RleIInv' /\ BenchInv'
  OBVIOUS
<1>1. RleIInv'
  <2>1. [RleNext]_rleVars
    BY DEF BenchNext, benchVars, RleNext
  <2> QED
    BY <2>1, RleStepIInv
<1>2. ASSUME NEW s \in Samples, stage = "streaming", ~s.trig, Sample(s), UNCHANGED stage PROVE BenchInv'
  BY <1>2, BenchSample
<1>3. CASE Flush /\ stage' = "flushed"
  BY <1>1, <1>3, BenchFlush
<1>4. CASE Gap /\ UNCHANGED stage
  BY <1>1, <1>4, BenchGap
<1>5. CASE UNCHANGED benchVars
  BY <1>1, <1>5 DEF benchVars, rleVars, runState, BenchInv, Emitted, Owes, Golden
<1> QED
  BY <1>1, <1>2, <1>3, <1>4, <1>5 DEF BenchNext

\* In every state of the bench the RTL's words, with those it still holds, are
\* those of rle_encode for the samples so far, or one data word each in
\* bypass, and the golden decoder and the host's give the samples back
\* (tb_rle.sv 81-106, rle_selftest of scope_ref.py, rle.py 15-19).
THEOREM EncoderIsGolden == BenchSpec => [](stage # "off" /\ BenchAgrees)
<1>1. RleIInv /\ BenchInv => stage # "off" /\ BenchAgrees
  <2> SUFFICES ASSUME RleIInv, BenchInv PROVE stage # "off" /\ WordsAreGolden /\ DecodersInvertEncode
    BY DEF BenchAgrees
  <2>1. stage # "off"
    BY DEF BenchInv
  <2>2. out \in Seq(Words) /\ pend \in Seq(Words) /\ raw \in Seq(Samples)
    BY Zenon DEF RleIInv, RleTypeOK
  <2>3. Plain(raw) \in Stream /\ Len(Plain(raw)) = Len(raw)
    BY <2>2, PlainLaws DEF Stream
  <2>4. DecodersInvertEncode
    BY <2>3, EncodingInverted DEF DecodersInvertEncode, Inverted
  <2>5. WordsAreGolden
    <3>1. Emitted \o Owes = Golden(enable, raw)
      BY DEF BenchInv
    <3> QED
      BY <3>1, Zenon DEF WordsAreGolden, Emitted, Owes, Golden
  <2> QED
    BY <2>1, <2>4, <2>5
<1> QED
  BY <1>1, BenchBegins, BenchStep, PTL DEF BenchSpec
=============================================================================
