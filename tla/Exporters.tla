----------------------------- MODULE Exporters -----------------------------
(***************************************************************************)
(* What becomes of a decoded capture: the names of host/fpgapa_scope/      *)
(* probes.py, the VCD file of vcd.py, the sigrok session of sigrok.py and  *)
(* the view around the trigger of fpga/axc3000/reconstruct.py.             *)
(*                                                                         *)
(* A sample is the set of its bits that are 1, so a group of bits is cut   *)
(* out by intersection.  The VCD writer runs over the capture, one step    *)
(* per sample; the other exports are functions of the samples.             *)
(***************************************************************************)
EXTENDS Integers, Sequences, SequencesExt

CONSTANTS
  ProbeW,        \* probe width
  Palette,       \* samples
  Mappings,      \* probes.json files: sequences of [name, range], as in a dict
  MaxSamples,    \* length of a capture
  IdentBase,     \* printable characters of an identifier code (94)
  ByteW,         \* bits of a byte (8)
  NoTrigger      \* trig_pos is None

\* The names of a file are the keys of a dict, and none is one that the
\* writers use; its ranges are within the probe.
ASSUME ExportsAssumption ==
  /\ {ProbeW, IdentBase, ByteW} \subseteq Nat \ {0} /\ MaxSamples \in Nat /\ NoTrigger \notin Nat
  /\ Palette \subseteq SUBSET (0 .. ProbeW - 1)
  /\ \A mapping \in Mappings :
       /\ mapping \in Seq([name : {mapping[i].name : i \in DOMAIN mapping},
                          range : (0 .. ProbeW - 1) \X (0 .. ProbeW - 1)])
       /\ \A i, j \in DOMAIN mapping : mapping[i].name = mapping[j].name => i = j
       /\ \A i \in DOMAIN mapping :
            mapping[i].name \notin {<<"trig">>} \cup {<<"probe", k>> : k \in 0 .. ProbeW - 1}

VARIABLES
  sigs,      \* the signals of the mapping in use
  trigPos, samples,
  prev,      \* value last written for a name
  vcd        \* the body of the file: value changes with their time

exportVars == <<sigs, trigPos, samples, prev, vcd>>

----------------------------------------------------------------------------
(* probes.py *)

Bits(s) == s.lsb .. s.msb
Width(s) == s.msb - s.lsb + 1
Extract(s, sample) == {b - s.lsb : b \in sample \cap Bits(s)}

\* A range may be given either way round.
Named(entry) ==
  LET a == entry.range[1]  b == entry.range[2]
  IN [name |-> entry.name, msb |-> IF a > b THEN a ELSE b, lsb |-> IF a > b THEN b ELSE a]

Covered(groups) == UNION {Bits(g) : g \in groups}

\* The elements of s at the indices of keep, in their order.
Picked(s, keep) == FlattenSeq([i \in DOMAIN s |-> IF i \in keep THEN <<s[i]>> ELSE <<>>])

\* The named groups and then the bits they leave out.
Listed(mapping) ==
  LET groups  == [i \in DOMAIN mapping |-> Named(mapping[i])]
      covered == Covered({groups[i] : i \in DOMAIN groups})
      single  == [i \in 1 .. ProbeW |-> [name |-> <<"probe", i - 1>>, msb |-> i - 1, lsb |-> i - 1]]
  IN groups \o Picked(single, {i \in 1 .. ProbeW : i - 1 \notin covered})

\* By ascending lsb; the sort is stable.
LoadProbes(mapping) ==
  LET all == Listed(mapping)
  IN FlattenSeq([i \in 1 .. ProbeW |-> Picked(all, {j \in DOMAIN all : all[j].lsb = i - 1})])

----------------------------------------------------------------------------
(* vcd.py *)

\* The code of the i-th variable: bijective notation, least digit first.
Digits[n \in Nat] ==
  IF n = 0 THEN <<>> ELSE <<(n - 1) % IdentBase>> \o Digits[(n - 1) \div IdentBase]
Ident(i) == Digits[i + 1]

Code(i) == Ident(i - 1)
TrigCode == Ident(Len(sigs))

Change(time, code, value) == [time |-> time, code |-> code, value |-> value]

\* A defect: signals start at zero, so a first value of zero is left out.
ChangedFromZero(name, value) ==
  (IF name \in DOMAIN prev THEN prev[name] ELSE {}) # value

Changed(name, value) == name \notin DOMAIN prev \/ prev[name] # value

\* The changes of sample number t, the marker of the trigger last.
Changes(sample, t) ==
  LET trig  == IF trigPos # NoTrigger /\ t = trigPos THEN {0} ELSE {}
      wires == [i \in DOMAIN sigs |->
                  IF Changed(sigs[i].name, Extract(sigs[i], sample))
                  THEN <<Change(t, Code(i), Extract(sigs[i], sample))>> ELSE <<>>]
  IN FlattenSeq(wires) \o
     (IF Changed(<<"trig">>, trig) THEN <<Change(t, TrigCode, trig)>> ELSE <<>>)

\* One pass of the writer's loop.
WriteSample(sample) ==
  /\ Len(samples) < MaxSamples
  /\ LET t    == Len(samples)
         wires == {sigs[i] : i \in DOMAIN sigs}
         last(name) == IF name = <<"trig">> THEN IF t = trigPos THEN {0} ELSE {}
                       ELSE Extract(CHOOSE s \in wires : s.name = name, sample)
     IN /\ vcd' = vcd \o Changes(sample, t)
        /\ prev' = [n \in {s.name : s \in wires} \cup {<<"trig">>} |-> last(n)]
  /\ samples' = Append(samples, sample)
  /\ UNCHANGED <<sigs, trigPos>>

ExportInit ==
  /\ sigs \in {LoadProbes(mapping) : mapping \in Mappings}
  /\ trigPos \in 0 .. MaxSamples - 1 \cup {NoTrigger}
  /\ samples = <<>> /\ prev = <<>> /\ vcd = <<>>

ExportNext == \E sample \in Palette : WriteSample(sample)

ExportSpec == ExportInit /\ [][ExportNext]_exportVars

----------------------------------------------------------------------------
(* sigrok.py: a session is the channel names and the samples as bytes,     *)
(* least significant first.                                                *)

UnitSize == (ProbeW + ByteW - 1) \div ByteW

\* The name of bit k: that of the last group that has it.
BitName(k) ==
  LET having == {i \in DOMAIN sigs : k \in Bits(sigs[i])}
      s      == sigs[Max(having)]
  IN IF having = {} THEN <<<<"probe", k>>>>
     ELSE IF Width(s) = 1 THEN <<s.name>> ELSE <<s.name, k - s.lsb>>

SrBytes(sample) ==
  [j \in 1 .. UnitSize |-> {b \in 0 .. ByteW - 1 : (j - 1) * ByteW + b \in sample}]

SrFile ==
  [names |-> [k \in 0 .. ProbeW - 1 |-> BitName(k)],
   logic |-> FlattenSeq([i \in DOMAIN samples |-> SrBytes(samples[i])])]

----------------------------------------------------------------------------
(* reconstruct.py --around *)

Focus(around) ==
  LET lo == IF trigPos > around THEN trigPos - around ELSE 0
      hi == IF trigPos + around < Len(samples) THEN trigPos + around ELSE Len(samples)
  IN [samples |-> SubSeq(samples, lo + 1, hi), trigPos |-> trigPos - lo]

----------------------------------------------------------------------------
\* A reader that knows the header recovers every named group of every sample
\* from the value changes, and sees the trigger marker at trig_pos only; the
\* file's times never go back (vcd.py 1-6).  Codes of different variables
\* differ, or changes of one would be read as the other's.
VcdReplays ==
  LET reads(code, t, value) ==
        \E k \in DOMAIN vcd :
          /\ vcd[k].code = code /\ vcd[k].time <= t /\ vcd[k].value = value
          /\ \A m \in k + 1 .. Len(vcd) : vcd[m].code = code => vcd[m].time > t
  IN /\ \A i, j \in 1 .. Len(vcd) : i < j => vcd[i].time <= vcd[j].time
     /\ \A t \in 0 .. Len(samples) - 1 :
          /\ \A i \in DOMAIN sigs :
               reads(Code(i), t, Extract(sigs[i], samples[t + 1]))
          /\ reads(TrigCode, t, IF t = trigPos THEN {0} ELSE {})

\* The names cover the probe: from the groups of a sample every bit of it can
\* be told, so the two exports show the same (probes.py 27-28).
NamesCoverProbe ==
  \A t \in DOMAIN samples :
    samples[t] = UNION {{b + s.lsb : b \in Extract(s, samples[t])} :
                          s \in {sigs[i] : i \in DOMAIN sigs}}

\* Reading unitsize bytes per sample gives the samples back, and a channel
\* carries the bit of the group it is named after (sigrok.py 1-16).
SrReplays ==
  /\ Len(SrFile.logic) = UnitSize * Len(samples)
  /\ \A t \in DOMAIN samples, k \in 0 .. ProbeW - 1 :
       (k % ByteW \in SrFile.logic[(t - 1) * UnitSize + k \div ByteW + 1]) <=> (k \in samples[t])
  /\ \A k \in 0 .. ProbeW - 1 : \E i \in DOMAIN sigs :
       /\ k \in Bits(sigs[i]) /\ SrFile.names[k][1] = sigs[i].name
       /\ Width(sigs[i]) > 1 => SrFile.names[k][2] = k - sigs[i].lsb

\* However narrow the view around the trigger, the trigger sample stays in it
\* and trig_pos follows it (reconstruct.py 68-72).
FocusKeepsTrigger ==
  trigPos # NoTrigger /\ trigPos < Len(samples) =>
    \A around \in 1 .. MaxSamples :
      LET view == Focus(around)
      IN /\ view.trigPos + 1 \in DOMAIN view.samples
         /\ view.samples[view.trigPos + 1] = samples[trigPos + 1]

\* What a user gets of a capture, in any of its forms, is the capture.
ExportsReplay ==
  samples # <<>> => VcdReplays /\ NamesCoverProbe /\ SrReplays /\ FocusKeepsTrigger
=============================================================================
