----------------------------- MODULE RleCapture -----------------------------
(***************************************************************************)
(* rtl/scope_top.sv with RLE_EN = 1: the encoder feeds the capture core.   *)
(* The core stores words, its counters and PRETRIG count words, and it sees *)
(* a word in the cycle the encoder emits it, which for a word that waited   *)
(* in the skid is a cycle after its sample.  The host reorders the words    *)
(* and then decodes them (decode_drain of host/fpgapa_scope/scope.py, main  *)
(* of fpga/axc3000/reconstruct.py).  One step is one clock edge.            *)
(*                                                                          *)
(* The core numbers the words offered to it while capturing; out has them   *)
(* all, so word number n of a run is out[first + n].                        *)
(***************************************************************************)
EXTENDS ScopeCore, ScopeRleProperties, ReorderWindow

VARIABLES
  first,      \* history: word 0 would have this place in out
  owed        \* history: a trigger sample came while the core was ARMED

captureVars == <<vars, rleVars, first, owed>>

----------------------------------------------------------------------------
(* The wiring. *)

\* Defects the checks must notice: the trigger goes to the core directly, the
\* word that carries it through the skid; the skid keeps no tag.
FeedUnaligned(produced, a, d) ==
  LET queue == pend \o produced
  IN Edge(queue # <<>>, \E i \in DOMAIN produced : produced[i].trig, a, d)
FeedUntaggedSkid(produced, a, d) ==
  LET queue == pend \o produced
  IN Edge(queue # <<>>, pend = <<>> /\ queue # <<>> /\ queue[1].trig, a, d)

\* The core's step on the word the encoder emits, if any.
Feed(produced, a, d) ==
  LET queue == pend \o produced
  IN Edge(queue # <<>>, queue # <<>> /\ queue[1].trig, a, d)

\* Where word 0 of the run will be, and what has come for it.
Trace(produced) ==
  IF st \notin Capturing /\ st' = "FILLING"
  THEN first' = Len(out') + 1 - now /\ owed' = FALSE
  ELSE /\ owed' = (owed \/ (st = "ARMED" /\ \E i \in DOMAIN produced : produced[i].trig))
       /\ UNCHANGED first

CaptureInit ==
  /\ Init
  /\ enable \in BOOLEAN
  /\ havePrev = FALSE /\ prev \in Values /\ acc = 0
  /\ pend = <<>> /\ raw = <<>> /\ out = <<>> /\ mark = 0
  /\ first = 1 /\ owed = FALSE

\* A cycle with a sample and one without.
SampleCycle(s, a, d) == Sample(s) /\ Feed(Produced(s), a, d) /\ Trace(Produced(s))
IdleCycle(a, d) == Gap /\ Feed(<<>>, a, d) /\ Trace(<<>>)

\* PRETRIG and RLE_CTRL are written before the first sample.
Configure(p) ==
  /\ raw = <<>>
  /\ WritePretrig(p)
  /\ UNCHANGED <<rleVars, first, owed>>

CaptureNext ==
  \/ \E a, d \in BOOLEAN :
       \/ \E s \in Samples : SampleCycle(s, a, d)
       \/ IdleCycle(a, d)
  \/ \E p \in Addresses : Configure(p)

CaptureSpec == CaptureInit /\ [][CaptureNext]_captureVars

----------------------------------------------------------------------------
(* The host. *)

Word(n) == out[first + n]

\* Stored words in chronological order, and the place of the trigger word.
OrderedWords ==
  LET stored  == [a \in Addresses |-> Word(buf[a])]
      ordered == Ordered(stored, Depth, trigIndex, wrapped, runPre)
  IN [i \in 1 .. Depth |-> ordered[i - 1]]

\* The raw samples before the trigger word.
DecodedTrigPos ==
  Len(Decode(SubSeq(OrderedWords, 1, TrigPos(trigIndex, wrapped, runPre))))

----------------------------------------------------------------------------
\* How many raw samples the words up to number n stand for: the place in raw
\* of the last sample of word n.
RawIndex(n) == Len(Decode(SubSeq(out, 1, first + n)))

\* A finished run decodes to consecutive raw samples, up to the last sample
\* of the newest stored word; at trig_pos is the sample of the word the core
\* accepted as trigger, and it is one the trigger was raised with.  This
\* although the ring may begin in the middle of a run of repeats, the last
\* run is cut off and the core sees a word later than its sample (DESIGN.md
\* 211-240, scope.py 56-65).
CaptureDecodes ==
  st = "DONE" =>
    LET samples == Plain(Decode(OrderedWords))
        newest  == RawIndex(CHOOSE n \in {buf[a] : a \in Addresses} :
                              \A a \in Addresses : buf[a] <= n)
        before  == newest - Len(samples)
    IN /\ samples = SubSeq(Plain(raw), before + 1, newest)
       /\ before + DecodedTrigPos + 1 = RawIndex(tsAtTrig)
       /\ raw[RawIndex(tsAtTrig)].trig

\* The sequencer fires once per run.  Once a trigger sample has come while
\* the core was ARMED, the core has left ARMED or its word is in the skid and
\* goes to the core next (scope_rle.sv 118-149, scope_top.sv 179-199).
TriggerNeverLost == owed /\ st = "ARMED" => pend # <<>> /\ pend[1].trig
=============================================================================
