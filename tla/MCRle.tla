------------------------------- MODULE MCRle -------------------------------
(* The run-length encoder for TLC, in three settings: on its own with every *)
(* operation (encoder), in the bench against the golden model (bench), and  *)
(* in front of the capture core (capture).                                  *)
EXTENDS RleCapture, ScopeRleBench

VARIABLE setting

traces == <<first, owed>>

MCInit ==
  /\ CaptureInit
  /\ setting \in {"encoder", "bench", "capture"}
  /\ stage = IF setting = "bench" THEN "streaming" ELSE "off"
  /\ setting = "encoder" => ~enable

Encoder ==
  /\ RleReset \/ Flush \/ Gap \/ Switch
     \/ (Len(raw) < 6 /\ \E s \in Samples : Sample(s))
  /\ UNCHANGED <<vars, traces, stage>>

Bench == BenchNext /\ UNCHANGED <<vars, traces>>

\* The host strobes in the first samples, with runs aborted there and begun
\* anew.  Word numbers never wrap.  A cycle without a sample is left out where
\* it changes nothing.
Capturer ==
  /\ \/ \E a, d \in BOOLEAN :
          /\ a => st = "IDLE" /\ Len(raw) < 3
          /\ d => st \in Capturing /\ Len(raw) < 3
          /\ \/ \E s \in Samples : SampleCycle(s, a, d)
             \/ (pend # <<>> \/ st \in {"FILLING", "TRIGGERED"}) /\ IdleCycle(a, d)
     \/ \E p \in Addresses : Configure(p)
  /\ now' >= now
  /\ UNCHANGED stage

MCNext ==
  /\ \/ setting = "encoder" /\ Encoder
     \/ setting = "bench" /\ Bench
     \/ setting = "capture" /\ Capturer
  /\ UNCHANGED setting

MCSpec == MCInit /\ [][MCNext]_<<captureVars, stage, setting>>

\* The encoder only compares values for equality.
ValueSymmetry == Permutations(Values)

=============================================================================
