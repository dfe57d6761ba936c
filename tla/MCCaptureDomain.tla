-------------------------- MODULE MCCaptureDomain --------------------------
(* The capture clock domain for TLC. *)
EXTENDS CaptureDomainProperties, TLC

\* Registers are written before the first sample, and runs are of two windows.
\* CTRL strobes come one bit at a time; arm and disarm come while the sample
\* number is 0, a force and every kind of trigger at any time.  Qualification
\* comes with history to keep and without decimation.
Bits == {{}, {"force_trig"}} \cup (IF now = 0 /\ windows = 2 THEN {{"arm"}, {"disarm"}} ELSE {})
BeforeRuns == st = "IDLE" /\ \A a \in Addresses : buf[a] = NoSample

\* Inputs nothing reads in this state are not enumerated.
Hits == IF st = "ARMED" /\ ~fired THEN BOOLEAN ELSE {FALSE}
Matches == IF qualEn THEN BOOLEAN ELSE {TRUE}

Running ==
  \/ \E ctrl \in Bits, ext \in BOOLEAN, hit \in Hits, match \in Matches :
       Cycle(ctrl, ext, hit, match)
  \/ /\ BeforeRuns
     /\ \/ \E p \in {0, 2} : (qualEn => p = 2) /\ ConfigWrite(
             WritePretrig(p) /\ UNCHANGED sampling, FALSE, FALSE, TRUE)
        \/ ConfigWrite(
             WriteWindows(2) /\ UNCHANGED sampling, FALSE, FALSE, TRUE)
        \/ \E n \in 0 .. MaxDecim, q \in BOOLEAN :
             (q => n = 0 /\ pretrig = 2) /\ ConfigWrite(WriteSampling(n, q), FALSE, FALSE, TRUE)

\* The clock never stops; a step without a strobe recurs.  Nothing is assumed
\* of the triggers or of the host.
MCSpec ==
  /\ DomainInit /\ [][Running]_domainVars
  /\ WF_domainVars(\E ext, hit \in BOOLEAN : Cycle({}, ext, hit, TRUE))
=============================================================================
