---------------------------- MODULE MCScopeCore ----------------------------
(* The capture core for TLC. *)
EXTENDS ScopeCoreProperties, TLC

\* The registers are written before the first sample; sample numbers wrap, so
\* runs follow each other for ever.  The host may abort and reset the core at
\* any point of a run, and arm it while the sample number is below ArmsBelow.
ArmsBelow == 2
Running ==
  \/ \E v, t, a, d \in BOOLEAN :
       (a => now < ArmsBelow) /\ Edge(v, t, a, d)
  \/ \E v, d \in BOOLEAN : Reset(v, d)
  \/ /\ \A a \in Addresses : buf[a] = NoSample
     /\ \/ \E p \in Addresses : WritePretrig(p)
        \/ \E w \in 0 .. MaxWindows : WriteWindows(w)
MCSpec == Init /\ [][Running]_vars /\ Fairness
=============================================================================
