---------------------------- MODULE MCScopeHost ----------------------------
(* Capture sessions for TLC. *)
EXTENDS ScopeHostProperties, TLC

VARIABLE scenario

ArmWait(pre) == ArmCommand(FALSE, TRUE, pre)

\* What the user starts in each scenario.  session, on a good line: one window,
\* with values that fit, that are truncated or clamped, and more windows than
\* fit, and --pretrig as the register has it.  waiting: a wait may end before
\* its answer comes.  losing, a library program on a bad line that goes on
\* after an exception.  readme: the documented command lines.
Session == {Config(1, NoSample), Config(3, 1), Config(5, 0), Config(NoSample, 3),
            ArmWait(0), ArmWait(1), ArmWait(3)}
Waiting == {<<StatusCall>>, ArmCommand(TRUE, FALSE, 0), <<Write("arm", 1), WaitDone>>}
Losing  == {<<Write("arm", 1), WaitDone>>, <<StatusCall, Drain(0)>>}
Readme  == {Config(1, 1), ArmWait(0)}
MCCommands == Session \cup Waiting \cup Losing \cup Readme

Scenarios ==
     "session" :> [commands |-> Session, started |-> 3, lost |-> 0, late |-> 0]
  @@ "waiting" :> [commands |-> Waiting, started |-> 3, lost |-> 0, late |-> 1]
  @@ "losing"  :> [commands |-> Losing,  started |-> 2, lost |-> 2, late |-> 1]
  @@ "readme"  :> [commands |-> Readme,  started |-> 2, lost |-> 0, late |-> 0]

Begin(c) ==
  /\ c \in Scenarios[scenario].commands /\ started < Scenarios[scenario].started
  /\ scenario = "session" /\ Arms(c[1]) => c = ArmWait(pretrig)
  /\ Start(c)

\* Steps of the scenario.
Within(A) ==
  /\ A
  /\ lost' <= Scenarios[scenario].lost /\ late' <= Scenarios[scenario].late
  /\ UNCHANGED scenario

\* Where frames are late or lost the core takes a sample in every cycle and
\* triggers at once: what matters there is when a window ends.
Ticks ==
  /\ Clock
  /\ scenario \in {"waiting", "losing"} /\ st \in Capturing => now' # now /\ {st, st'} # {"ARMED"}

MCNext == Within(Ticks \/ Engine \/ Spoil \/ HostStep \/ \E c \in Commands : Begin(c))

Among(names) == HostInit /\ scenario \in names

\* The engine answers, and the host's loops have deadlines.
MCFairness == /\ WF_<<hostVars, scenario>>(Within(Engine))
              /\ WF_<<hostVars, scenario>>(Within(HostStep))

MCSpec == /\ Among({"session", "waiting", "losing"})
          /\ [][MCNext]_<<hostVars, scenario>>
          /\ MCFairness
MCReadmeSpec == Among({"readme"}) /\ [][MCNext]_<<hostVars, scenario>>
MCLosingSpec == Among({"losing"}) /\ [][MCNext]_<<hostVars, scenario>>
=============================================================================
