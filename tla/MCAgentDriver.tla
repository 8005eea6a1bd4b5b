--------------------------- MODULE MCAgentDriver ---------------------------
(* Instances of AgentDriver for TLC: the scenarios of the runs, and the    *)
(* symmetry of flows.                                                      *)
EXTENDS AgentDriver

CONSTANTS m1, m2, m3, m4, t1, t2, f1, f2

\* One message, answered with a text; nothing else happens.
Calm ==
  [messages |-> {m1}, answers |-> {{}}, failures |-> {}, deliveries |-> 0, crashes |-> 0,
   expiries |-> 0, pauses |-> 0, wakes |-> 0]

\* A crash in a turn with a tool, while a second message arrives.
CrashScenarios == {[Calm EXCEPT !.messages = {m1, m2}, !.answers = {{}, {t1}}, !.crashes = 1]}

\* One flow: parallel tools and every way to fail; or messages that queue up,
\* a redelivery, a lease that runs out, a pause or a send-now; or a message
\* that comes while a call waits for a credential.
TurnScenarios ==
  {[Calm EXCEPT !.answers = {{}, {t1, t2}}, !.failures = {"retry", "suspend", "fatal", "reset"},
                !.pauses = 1, !.wakes = 1],
   [Calm EXCEPT !.messages = {m1, m2, m3}, !.deliveries = 1, !.expiries = 1, !.pauses = 1],
   [Calm EXCEPT !.messages = {m1, m4}, !.failures = {"suspend"}]}

\* Two flows: a crash and a wake; a suspended call and a pause; or two messages,
\* one of them delivered twice, and calls that fail.
FlowScenarios ==
  {[Calm EXCEPT !.crashes = 1, !.wakes = 1],
   [Calm EXCEPT !.answers = {}, !.failures = {"suspend"}, !.pauses = 1],
   [Calm EXCEPT !.messages = {m1, m2}, !.answers = {}, !.failures = {"fatal"}, !.deliveries = 1]}

\* Two messages.
PairScenarios == {[Calm EXCEPT !.messages = {m1, m2}]}

FlowSymmetry == Permutations(Flow)
=============================================================================
