--------------------------- MODULE MCChannelCalls ---------------------------
(* Instances of ChannelCalls for TLC.                                      *)
EXTENDS ChannelCalls

CONSTANTS c1, c2, h1, h2

\* A call, and an answer that may come at any time.
Answered ==
  [calls |-> 1, answers |-> 1, progress |-> 0, cancels |-> 0, leaves |-> 0, posts |-> 0,
   crashes |-> 0, faults |-> 0]
Unheeded == [Answered EXCEPT !.answers = 0]

\* The call is driven again, cancelled, cut off by a crash or a failure of the
\* store; or nobody answers, and the target leaves, reports progress, or
\* something else is published.
CallScenarios ==
  {[Answered EXCEPT !.calls = 2], [Answered EXCEPT !.cancels = 1],
   [Answered EXCEPT !.crashes = 1], [Answered EXCEPT !.faults = 1],
   [Unheeded EXCEPT !.leaves = 1], [Unheeded EXCEPT !.progress = 1],
   [Unheeded EXCEPT !.posts = 1]}

\* Two calls and a crash.
MaskScenarios == {[Unheeded EXCEPT !.calls = 2, !.crashes = 1]}
=============================================================================
