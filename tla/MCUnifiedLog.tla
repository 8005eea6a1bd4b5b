---------------------------- MODULE MCUnifiedLog ----------------------------
(* Two trajectories and a channel (the second trajectory may fork from the *)
(* first), three ids, two contents of which one opens a turn.              *)
EXTENDS UnifiedLog, TLC

CONSTANTS t1, t2, t3, c1, a, b, c, plain, opens, turn

Symmetry == Permutations({t1, t2, t3})

MCTurnOpened == [s \in {plain, opens} |-> IF s = opens THEN turn ELSE NoTurn]

Ev(i, s, P) == [id |-> i, sem |-> s, publish |-> P]

\* A published turn opening with a private event behind it; the private event
\* alone and before a published one; that one re-derived so that it opens the
\* same turn under its own id.
MCBatch ==
  {<<Ev(a, opens, {c1}), Ev(c, plain, {})>>,
   <<Ev(c, plain, {})>>,
   <<Ev(c, plain, {}), Ev(b, plain, {c1})>>,
   <<Ev(b, opens, {c1})>>}

=============================================================================
