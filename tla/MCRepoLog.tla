----------------------------- MODULE MCRepoLog -----------------------------
(* A repo with two possible states, one context and four commits.          *)
EXTENDS RepoLog, TLC

CONSTANTS main, ctx, archive1, archive2, e1, e2, e3, e4, s1, s2

MCArchiveHead == s1 :> archive1 @@ s2 :> archive2
MCTurnOpened == [s \in Sem |-> NoTurn]
MCBatch == {<<[id |-> e1, sem |-> s1, publish |-> {}]>>}
MCSymmetry == Permutations({e1, e2, e3, e4})

=============================================================================
