------------------------------ MODULE RepoLog ------------------------------
(***************************************************************************)
(* The log of one version-controlled repo in the gad-store: the unified    *)
(* log's operations as the workspace VCS uses them, plus the three that    *)
(* break its append-only shape.  A head is a key; Main is the repo's live  *)
(* head, a context head forks from it, and deleting the repo renames Main  *)
(* to an archive head from which it can be restored.                       *)
(*                                                                         *)
(* An event's content is the worktree state it produces.  The name of an   *)
(* archive head is derived from the state being archived.                  *)
(***************************************************************************)
EXTENDS UnifiedLog

CONSTANTS
  Main,          \* the repo's live head
  Context,       \* the heads of editing contexts
  ArchiveHead,   \* ArchiveHead[s]: the head that archives a main at state s
  EmptyState     \* the state of a head without a worktree

Archive == {ArchiveHead[s] : s \in Sem}

ASSUME RepoHeads ==
  /\ ArchiveHead \in [Sem -> Trajectory]
  /\ {Main} \cup Context \cup Archive \subseteq Trajectory
  /\ Main \notin Context \cup Archive
  /\ Context \cap Archive = {}
  /\ EmptyState \notin Sem

VARIABLE worktree   \* the table gad_worktree_heads: the state of each head

repoVars == <<heads, rows, worktree>>

HasWorktree(k) == worktree[k] # EmptyState

\* Faulty: the event's id is recorded in place of its state.
IngestWorktreeStateEventId(k, expected, id, s) ==
  /\ expected = worktree[k]
  /\ \A r \in rows : r.id # id
  /\ AppendLogEvent(Reads, k, <<[id |-> id, sem |-> s, publish |-> {}]>>, NoExpectation, "exact")
  /\ worktree' = [worktree EXCEPT ![k] = id]

\* ingestWorktreeStateInTxn: compare-and-set on the worktree state, then an
\* append under a fresh event id, whose projection advances the worktree.
IngestWorktreeState(k, expected, id, s) ==
  /\ expected = worktree[k]
  /\ \A r \in rows : r.id # id
  /\ AppendLogEvent(Reads, k, <<[id |-> id, sem |-> s, publish |-> {}]>>, NoExpectation, "exact")
  /\ worktree' = [worktree EXCEPT ![k] = s]

\* forkContext: the child's worktree is folded from the history it inherits.
ForkContext(c) ==
  /\ Exists(Main)
  /\ ForkLog(Main, c, heads[Main].seq)
  /\ \E r \in View(Reads, Main) :
       r.seq = heads[Main].seq /\ worktree' = [worktree EXCEPT ![c] = r.sem]

\* Faulty: only the worktree goes.
DeleteLogHeadRefOnly(k) ==
  /\ Exists(k)
  /\ worktree' = [worktree EXCEPT ![k] = EmptyState]
  /\ UNCHANGED <<heads, rows>>

DeleteLogHead(k) ==
  /\ Exists(k)
  /\ heads' = [heads EXCEPT ![k] = NoHead]
  /\ rows' = {r \in rows : r.key # k}
  /\ worktree' = [worktree EXCEPT ![k] = EmptyState]

\* UPDATE ... SET head = to WHERE head = from, on heads, events and worktrees.
\* The hashes stay as they are.
Rekey(from, to) ==
  /\ heads' = [heads EXCEPT ![to] = heads[from], ![from] = NoHead]
  /\ rows' = {r \in rows : r.key # from} \cup
             {[r EXCEPT !.key = to] : r \in {q \in rows : q.key = from}}
  /\ worktree' = [worktree EXCEPT ![to] = worktree[from], ![from] = EmptyState]

\* Faulty: an archive made earlier at the same state is overwritten.
ArchiveRepoMainOver(a) ==
  /\ HasWorktree(Main)
  /\ heads' = [heads EXCEPT ![a] = heads[Main], ![Main] = NoHead]
  /\ rows' = {r \in rows : r.key \notin {Main, a}} \cup
             {[r EXCEPT !.key = a] : r \in {q \in rows : q.key = Main}}
  /\ worktree' = [worktree EXCEPT ![a] = worktree[Main], ![Main] = EmptyState]

\* Without a live main nothing happens; an archive head in use is an error.
ArchiveRepoMain(a) ==
  /\ HasWorktree(Main)
  /\ ~Exists(a) /\ ~HasWorktree(a)
  /\ Rekey(Main, a)

\* Faulty: a repo created at the path since the deletion is not looked for.
RestoreRepoMainOver(a) ==
  HasWorktree(a) /\ Rekey(a, Main)

RestoreRepoMain(a) ==
  /\ ~HasWorktree(Main)
  /\ HasWorktree(a)
  /\ Rekey(a, Main)

\* deleteRepo archives the main under the name its state gives.
DeleteRepo == HasWorktree(Main) /\ ArchiveRepoMain(ArchiveHead[worktree[Main]])

RepoInit == Init /\ worktree = [k \in Key |-> EmptyState]

RepoNext ==
  \/ \E k \in {Main} \cup Context, expected \in Sem \cup {EmptyState} :
       \E id \in EnvelopeId, s \in Sem : IngestWorktreeState(k, expected, id, s)
  \/ \E c \in Context : ForkContext(c)
  \/ \E c \in Context : DeleteLogHead(c)
  \/ DeleteRepo
  \/ \E a \in Archive : RestoreRepoMain(a)

RepoSpec == RepoInit /\ [][RepoNext]_repoVars

-----------------------------------------------------------------------------
RepoTypeOK == TypeOK /\ worktree \in [Key -> Sem \cup {EmptyState}]

\* The integrity check passes on the live heads through every sequence of
\* deleting the repo, creating another at its path and restoring the first.
LiveHeadsIntact == \A k \in {Main} \cup Context : HeadIntact(k)

\* archiveRepoMain's comment: moving only the head column is integrity-safe,
\* that is, the integrity check also passes on an archive head.
ArchivesIntact == \A a \in Archive : HeadIntact(a)

\* The worktree of a head is the state its last commit produced, also after
\* the log under it was renamed, deleted and created again.
WorktreeMatchesHead ==
  \A k \in {Main} \cup Context \cup Archive :
    /\ Exists(k) => \E cell \in heads[k].hash : cell[2] = heads[k].seq /\ cell[4] = worktree[k]
    /\ ~Exists(k) => ~HasWorktree(k)

\* The commit a context forked from is never lost while the context exists,
\* whether the repo is live, archived, or archived and replaced by another.
ForkPointsKept ==
  \A c \in Context : Parent(c) = Main =>
    \E r \in rows : r.key \in {Main} \cup Archive /\ r.hash = heads[c].forkHash

\* A main that stops being main is an archive head with the same history:
\* nothing a user does to the path overwrites it.
MainHistoryKept ==
  [][Exists(Main) =>
       \/ heads'[Main] # NoHead /\ heads[Main].hash \subseteq heads'[Main].hash
       \/ \E a \in Archive : heads'[a] = heads[Main]
                             /\ {r.hash : r \in OwnRows(Main)} = {r.hash : r \in OwnRows(a)'}]_repoVars

=============================================================================
