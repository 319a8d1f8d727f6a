--------------------------- MODULE BaseBranchProofs ---------------------------
(***************************************************************************)
(* What BaseBranch keeps for any number of tasks, of syncs, of wrap_up     *)
(* calls and of outside events.                                            *)
(***************************************************************************)
EXTENDS BaseBranch, SequenceTheorems, WellFoundedInduction, TLAPS

-----------------------------------------------------------------------------
(* Types, but for the histories and the flags.                             *)

Control ==
    /\ merges \in Nat /\ head \in {"base", "other"}
    /\ fin \in [Tasks -> FinishSteps \cup Over] /\ tries \in 0..MaxTries
    /\ syn \in [Syncs -> SyncSteps \cup Over]
    /\ asked \in Nat /\ outside \in 0..MaxOutside
    /\ strays \subseteq Tasks \X {"fetch", "merge"}
    /\ switched \subseteq Tasks \cup Syncs /\ left \subseteq LeftByMerge \cup LeftByRebase

(* Every command leaves the program counters and counters typed.         *)
LEMMA ControlStep ==
    ASSUME Control, [Next]_vars
    PROVE  Control'
<1> USE BaseAssumption DEF FinishSteps, SyncSteps, Over
<1>1. ASSUME NEW t \in Tasks, FinishStarts(t) PROVE Control'
  BY <1>1 DEF FinishStarts, Fin, Syn, Quiet, Control, histories, checkout, worktrees, drift
<1>2. ASSUME NEW t \in Tasks, FinishCheckClean(t) PROVE Control'
  BY <1>2 DEF FinishCheckClean, Fin, Syn, Quiet, Control, histories, checkout, worktrees, drift
<1>3. ASSUME NEW t \in Tasks, PullFetch(t) PROVE Control'
  BY <1>3 DEF PullFetch, FetchFails, Fin, Control, checkout, drift
<1>4. ASSUME NEW t \in Tasks, PullMerge(t) PROVE Control'
  <2>1. merges' \in Nat
    BY <1>4 DEF PullMerge, MergeLands, MergeConflicts, MergeRefused, Control, histories
  <2>2. fin' \in [Tasks -> FinishSteps \cup Over]
    BY <1>4 DEF PullMerge, Fin, Control
  <2>3. head' = head
    BY <1>4 DEF PullMerge, MergeLands, MergeConflicts, MergeRefused, checkout
  <2>4. left' \subseteq LeftByMerge \cup LeftByRebase
    BY <1>4 DEF PullMerge, Control, LeftByMerge
  <2>5. UNCHANGED <<tries, syn, strays, asked, outside, switched>>
    BY <1>4 DEF PullMerge, drift
  <2> QED
    BY <2>1, <2>2, <2>3, <2>4, <2>5 DEF Control
<1>5. ASSUME NEW t \in Tasks, Rebase(t) PROVE Control'
  BY <1>5 DEF Rebase, Fin, Control, histories, checkout, drift, LeftByRebase
<1>6. ASSUME NEW t \in Tasks, RebaseAborts(t) PROVE Control'
  BY <1>6 DEF RebaseAborts, Fin, Control, histories, checkout, drift, LeftByRebase
<1>7. ASSUME NEW t \in Tasks, FastForward(t) PROVE Control'
  BY <1>7 DEF FastForward, Forwarded, Fin, Control, histories, checkout
<1>8. ASSUME NEW t \in Tasks, FinishDies(t) PROVE Control'
  BY <1>8 DEF FinishDies, Forwarded, Fin, Control, histories, drift
<1>9. ASSUME NEW t \in Tasks, AgentCommits(t) PROVE Control'
  BY <1>9 DEF AgentCommits, Fin, Syn, Quiet, Control, histories, checkout, worktrees, drift
<1>10. ASSUME NEW s \in Syncs, SyncStarts(s) PROVE Control'
  BY <1>10 DEF SyncStarts, Fin, Syn, Quiet, Control, histories, checkout, worktrees, drift
<1>11. ASSUME NEW s \in Syncs, SyncCheckClean(s) PROVE Control'
  BY <1>11 DEF SyncCheckClean, Fin, Syn, Quiet, Control, histories, checkout, worktrees, drift
<1>12. ASSUME NEW s \in Syncs, SyncFetch(s) PROVE Control'
  BY <1>12 DEF SyncFetch, FetchFails, Syn, Control, checkout, drift
<1>13. ASSUME NEW s \in Syncs, SyncCount(s) PROVE Control'
  BY <1>13 DEF SyncCount, Fin, Syn, Quiet, Control, histories, checkout, worktrees, drift,
     Finished
<1>14. ASSUME NEW s \in Syncs, SyncMerge(s) PROVE Control'
  BY <1>14 DEF SyncMerge, Fin, Syn, Quiet, Control, histories, checkout, worktrees, drift,
     MergeLands, MergeConflicts, MergeRefused
<1>15. ASSUME NEW s \in Syncs, SyncAborts(s) PROVE Control'
  BY <1>15 DEF SyncAborts, Syn, Control, histories, drift, LeftByMerge
<1>16. ASSUME NEW s \in Syncs, SyncPush(s) PROVE Control'
  BY <1>16 DEF SyncPush, Fin, Syn, Quiet, Control, histories, checkout, worktrees, drift,
     Finished
<1>17. ASSUME NEW s \in Syncs, SyncDies(s) PROVE Control'
  <2>1. merges' \in Nat /\ head' = head
    <3>1. CASE MergeLands
      BY <3>1 DEF MergeLands, Control, checkout
    <3>2. CASE UNCHANGED <<merges, head>>
      BY <3>2 DEF Control
    <3> QED
      BY <1>17, <3>1, <3>2, Zenon DEF SyncDies, MergeKilled, MergeConflicts, histories, checkout
  <2>2. left' \subseteq LeftByMerge \cup LeftByRebase
    BY <1>17 DEF SyncDies, MergeKilled, Control, LeftByMerge
  <2>3. UNCHANGED <<fin, strays, tries, asked, outside, switched>>
    BY <1>17 DEF SyncDies, drift
  <2>4. syn' \in [Syncs -> SyncSteps \cup Over]
    BY <1>17 DEF SyncDies, Syn, Control
  <2> QED
    BY <2>1, <2>2, <2>3, <2>4 DEF Control
<1>18. CASE Measure
  BY <1>18 DEF Measure, Fin, Syn, Quiet, Control, histories, checkout, worktrees, drift
<1>19. CASE Measured
  BY <1>19 DEF Measured, Fin, Syn, Quiet, Control, histories, checkout, worktrees, drift
<1>20. CASE DispatchFetches
  BY <1>20 DEF DispatchFetches, Fin, Syn, Quiet, Control, histories, checkout, worktrees, drift
<1>21. CASE OthersPush
  BY <1>21 DEF OthersPush, Fin, Syn, Quiet, Control, histories, checkout, worktrees, drift
<1>22. CASE UserSwitches
  <2>1. Straying \subseteq Tasks
    BY DEF Straying, Control
  <2> QED
    BY <1>22, <2>1 DEF UserSwitches, Quiet, Control, histories, drift, InFlight
<1>23. CASE UserEdits
  BY <1>23 DEF UserEdits, Fin, Syn, Quiet, Control, histories, checkout, worktrees, drift
<1>24. CASE UNCHANGED vars
  BY <1>24 DEF vars, Fin, Syn, Quiet, Control, histories, checkout, worktrees, drift
<1>25. ASSUME NEW p \in strays, StrayEnds(p) PROVE Control'
  <2>1. merges' \in Nat /\ head' = head
    <3>1. CASE MergeLands
      BY <3>1 DEF MergeLands, Control, checkout
    <3>2. CASE UNCHANGED <<merges, head>>
      BY <3>2 DEF Control
    <3> QED
      BY <1>25, <3>1, <3>2, Zenon DEF StrayEnds, MergeConflicts, histories, checkout
  <2>2. left' \subseteq LeftByMerge \cup LeftByRebase
    BY <1>25 DEF StrayEnds, Control, LeftByMerge
  <2>3. UNCHANGED <<fin, syn, tries, asked, outside, switched>> /\ strays' \subseteq strays
    BY <1>25 DEF StrayEnds, drift
  <2> QED
    BY <2>1, <2>2, <2>3 DEF Control
<1> QED
  BY <1>1, <1>2, <1>3, <1>4, <1>5, <1>6, <1>7, <1>8, <1>9, <1>10, <1>11, <1>12, <1>13, <1>14,
     <1>15, <1>16, <1>17, <1>18, <1>19, <1>20, <1>21, <1>22, <1>23, <1>24, <1>25 DEF Next, Finish, Sync

(* The flags of the checkout and of the worktrees.                         *)
Flags ==
    /\ merging \in BOOLEAN /\ edited \in BOOLEAN /\ missed \in BOOLEAN
    /\ rebasing \in [Tasks -> BOOLEAN]

(* Every command leaves the flags of the checkout typed.                 *)
LEMMA FlagsStep ==
    ASSUME Flags, [Next]_vars
    PROVE  Flags'
<1>1. ASSUME NEW t \in Tasks, FinishStarts(t) PROVE Flags'
  BY <1>1, Zenon DEF FinishStarts, Quiet, Flags, histories, checkout, worktrees, drift
<1>2. ASSUME NEW t \in Tasks, FinishCheckClean(t) PROVE Flags'
  BY <1>2, Zenon DEF FinishCheckClean, Quiet, Flags, histories, checkout, worktrees, drift
<1>3. ASSUME NEW t \in Tasks, PullFetch(t) PROVE Flags'
  BY <1>3, Zenon DEF PullFetch, FetchFails, Untold, Flags, checkout, worktrees
<1>4. ASSUME NEW t \in Tasks, PullMerge(t) PROVE Flags'
  BY <1>4, Zenon DEF PullMerge, Quiet, Flags, histories, checkout, worktrees, drift, MergeLands,
     MergeConflicts, MergeRefused, Unnotified, Untold
<1>5. ASSUME NEW t \in Tasks, Rebase(t) PROVE Flags'
  BY <1>5, Zenon DEF Rebase, Quiet, Flags, histories, checkout, worktrees, drift, Unnotified,
     Untold
<1>6. ASSUME NEW t \in Tasks, RebaseAborts(t) PROVE Flags'
  BY <1>6, Zenon DEF RebaseAborts, Quiet, Flags, histories, checkout, worktrees, drift,
     Unnotified, Untold
<1>7. ASSUME NEW t \in Tasks, FastForward(t) PROVE Flags'
  BY <1>7, Zenon DEF FastForward, Quiet, Flags, histories, checkout, worktrees, drift,
     Unnotified, Untold
<1>8. ASSUME NEW t \in Tasks, FinishDies(t) PROVE Flags'
  BY <1>8, Zenon DEF FinishDies, Flags, worktrees, Untold
<1>9. ASSUME NEW t \in Tasks, AgentCommits(t) PROVE Flags'
  BY <1>9, Zenon DEF AgentCommits, Quiet, Flags, histories, checkout, worktrees, drift
<1>10. ASSUME NEW s \in Syncs, SyncStarts(s) PROVE Flags'
  BY <1>10, Zenon DEF SyncStarts, Quiet, Flags, histories, checkout, worktrees, drift
<1>11. ASSUME NEW s \in Syncs, SyncCheckClean(s) PROVE Flags'
  BY <1>11, Zenon DEF SyncCheckClean, Quiet, Flags, histories, checkout, worktrees, drift
<1>12. ASSUME NEW s \in Syncs, SyncFetch(s) PROVE Flags'
  BY <1>12, Zenon DEF SyncFetch, FetchFails, Untold, Flags, checkout, worktrees
<1>13. ASSUME NEW s \in Syncs, SyncCount(s) PROVE Flags'
  BY <1>13, Zenon DEF SyncCount, Quiet, Flags, histories, checkout, worktrees, drift, Finished,
     Unnotified, Untold
<1>14. ASSUME NEW s \in Syncs, SyncMerge(s) PROVE Flags'
  BY <1>14, Zenon DEF SyncMerge, Quiet, Flags, histories, checkout, worktrees, drift,
     MergeLands, MergeConflicts, MergeRefused
<1>15. ASSUME NEW s \in Syncs, SyncAborts(s) PROVE Flags'
  BY <1>15, Zenon DEF SyncAborts, Quiet, Flags, histories, checkout, worktrees, drift,
     Unnotified, Untold
<1>16. ASSUME NEW s \in Syncs, SyncPush(s) PROVE Flags'
  BY <1>16, Zenon DEF SyncPush, Quiet, Flags, histories, checkout, worktrees, drift, Finished,
     Unnotified, Untold
<1>17. ASSUME NEW s \in Syncs, SyncDies(s) PROVE Flags'
  BY <1>17, Zenon DEF SyncDies, MergeKilled, MergeLands, MergeConflicts, Flags, histories,
     checkout, worktrees, Untold
<1>18. CASE Measure
  BY <1>18, Zenon DEF Measure, Quiet, Flags, histories, checkout, worktrees, drift
<1>19. CASE Measured
  BY <1>19, Zenon DEF Measured, Quiet, Flags, histories, checkout, worktrees, drift
<1>20. CASE DispatchFetches
  BY <1>20, Zenon DEF DispatchFetches, Quiet, Flags, histories, checkout, worktrees, drift,
     Untold
<1>21. CASE OthersPush
  BY <1>21, Zenon DEF OthersPush, Quiet, Flags, histories, checkout, worktrees, drift
<1>22. CASE UserSwitches
  BY <1>22, Zenon DEF UserSwitches, Quiet, Flags, histories, checkout, worktrees, drift
<1>23. CASE UserEdits
  BY <1>23, Zenon DEF UserEdits, Quiet, Flags, histories, checkout, worktrees, drift
<1>24. CASE UNCHANGED vars
  BY <1>24 DEF vars, Flags, checkout, worktrees
<1>25. ASSUME NEW p \in strays, StrayEnds(p) PROVE Flags'
  BY <1>25, Zenon DEF StrayEnds, Flags, histories, checkout, worktrees, MergeLands,
     MergeConflicts, Untold
<1> QED
  BY <1>1, <1>2, <1>3, <1>4, <1>5, <1>6, <1>7, <1>8, <1>9, <1>10, <1>11, <1>12, <1>13, <1>14,
     <1>15, <1>16, <1>17, <1>18, <1>19, <1>20, <1>21, <1>22, <1>23, <1>24, <1>25 DEF Next, Finish, Sync

-----------------------------------------------------------------------------
(* An operation is under way on another branch only if the user switched   *)
(* branches under it.                                                      *)
Led ==
    /\ \A t \in Tasks : fin[t] \notin Over /\ head = "other" => t \in switched
    /\ \A s \in Syncs : syn[s] \notin Over /\ head = "other" => s \in switched
    /\ head = "other" => Straying \subseteq switched

(* Only a switch of branches takes the head from under an operation.     *)
LEMMA LedStep ==
    ASSUME Control, Led, [Next]_vars
    PROVE  Led'
<1> USE BaseAssumption DEF FinishSteps, SyncSteps, Over
<1>1. ASSUME NEW t \in Tasks, FinishStarts(t) PROVE Led'
  BY <1>1 DEF FinishStarts, Fin, Syn, Quiet, Control, Led, Straying, checkout
<1>2. ASSUME NEW t \in Tasks, FinishCheckClean(t) PROVE Led'
  BY <1>2 DEF FinishCheckClean, Fin, Syn, Quiet, Control, Led, Straying, checkout
<1>3. ASSUME NEW t \in Tasks, PullFetch(t) PROVE Led'
  BY <1>3 DEF PullFetch, Fin, Syn, Quiet, Control, Led, Straying, checkout
<1>4. ASSUME NEW t \in Tasks, PullMerge(t) PROVE Led'
  BY <1>4 DEF PullMerge, Fin, Syn, Quiet, Control, Led, Straying, checkout, MergeLands, MergeConflicts,
     MergeRefused
<1>5. ASSUME NEW t \in Tasks, Rebase(t) PROVE Led'
  BY <1>5 DEF Rebase, Fin, Syn, Quiet, Control, Led, Straying, checkout
<1>6. ASSUME NEW t \in Tasks, RebaseAborts(t) PROVE Led'
  BY <1>6 DEF RebaseAborts, Fin, Syn, Quiet, Control, Led, Straying, checkout
<1>7. ASSUME NEW t \in Tasks, FastForward(t) PROVE Led'
  BY <1>7 DEF FastForward, Fin, Syn, Quiet, Control, Led, Straying, checkout
<1>8. ASSUME NEW t \in Tasks, FinishDies(t) PROVE Led'
  BY <1>8 DEF FinishDies, Fin, Syn, Quiet, Control, Led, Straying, checkout
<1>9. ASSUME NEW t \in Tasks, AgentCommits(t) PROVE Led'
  BY <1>9 DEF AgentCommits, Fin, Syn, Quiet, Control, Led, Straying, checkout
<1>10. ASSUME NEW s \in Syncs, SyncStarts(s) PROVE Led'
  BY <1>10 DEF SyncStarts, Fin, Syn, Quiet, Control, Led, Straying, checkout
<1>11. ASSUME NEW s \in Syncs, SyncCheckClean(s) PROVE Led'
  BY <1>11 DEF SyncCheckClean, Fin, Syn, Quiet, Control, Led, Straying, checkout
<1>12. ASSUME NEW s \in Syncs, SyncFetch(s) PROVE Led'
  BY <1>12 DEF SyncFetch, Fin, Syn, Quiet, Control, Led, Straying, checkout
<1>13. ASSUME NEW s \in Syncs, SyncCount(s) PROVE Led'
  BY <1>13 DEF SyncCount, Fin, Syn, Quiet, Control, Led, Straying, checkout, Finished
<1>14. ASSUME NEW s \in Syncs, SyncMerge(s) PROVE Led'
  BY <1>14 DEF SyncMerge, Fin, Syn, Quiet, Control, Led, Straying, checkout, MergeLands, MergeConflicts,
     MergeRefused
<1>15. ASSUME NEW s \in Syncs, SyncAborts(s) PROVE Led'
  BY <1>15 DEF SyncAborts, Fin, Syn, Quiet, Control, Led, Straying, checkout
<1>16. ASSUME NEW s \in Syncs, SyncPush(s) PROVE Led'
  BY <1>16 DEF SyncPush, Fin, Syn, Quiet, Control, Led, Straying, checkout, Finished
<1>17. ASSUME NEW s \in Syncs, SyncDies(s) PROVE Led'
  BY <1>17 DEF SyncDies, MergeKilled, MergeLands, MergeConflicts, Syn, Control, Led, Straying,
     checkout
<1>18. CASE Measure
  BY <1>18 DEF Measure, Fin, Syn, Quiet, Control, Led, Straying, checkout
<1>19. CASE Measured
  BY <1>19 DEF Measured, Fin, Syn, Quiet, Control, Led, Straying, checkout
<1>20. CASE DispatchFetches
  BY <1>20 DEF DispatchFetches, Fin, Syn, Quiet, Control, Led, Straying, checkout
<1>21. CASE OthersPush
  BY <1>21 DEF OthersPush, Fin, Syn, Quiet, Control, Led, Straying, checkout
<1>22. CASE UserSwitches
  <2>1. UNCHANGED <<fin, syn, strays>> /\ switched' = switched \cup InFlight \cup Straying
    BY <1>22 DEF UserSwitches
  <2>2. Straying' = Straying
    BY <2>1 DEF Straying
  <2>3. /\ \A t \in Tasks : fin[t] \notin Over => t \in InFlight
        /\ \A s \in Syncs : syn[s] \notin Over => s \in InFlight
    BY DEF InFlight
  <2> QED
    BY <2>1, <2>2, <2>3 DEF Led
<1>23. CASE UserEdits
  BY <1>23 DEF UserEdits, Fin, Syn, Quiet, Control, Led, Straying, checkout
<1>24. CASE UNCHANGED vars
  BY <1>24 DEF vars, Led, Straying, checkout
<1>25. ASSUME NEW p \in strays, StrayEnds(p) PROVE Led'
  <2>1. UNCHANGED <<fin, syn, switched>> /\ strays' \subseteq strays
    BY <1>25 DEF StrayEnds
  <2>2. head' = head
    BY <1>25 DEF StrayEnds, MergeLands, MergeConflicts, checkout
  <2>3. Straying' \subseteq Straying
    BY <2>1 DEF Straying
  <2> QED
    BY <2>1, <2>2, <2>3 DEF Led
<1> QED
  BY <1>1, <1>2, <1>3, <1>4, <1>5, <1>6, <1>7, <1>8, <1>9, <1>10, <1>11, <1>12, <1>13, <1>14,
     <1>15, <1>16, <1>17, <1>18, <1>19, <1>20, <1>21, <1>22, <1>23, <1>24, <1>25 DEF Next, Finish, Sync

-----------------------------------------------------------------------------
(* A step takes no commit away from a history.                             *)
LEMMA GrowStep ==
    ASSUME Control, Led, [Next]_vars
    PROVE  [OnlyGrow]_vars
<1> USE BaseAssumption DEF FinishSteps, SyncSteps, Over
<1>1. ASSUME NEW t \in Tasks, FinishStarts(t) PROVE OnlyGrow
  BY <1>1 DEF FinishStarts, OnlyGrow, histories
<1>2. ASSUME NEW t \in Tasks, FinishCheckClean(t) PROVE OnlyGrow
  BY <1>2 DEF FinishCheckClean, OnlyGrow, histories
<1>3. ASSUME NEW t \in Tasks, PullFetch(t) PROVE OnlyGrow
  BY <1>3 DEF PullFetch, OnlyGrow
<1>4. ASSUME NEW t \in Tasks, PullMerge(t) PROVE OnlyGrow
  BY <1>4 DEF PullMerge, OnlyGrow, histories, Fin, Control, Led, HeadHistory, Steps, MergeLands,
     MergeConflicts, MergeRefused
<1>5. ASSUME NEW t \in Tasks, Rebase(t) PROVE OnlyGrow
  BY <1>5 DEF Rebase, OnlyGrow, histories
<1>6. ASSUME NEW t \in Tasks, RebaseAborts(t) PROVE OnlyGrow
  BY <1>6 DEF RebaseAborts, OnlyGrow, histories
<1>7. ASSUME NEW t \in Tasks, FastForward(t) PROVE OnlyGrow
  BY <1>7 DEF FastForward, Forwarded, OnlyGrow, histories, Fin, Control, Led, Steps
<1>8. ASSUME NEW t \in Tasks, FinishDies(t) PROVE OnlyGrow
  BY <1>8 DEF FinishDies, Forwarded, OnlyGrow, histories, Fin, Control, Led, Steps
<1>9. ASSUME NEW t \in Tasks, AgentCommits(t) PROVE OnlyGrow
  BY <1>9 DEF AgentCommits, OnlyGrow, histories
<1>10. ASSUME NEW s \in Syncs, SyncStarts(s) PROVE OnlyGrow
  BY <1>10 DEF SyncStarts, OnlyGrow, histories
<1>11. ASSUME NEW s \in Syncs, SyncCheckClean(s) PROVE OnlyGrow
  BY <1>11 DEF SyncCheckClean, OnlyGrow, histories
<1>12. ASSUME NEW s \in Syncs, SyncFetch(s) PROVE OnlyGrow
  BY <1>12 DEF SyncFetch, OnlyGrow, histories
<1>13. ASSUME NEW s \in Syncs, SyncCount(s) PROVE OnlyGrow
  BY <1>13 DEF SyncCount, OnlyGrow, histories
<1>14. ASSUME NEW s \in Syncs, SyncMerge(s) PROVE OnlyGrow
  BY <1>14 DEF SyncMerge, OnlyGrow, histories, Syn, Control, Led, HeadHistory, Steps,
     MergeLands, MergeConflicts, MergeRefused
<1>15. ASSUME NEW s \in Syncs, SyncAborts(s) PROVE OnlyGrow
  BY <1>15 DEF SyncAborts, OnlyGrow, histories
<1>16. ASSUME NEW s \in Syncs, SyncPush(s) PROVE OnlyGrow
  BY <1>16 DEF SyncPush, OnlyGrow, histories
<1>17. ASSUME NEW s \in Syncs, SyncDies(s) PROVE OnlyGrow
  BY <1>17 DEF SyncDies, OnlyGrow, histories, Syn, Control, Led, HeadHistory, Steps,
     MergeKilled, MergeLands, MergeConflicts
<1>18. CASE Measure
  BY <1>18 DEF Measure, OnlyGrow, histories
<1>19. CASE Measured
  BY <1>19 DEF Measured, OnlyGrow, histories
<1>20. CASE DispatchFetches
  BY <1>20 DEF DispatchFetches, OnlyGrow, histories
<1>21. CASE OthersPush
  BY <1>21 DEF OthersPush, OnlyGrow, histories
<1>22. CASE UserSwitches
  BY <1>22 DEF UserSwitches, OnlyGrow, histories
<1>23. CASE UserEdits
  BY <1>23 DEF UserEdits, OnlyGrow, histories
<1>24. CASE UNCHANGED vars
  BY <1>24
<1>25. ASSUME NEW p \in strays, StrayEnds(p) PROVE OnlyGrow
  <2>1. CASE UNCHANGED <<base, other, origin>>
    BY <2>1 DEF OnlyGrow
  <2>2. CASE MergeLands
    <3>1. /\ base \subseteq base' /\ other \subseteq other' /\ origin' = origin
          /\ other' # other => head = "other"
      BY <2>2 DEF MergeLands, HeadHistory, Control
    <3>2. p[1] \in Tasks /\ p \in strays /\ p \notin strays' /\ UNCHANGED switched
      BY <1>25 DEF StrayEnds, Control
    <3>3. Steps(p[1])' # Steps(p[1])
      BY <3>2 DEF Steps
    <3>4. head = "other" => p[1] \in switched
      BY <3>2 DEF Led, Straying
    <3> QED
      BY <3>1, <3>2, <3>3, <3>4 DEF OnlyGrow
  <2> QED
    BY <1>25, <2>1, <2>2 DEF StrayEnds, MergeConflicts, histories
<1> QED
  BY <1>1, <1>2, <1>3, <1>4, <1>5, <1>6, <1>7, <1>8, <1>9, <1>10, <1>11, <1>12, <1>13, <1>14,
     <1>15, <1>16, <1>17, <1>18, <1>19, <1>20, <1>21, <1>22, <1>23, <1>24, <1>25 DEF Next, Finish, Sync

-----------------------------------------------------------------------------
(* Every task's branch holds a commit of the task: what a rebase drops is  *)
(* on the base already.                                                    *)
Branched ==
    /\ DOMAIN branch = Tasks
    /\ \A t \in Tasks : \E c \in branch[t] : c[1] = t

(* A task's branch keeps a commit of its own, rebased or not.            *)
LEMMA BranchedStep ==
    ASSUME Branched, [Next]_vars
    PROVE  Branched'
<1>1. ASSUME NEW t \in Tasks, FinishStarts(t) PROVE Branched'
  BY <1>1 DEF FinishStarts, Branched, worktrees
<1>2. ASSUME NEW t \in Tasks, FinishCheckClean(t) PROVE Branched'
  BY <1>2 DEF FinishCheckClean, Branched, worktrees
<1>3. ASSUME NEW t \in Tasks, PullFetch(t) PROVE Branched'
  BY <1>3 DEF PullFetch, Branched, worktrees
<1>4. ASSUME NEW t \in Tasks, PullMerge(t) PROVE Branched'
  BY <1>4 DEF PullMerge, Branched, worktrees
<1>5. ASSUME NEW t \in Tasks, Rebase(t) PROVE Branched'
  <2>1. branch' \in {branch} \/
          branch' = [branch EXCEPT ![t] =
             IF base \subseteq @ THEN @ ELSE base \cup (IF Own(t) = {} THEN {} ELSE
                Rewritten(t))]
    BY <1>5 DEF Rebase, worktrees
  <2>2. CASE branch' = branch
    BY <2>2 DEF Branched
  <2>3. CASE branch' = [branch EXCEPT ![t] =
             IF base \subseteq @ THEN @ ELSE base \cup (IF Own(t) = {} THEN {} ELSE
                Rewritten(t))]
    <3>1. DOMAIN branch' = Tasks /\ \A u \in Tasks \ {t} : branch'[u] = branch[u]
      BY <2>3 DEF Branched
    <3>2. \E c \in branch'[t] : c[1] = t
      <4>1. CASE base \subseteq branch[t]
        BY <2>3, <4>1 DEF Branched
      <4>2. CASE ~(base \subseteq branch[t]) /\ Own(t) = {}
        <5>1. branch'[t] = base /\ branch[t] \subseteq base
          BY <2>3, <4>2 DEF Branched, Own
        <5> QED
          BY <5>1 DEF Branched
      <4>3. CASE ~(base \subseteq branch[t]) /\ Own(t) # {}
        <5>1. \E c \in Rewritten(t) : c[1] = t
          <6> DEFINE k == 1 + Max({c[2] : c \in {d \in branch[t] : d[1] = t}})
          <6>1. Rewritten(t) = {<<t, k>>}
            BY Zenon DEF Rewritten
          <6> HIDE DEF k
          <6> QED
            BY <6>1
        <5>2. Rewritten(t) \subseteq branch'[t]
          BY <2>3, <4>3 DEF Branched
        <5> QED
          BY <5>1, <5>2
      <4> QED
        BY <4>1, <4>2, <4>3
    <3> QED
      BY <3>1, <3>2 DEF Branched
  <2> QED
    BY <2>1, <2>2, <2>3
<1>6. ASSUME NEW t \in Tasks, RebaseAborts(t) PROVE Branched'
  BY <1>6 DEF RebaseAborts, Branched, worktrees
<1>7. ASSUME NEW t \in Tasks, FastForward(t) PROVE Branched'
  BY <1>7 DEF FastForward, Branched, worktrees
<1>8. ASSUME NEW t \in Tasks, FinishDies(t) PROVE Branched'
  BY <1>8 DEF FinishDies, Branched, worktrees
<1>9. ASSUME NEW t \in Tasks, AgentCommits(t) PROVE Branched'
  <2>1. branch' = [branch EXCEPT ![t] = @ \cup Rewritten(t)]
    BY <1>9 DEF AgentCommits
  <2>2. /\ DOMAIN branch' = Tasks /\ \A u \in Tasks \ {t} : branch'[u] = branch[u]
        /\ branch[t] \subseteq branch'[t]
    BY <2>1 DEF Branched
  <2> QED
    BY <2>2 DEF Branched
<1>10. ASSUME NEW s \in Syncs, SyncStarts(s) PROVE Branched'
  BY <1>10 DEF SyncStarts, Branched, worktrees
<1>11. ASSUME NEW s \in Syncs, SyncCheckClean(s) PROVE Branched'
  BY <1>11 DEF SyncCheckClean, Branched, worktrees
<1>12. ASSUME NEW s \in Syncs, SyncFetch(s) PROVE Branched'
  BY <1>12 DEF SyncFetch, Branched, worktrees
<1>13. ASSUME NEW s \in Syncs, SyncCount(s) PROVE Branched'
  BY <1>13 DEF SyncCount, Branched, worktrees
<1>14. ASSUME NEW s \in Syncs, SyncMerge(s) PROVE Branched'
  BY <1>14 DEF SyncMerge, Branched, worktrees
<1>15. ASSUME NEW s \in Syncs, SyncAborts(s) PROVE Branched'
  BY <1>15 DEF SyncAborts, Branched, worktrees
<1>16. ASSUME NEW s \in Syncs, SyncPush(s) PROVE Branched'
  BY <1>16 DEF SyncPush, Branched, worktrees
<1>17. ASSUME NEW s \in Syncs, SyncDies(s) PROVE Branched'
  BY <1>17 DEF SyncDies, Branched, worktrees
<1>18. CASE Measure
  BY <1>18 DEF Measure, Branched, worktrees
<1>19. CASE Measured
  BY <1>19 DEF Measured, Branched, worktrees
<1>20. CASE DispatchFetches
  BY <1>20 DEF DispatchFetches, Branched, worktrees
<1>21. CASE OthersPush
  BY <1>21 DEF OthersPush, Branched, worktrees
<1>22. CASE UserSwitches
  BY <1>22 DEF UserSwitches, Branched, worktrees
<1>23. CASE UserEdits
  BY <1>23 DEF UserEdits, Branched, worktrees
<1>24. CASE UNCHANGED vars
  BY <1>24 DEF vars, Branched, worktrees, vars
<1>25. ASSUME NEW p \in strays, StrayEnds(p) PROVE Branched'
  BY <1>25 DEF StrayEnds, Branched, worktrees
<1> QED
  BY <1>1, <1>2, <1>3, <1>4, <1>5, <1>6, <1>7, <1>8, <1>9, <1>10, <1>11, <1>12, <1>13, <1>14,
     <1>15, <1>16, <1>17, <1>18, <1>19, <1>20, <1>21, <1>22, <1>23, <1>24, <1>25 DEF Next, Finish, Sync

-----------------------------------------------------------------------------
(* The histories hold commits, numbered up to some bound, which is what    *)
(* gives the task's last commit a successor.                               *)
Upto(n) == (Tasks \cup {"origin", "merge"}) \X (0..n)
Within(n) ==
    /\ base \subseteq Upto(n) /\ other \subseteq Upto(n)
    /\ origin \subseteq Upto(n) /\ tracking \subseteq Upto(n)
    /\ \A t \in Tasks : branch[t] \subseteq Upto(n)
Contained == tracking \subseteq origin /\ \E n \in Nat : Within(n)

(* A set of numbers up to n has its maximum: the least of its bounds.      *)
LEMMA MaxExists ==
    ASSUME NEW n \in Nat, NEW S \in SUBSET (0..n), S # {}
    PROVE  Max(S) \in S
<1> DEFINE B == {m \in Nat : \A x \in S : x <= m}
<1>1. n \in B
  BY DEF B
<1>2. \E m \in B : \A k \in B : ~(<<k, m>> \in OpToRel(<, Nat))
  <2>1. B \subseteq Nat /\ B # {}
    BY <1>1
  <2> HIDE DEF B
  <2> QED
    BY <2>1, NatLessThanWellFounded, WFMin
<1>3. PICK m \in B : \A k \in B : ~(k < m)
  BY <1>2 DEF OpToRel
<1>4. m \in S
  <2>1. SUFFICES ASSUME m \notin S PROVE FALSE
    OBVIOUS
  <2>2. m \in Nat /\ \A x \in S : x \in Nat /\ x < m
    BY <2>1
  <2>3. PICK x \in S : x \in Nat /\ x < m
    BY <2>2
  <2>4. m - 1 \in Nat /\ \A y \in S : y <= m - 1
    BY <2>2, <2>3
  <2>5. m - 1 \in B /\ m - 1 < m
    BY <2>4
  <2> QED
    BY <1>3, <2>5
<1>5. \A y \in S : m >= y
  OBVIOUS
<1> QED
  BY <1>4, <1>5 DEF Max

(* A rewritten commit is one that no branch has yet.                     *)
LEMMA NextCommit ==
    ASSUME NEW n \in Nat, NEW t \in Tasks, branch[t] \subseteq Upto(n), Branched
    PROVE  Rewritten(t) \subseteq Upto(n + 1)
<1> DEFINE S == {c[2] : c \in {d \in branch[t] : d[1] = t}}
<1>1. S \subseteq 0..n /\ S # {}
  BY DEF Upto, Branched
<1>2. Rewritten(t) = {<<t, 1 + Max(S)>>}
  BY Zenon DEF Rewritten
<1> HIDE DEF S
<1>3. Max(S) \in 0..n
  BY <1>1, MaxExists
<1> QED
  BY <1>2, <1>3 DEF Upto

(* More commits fit under a wider bound.                                 *)
LEMMA WiderBound ==
    ASSUME NEW n \in Nat, NEW m \in Nat, n <= m
    PROVE  Upto(n) \subseteq Upto(m)
BY DEF Upto

(* What lands on the checked-out branch keeps to a bound.                  *)
LEMMA LandsWithin ==
    ASSUME NEW n \in Nat, Within(n), Control, MergeLands, UNCHANGED branch
    PROVE  \E m \in Nat : Within(m)'
<1>1. PICK m \in Nat : n <= m /\ merges + 1 \in 0..m
  <2>1. merges + 1 \in Nat
    BY DEF Control
  <2>2. CASE n <= merges + 1
    BY <2>1, <2>2
  <2>3. CASE merges + 1 <= n
    BY <2>1, <2>3
  <2> QED
    BY <2>1, <2>2, <2>3
<1>2. Upto(n) \subseteq Upto(m) /\ {<<"merge", merges + 1>>} \subseteq Upto(m)
  BY <1>1, WiderBound DEF Upto
<1>3. base \cup other \cup origin \cup tracking \subseteq Upto(m)
  BY <1>2 DEF Within
<1>4. HeadHistory \cup tracking \cup {<<"merge", merges + 1>>} \subseteq Upto(m)
  BY <1>2, <1>3 DEF HeadHistory
<1>5. /\ base' \cup other' \subseteq
            base \cup other \cup HeadHistory \cup tracking \cup {<<"merge", merges + 1>>}
      /\ UNCHANGED <<origin, tracking>>
  BY DEF MergeLands
<1>6. Within(m)'
  BY <1>2, <1>3, <1>4, <1>5 DEF Within, Upto
<1> QED
  BY <1>1, <1>6

(* A branch that takes the base, and a new commit, keeps to a bound.       *)
LEMMA BranchWithin ==
    ASSUME NEW n \in Nat, Within(n), Branched, NEW t \in Tasks,
           UNCHANGED <<base, other, origin, tracking>>,
           \A u \in Tasks :
             branch'[u] \subseteq base \cup branch[u] \cup (IF u = t THEN Rewritten(t) ELSE {})
    PROVE  \E m \in Nat : Within(m)'
<1>1. Rewritten(t) \subseteq Upto(n + 1)
  BY NextCommit DEF Within
<1>2. Upto(n) \subseteq Upto(n + 1) /\ n + 1 \in Nat
  BY WiderBound
<1>3. Within(n + 1)'
  BY <1>1, <1>2 DEF Within, Upto
<1> QED
  BY <1>2, <1>3

(* Every step keeps the histories within some bound.                       *)
LEMMA ContainedStep ==
    ASSUME Control, Branched, Contained, [Next]_vars
    PROVE  Contained'
<1>0. PICK n \in Nat : Within(n)
  BY DEF Contained
<1>1. ASSUME NEW t \in Tasks, FinishStarts(t) PROVE Contained'
  BY <1>0, <1>1 DEF FinishStarts, Contained, Within, Upto, histories, worktrees
<1>2. ASSUME NEW t \in Tasks, FinishCheckClean(t) PROVE Contained'
  BY <1>0, <1>2 DEF FinishCheckClean, Contained, Within, Upto, histories, worktrees
<1>3. ASSUME NEW t \in Tasks, PullFetch(t) PROVE Contained'
  BY <1>0, <1>3 DEF PullFetch, FetchFails, Contained, Within, Upto, worktrees
<1>4. ASSUME NEW t \in Tasks, PullMerge(t) PROVE Contained'
  <2>1. CASE MergeLands
    <3>1. UNCHANGED <<origin, tracking, branch>>
      BY <1>0, <1>4, <2>1 DEF MergeLands, PullMerge, worktrees
    <3> QED
      BY <1>0, <1>0, <2>1, <3>1, LandsWithin DEF Contained
  <2>2. CASE MergeConflicts \/ MergeRefused
    <3>1. UNCHANGED <<base, other, origin, tracking, branch>>
      BY <1>0, <1>4, <2>2 DEF MergeConflicts, MergeRefused, PullMerge, worktrees, histories
    <3> QED
      BY <3>1 DEF Contained, Within, Upto
  <2> QED
    BY <1>0, <1>4, <2>1, <2>2 DEF PullMerge
<1>5. ASSUME NEW t \in Tasks, Rebase(t) PROVE Contained'
  <2>1. UNCHANGED <<base, other, origin, tracking>>
    BY <1>0, <1>5 DEF Rebase, histories
  <2>2. branch' \in {branch} \/
          branch' = [branch EXCEPT ![t] =
             IF base \subseteq @ THEN @ ELSE base \cup (IF Own(t) = {} THEN {} ELSE
                Rewritten(t))]
    BY <1>0, <1>5 DEF Rebase, worktrees
  <2>3. \A u \in Tasks : branch'[u] \subseteq base \cup branch[u] \cup (IF u = t THEN
     Rewritten(t) ELSE {})
    BY <2>2 DEF Branched
  <2> QED
    BY <1>0, <1>0, <2>1, <2>3, BranchWithin DEF Contained
<1>6. ASSUME NEW t \in Tasks, RebaseAborts(t) PROVE Contained'
  BY <1>0, <1>6 DEF RebaseAborts, Contained, Within, Upto, histories, worktrees
<1>7. ASSUME NEW t \in Tasks, FastForward(t) PROVE Contained'
  <2>1. UNCHANGED <<origin, tracking, branch>> /\ base' \cup other' \subseteq base \cup other
     \cup branch[t]
    BY <1>0, <1>7 DEF FastForward, Forwarded, worktrees, histories
  <2> QED
    BY <1>0, <1>0, <2>1 DEF Contained, Within, Upto
<1>8. ASSUME NEW t \in Tasks, FinishDies(t) PROVE Contained'
  <2>1. UNCHANGED <<origin, tracking, branch>> /\ base' \cup other' \subseteq base \cup other
     \cup branch[t]
    BY <1>8 DEF FinishDies, Forwarded, worktrees, histories
  <2> QED
    BY <1>0, <2>1 DEF Contained, Within, Upto
<1>9. ASSUME NEW t \in Tasks, AgentCommits(t) PROVE Contained'
  <2>1. UNCHANGED <<base, other, origin, tracking>>
    BY <1>0, <1>9 DEF AgentCommits, histories
  <2>2. branch' = [branch EXCEPT ![t] = @ \cup Rewritten(t)]
    BY <1>0, <1>9 DEF AgentCommits
  <2>3. \A u \in Tasks : branch'[u] \subseteq base \cup branch[u] \cup (IF u = t THEN
     Rewritten(t) ELSE {})
    BY <2>2 DEF Branched
  <2> QED
    BY <1>0, <1>0, <2>1, <2>3, BranchWithin DEF Contained
<1>10. ASSUME NEW s \in Syncs, SyncStarts(s) PROVE Contained'
  BY <1>0, <1>10 DEF SyncStarts, Contained, Within, Upto, histories, worktrees
<1>11. ASSUME NEW s \in Syncs, SyncCheckClean(s) PROVE Contained'
  BY <1>0, <1>11 DEF SyncCheckClean, Contained, Within, Upto, histories, worktrees
<1>12. ASSUME NEW s \in Syncs, SyncFetch(s) PROVE Contained'
  BY <1>0, <1>12 DEF SyncFetch, FetchFails, Contained, Within, Upto, worktrees
<1>13. ASSUME NEW s \in Syncs, SyncCount(s) PROVE Contained'
  BY <1>0, <1>13 DEF SyncCount, Contained, Within, Upto, histories, worktrees
<1>14. ASSUME NEW s \in Syncs, SyncMerge(s) PROVE Contained'
  <2>1. CASE MergeLands
    <3>1. UNCHANGED <<origin, tracking, branch>>
      BY <1>0, <1>14, <2>1 DEF MergeLands, SyncMerge, worktrees
    <3> QED
      BY <1>0, <1>0, <2>1, <3>1, LandsWithin DEF Contained
  <2>2. CASE MergeConflicts \/ MergeRefused
    <3>1. UNCHANGED <<base, other, origin, tracking, branch>>
      BY <1>0, <1>14, <2>2 DEF MergeConflicts, MergeRefused, SyncMerge, worktrees, histories
    <3> QED
      BY <3>1 DEF Contained, Within, Upto
  <2> QED
    BY <1>0, <1>14, <2>1, <2>2 DEF SyncMerge
<1>15. ASSUME NEW s \in Syncs, SyncAborts(s) PROVE Contained'
  BY <1>0, <1>15 DEF SyncAborts, Contained, Within, Upto, histories, worktrees
<1>16. ASSUME NEW s \in Syncs, SyncPush(s) PROVE Contained'
  BY <1>0, <1>16 DEF SyncPush, Contained, Within, Upto, histories, worktrees
<1>17. ASSUME NEW s \in Syncs, SyncDies(s) PROVE Contained'
  <2>1. UNCHANGED branch
    BY <1>17 DEF SyncDies, worktrees
  <2>2. CASE MergeLands
    <3>1. UNCHANGED <<origin, tracking>>
      BY <2>2 DEF MergeLands
    <3> QED
      BY <1>0, <2>1, <2>2, <3>1, LandsWithin DEF Contained
  <2>3. CASE UNCHANGED histories
    BY <1>0, <2>1, <2>3 DEF Contained, Within, Upto, histories
  <2> QED
    BY <1>17, <2>2, <2>3 DEF SyncDies, MergeKilled, MergeConflicts
<1>18. CASE Measure
  BY <1>0, <1>18 DEF Measure, Contained, Within, Upto, histories, worktrees
<1>19. CASE Measured
  BY <1>0, <1>19 DEF Measured, Contained, Within, Upto, histories, worktrees
<1>20. CASE DispatchFetches
  BY <1>0, <1>20 DEF DispatchFetches, Contained, Within, Upto, histories, worktrees
<1>21. CASE OthersPush
  <2>1. UNCHANGED <<base, other, tracking, branch>> /\ origin' = origin \cup {<<"origin",
     outside>>}
    BY <1>0, <1>21 DEF OthersPush, worktrees
  <2>2. PICK m \in Nat : n <= m /\ outside \in 0..m
    <3>1. outside \in Nat
      BY BaseAssumption DEF Control
    <3>2. CASE n <= outside
      BY <3>1, <3>2
    <3>3. CASE outside <= n
      BY <3>1, <3>3
    <3> QED
      BY <3>1, <3>2, <3>3
  <2>3. Upto(n) \subseteq Upto(m) /\ {<<"origin", outside>>} \subseteq Upto(m)
    BY <2>2, WiderBound DEF Upto
  <2>4. Within(m)'
    BY <1>0, <1>0, <2>1, <2>3 DEF Within, Upto
  <2> QED
    BY <2>1, <2>2, <2>4 DEF Contained
<1>22. CASE UserSwitches
  BY <1>0, <1>22 DEF UserSwitches, Contained, Within, Upto, histories, worktrees
<1>23. CASE UserEdits
  BY <1>0, <1>23 DEF UserEdits, Contained, Within, Upto, histories, worktrees
<1>24. CASE UNCHANGED vars
  BY <1>0, <1>24 DEF vars, Contained, Within, Upto, histories, worktrees, vars
<1>25. ASSUME NEW p \in strays, StrayEnds(p) PROVE Contained'
  <2>1. UNCHANGED branch
    BY <1>25 DEF StrayEnds, worktrees
  <2>2. CASE MergeLands
    <3>1. UNCHANGED <<origin, tracking>>
      BY <2>2 DEF MergeLands
    <3> QED
      BY <1>0, <2>1, <2>2, <3>1, LandsWithin DEF Contained
  <2>3. CASE tracking' \in {tracking, origin} /\ UNCHANGED <<base, other, origin>>
    BY <1>0, <2>1, <2>3 DEF Contained, Within, Upto
  <2> QED
    BY <1>25, <2>2, <2>3 DEF StrayEnds, MergeConflicts, histories
<1> QED
  BY <1>0, <1>1, <1>2, <1>3, <1>4, <1>5, <1>6, <1>7, <1>8, <1>9, <1>10, <1>11, <1>12, <1>13, <1>14,
     <1>15, <1>16, <1>17, <1>18, <1>19, <1>20, <1>21, <1>22, <1>23, <1>24, <1>25 DEF Next, Finish, Sync

-----------------------------------------------------------------------------
(* A finish that succeeded is on the base.                                 *)
LEMMA MergedStep ==
    ASSUME Control, Led, Branched, FinishedIsMerged, [Next]_vars
    PROVE  FinishedIsMerged'
<1> USE BaseAssumption DEF FinishSteps, SyncSteps, Over
<1>0. base \subseteq base'
  BY GrowStep DEF OnlyGrow, vars, histories
<1>1. ASSUME NEW t \in Tasks, FinishStarts(t) PROVE FinishedIsMerged'
  BY <1>0, <1>1 DEF FinishStarts, FinishedIsMerged, Fin, Control, worktrees
<1>2. ASSUME NEW t \in Tasks, FinishCheckClean(t) PROVE FinishedIsMerged'
  BY <1>0, <1>2 DEF FinishCheckClean, FinishedIsMerged, Fin, Control, worktrees
<1>3. ASSUME NEW t \in Tasks, PullFetch(t) PROVE FinishedIsMerged'
  BY <1>0, <1>3 DEF PullFetch, FinishedIsMerged, Fin, Control, worktrees
<1>4. ASSUME NEW t \in Tasks, PullMerge(t) PROVE FinishedIsMerged'
  BY <1>0, <1>4 DEF PullMerge, FinishedIsMerged, Fin, Control, worktrees
<1>5. ASSUME NEW t \in Tasks, Rebase(t) PROVE FinishedIsMerged'
  <2>1. fin'[t] # "ok" /\ \A u \in Tasks \ {t} : fin'[u] = fin[u]
    BY <1>0, <1>5 DEF Rebase, Fin, Control
  <2>2. \A u \in Tasks \ {t} : branch'[u] = branch[u]
    BY <1>0, <1>5 DEF Rebase, Branched, worktrees
  <2>3. switched' = switched
    BY <1>0, <1>5 DEF Rebase
  <2> QED
    BY <1>0, <1>0, <2>1, <2>2, <2>3 DEF FinishedIsMerged
<1>6. ASSUME NEW t \in Tasks, RebaseAborts(t) PROVE FinishedIsMerged'
  BY <1>0, <1>6 DEF RebaseAborts, FinishedIsMerged, Fin, Control, worktrees
<1>7. ASSUME NEW t \in Tasks, FastForward(t) PROVE FinishedIsMerged'
  <2>1. UNCHANGED <<branch, switched>> /\ \A u \in Tasks \ {t} : fin'[u] = fin[u]
    BY <1>7 DEF FastForward, Fin, Control, worktrees
  <2>2. CASE Forwarded(t)
    <3>1. branch[t] \subseteq base' \/ t \in switched
      BY <1>7, <2>2 DEF FastForward, Forwarded, Led, Control
    <3> QED
      BY <1>0, <2>1, <3>1 DEF FinishedIsMerged
  <2>3. CASE Fin(t, "failed")
    BY <1>0, <2>1, <2>3 DEF FinishedIsMerged, Fin, Control
  <2> QED
    BY <1>7, <2>2, <2>3 DEF FastForward
<1>8. ASSUME NEW t \in Tasks, FinishDies(t) PROVE FinishedIsMerged'
  BY <1>0, <1>8 DEF FinishDies, FinishedIsMerged, Fin, Control, worktrees
<1>9. ASSUME NEW t \in Tasks, AgentCommits(t) PROVE FinishedIsMerged'
  BY <1>0, <1>9 DEF AgentCommits, FinishedIsMerged, Fin, Control, worktrees
<1>10. ASSUME NEW s \in Syncs, SyncStarts(s) PROVE FinishedIsMerged'
  BY <1>0, <1>10 DEF SyncStarts, FinishedIsMerged, Fin, Control, worktrees
<1>11. ASSUME NEW s \in Syncs, SyncCheckClean(s) PROVE FinishedIsMerged'
  BY <1>0, <1>11 DEF SyncCheckClean, FinishedIsMerged, Fin, Control, worktrees
<1>12. ASSUME NEW s \in Syncs, SyncFetch(s) PROVE FinishedIsMerged'
  BY <1>0, <1>12 DEF SyncFetch, FinishedIsMerged, Fin, Control, worktrees
<1>13. ASSUME NEW s \in Syncs, SyncCount(s) PROVE FinishedIsMerged'
  BY <1>0, <1>13 DEF SyncCount, FinishedIsMerged, Fin, Control, worktrees
<1>14. ASSUME NEW s \in Syncs, SyncMerge(s) PROVE FinishedIsMerged'
  BY <1>0, <1>14 DEF SyncMerge, FinishedIsMerged, Fin, Control, worktrees
<1>15. ASSUME NEW s \in Syncs, SyncAborts(s) PROVE FinishedIsMerged'
  BY <1>0, <1>15 DEF SyncAborts, FinishedIsMerged, Fin, Control, worktrees
<1>16. ASSUME NEW s \in Syncs, SyncPush(s) PROVE FinishedIsMerged'
  BY <1>0, <1>16 DEF SyncPush, FinishedIsMerged, Fin, Control, worktrees
<1>17. ASSUME NEW s \in Syncs, SyncDies(s) PROVE FinishedIsMerged'
  BY <1>0, <1>17 DEF SyncDies, FinishedIsMerged, Fin, Control, worktrees
<1>18. CASE Measure
  BY <1>0, <1>18 DEF Measure, FinishedIsMerged, Fin, Control, worktrees
<1>19. CASE Measured
  BY <1>0, <1>19 DEF Measured, FinishedIsMerged, Fin, Control, worktrees
<1>20. CASE DispatchFetches
  BY <1>0, <1>20 DEF DispatchFetches, FinishedIsMerged, Fin, Control, worktrees
<1>21. CASE OthersPush
  BY <1>0, <1>21 DEF OthersPush, FinishedIsMerged, Fin, Control, worktrees
<1>22. CASE UserSwitches
  BY <1>0, <1>22 DEF UserSwitches, FinishedIsMerged, Fin, Control, worktrees
<1>23. CASE UserEdits
  BY <1>0, <1>23 DEF UserEdits, FinishedIsMerged, Fin, Control, worktrees
<1>24. CASE UNCHANGED vars
  BY <1>0, <1>24 DEF vars, FinishedIsMerged, Fin, Control, worktrees, vars
<1>25. ASSUME NEW p \in strays, StrayEnds(p) PROVE FinishedIsMerged'
  BY <1>0, <1>25 DEF StrayEnds, FinishedIsMerged, worktrees
<1> QED
  BY <1>0, <1>1, <1>2, <1>3, <1>4, <1>5, <1>6, <1>7, <1>8, <1>9, <1>10, <1>11, <1>12, <1>13, <1>14,
     <1>15, <1>16, <1>17, <1>18, <1>19, <1>20, <1>21, <1>22, <1>23, <1>24, <1>25 DEF Next, Finish, Sync

-----------------------------------------------------------------------------
(* A merge, or a rebase, is left in the middle while the operation that    *)
(* will abort it is at its abort, or for one of the known reasons.         *)
Known ==
    /\ merging => left \cap LeftByMerge # {} \/ \E s \in Syncs : syn[s] = "abort"
    /\ \A t \in Tasks : rebasing[t] => left \cap LeftByRebase # {} \/ fin[t] = "abort"

(* Steps that end no abort, and begin no merge but for a known reason.     *)
LEMMA KnownKept ==
    ASSUME Known, left \subseteq left', UNCHANGED rebasing,
           merging' = merging \/ left' \cap LeftByMerge # {},
           \A s \in Syncs : syn[s] = "abort" => syn'[s] = "abort",
           \A t \in Tasks : fin[t] = "abort" => fin'[t] = "abort"
    PROVE  Known'
BY DEF Known

(* Merges and rebases are left in progress by known failures only.       *)
LEMMA KnownStep ==
    ASSUME Control, Flags, Known, [Next]_vars
    PROVE  Known'
<1> USE BaseAssumption
<1>1. ASSUME NEW t \in Tasks, FinishStarts(t) PROVE Known'
  BY <1>1 DEF FinishStarts, Fin, Syn, Control, Flags, Known, checkout, worktrees
<1>2. ASSUME NEW t \in Tasks, FinishCheckClean(t) PROVE Known'
  BY <1>2 DEF FinishCheckClean, Fin, Syn, Control, Flags, Known, checkout, worktrees
<1>3. ASSUME NEW t \in Tasks, PullFetch(t) PROVE Known'
  BY <1>3 DEF PullFetch, Fin, Control, Known, checkout, worktrees
<1>4. ASSUME NEW t \in Tasks, PullMerge(t) PROVE Known'
  <2>1. /\ UNCHANGED <<syn, rebasing>> /\ left \subseteq left'
        /\ \A u \in Tasks : fin[u] = "abort" => fin'[u] = "abort"
    BY <1>4 DEF PullMerge, worktrees, Fin, Control
  <2>2. merging' = merging \/ "pull" \in left'
    BY <1>4 DEF PullMerge, MergeLands, MergeRefused, checkout
  <2> QED
    BY <2>1, <2>2, KnownKept DEF LeftByMerge
<1>5. ASSUME NEW t \in Tasks, Rebase(t) PROVE Known'
  BY <1>5 DEF Rebase, Fin, Control, Flags, Known, checkout, worktrees, LeftByRebase
<1>6. ASSUME NEW t \in Tasks, RebaseAborts(t) PROVE Known'
  BY <1>6 DEF RebaseAborts, Fin, Control, Flags, Known, checkout, LeftByRebase
<1>7. ASSUME NEW t \in Tasks, FastForward(t) PROVE Known'
  BY <1>7 DEF FastForward, Fin, Syn, Control, Flags, Known, checkout, worktrees
<1>8. ASSUME NEW t \in Tasks, FinishDies(t) PROVE Known'
  BY <1>8 DEF FinishDies, Fin, Syn, Control, Flags, Known, checkout, worktrees
<1>9. ASSUME NEW t \in Tasks, AgentCommits(t) PROVE Known'
  BY <1>9 DEF AgentCommits, Fin, Syn, Control, Flags, Known, checkout, worktrees
<1>10. ASSUME NEW s \in Syncs, SyncStarts(s) PROVE Known'
  BY <1>10 DEF SyncStarts, Fin, Syn, Control, Flags, Known, checkout, worktrees
<1>11. ASSUME NEW s \in Syncs, SyncCheckClean(s) PROVE Known'
  BY <1>11 DEF SyncCheckClean, Fin, Syn, Control, Flags, Known, checkout, worktrees
<1>12. ASSUME NEW s \in Syncs, SyncFetch(s) PROVE Known'
  BY <1>12 DEF SyncFetch, Fin, Syn, Control, Flags, Known, checkout, worktrees
<1>13. ASSUME NEW s \in Syncs, SyncCount(s) PROVE Known'
  BY <1>13 DEF SyncCount, Fin, Syn, Control, Flags, Known, checkout, worktrees, Finished
<1>14. ASSUME NEW s \in Syncs, SyncMerge(s) PROVE Known'
  <2>1. UNCHANGED <<fin, rebasing, left>> /\ syn[s] = "merge"
    BY <1>14 DEF SyncMerge, worktrees
  <2>2. CASE MergeLands /\ Syn(s, "recount")
    <3>1. \A r \in Syncs : syn[r] = "abort" => syn'[r] = "abort"
      BY <2>1, <2>2 DEF Syn, Control
    <3>2. merging' = merging
      BY <2>2 DEF MergeLands, checkout
    <3> QED
      BY <2>1, <3>1, <3>2 DEF Known
  <2>3. CASE Syn(s, "abort")
    <3>1. syn'[s] = "abort"
      BY <2>3 DEF Syn, Control
    <3> QED
      BY <2>1, <3>1 DEF Known
  <2> QED
    BY <1>14, <2>2, <2>3 DEF SyncMerge
<1>15. ASSUME NEW s \in Syncs, SyncAborts(s) PROVE Known'
  <2>1. UNCHANGED <<fin, rebasing>>
    BY <1>15 DEF SyncAborts, worktrees
  <2>2. CASE merging' = FALSE /\ UNCHANGED left
    BY <2>1, <2>2 DEF Known
  <2>3. CASE left' = left \cup {"merge abort"}
    BY <2>1, <2>3 DEF Known, LeftByMerge
  <2> QED
    BY <1>15, <2>2, <2>3 DEF SyncAborts
<1>16. ASSUME NEW s \in Syncs, SyncPush(s) PROVE Known'
  BY <1>16 DEF SyncPush, Fin, Syn, Control, Flags, Known, checkout, worktrees, Finished
<1>17. ASSUME NEW s \in Syncs, SyncDies(s) PROVE Known'
  <2>1. UNCHANGED <<fin, rebasing>> /\ \A r \in Syncs : syn[r] = "abort" => syn'[r] = "abort"
    BY <1>17 DEF SyncDies, worktrees, Syn, Control
  <2>2. left \subseteq left' /\ (merging' = merging \/ "killed merge" \in left')
    BY <1>17 DEF SyncDies, MergeKilled, MergeLands, checkout
  <2> QED
    BY <2>1, <2>2, KnownKept DEF LeftByMerge
<1>18. CASE Measure
  BY <1>18 DEF Measure, Fin, Syn, Control, Flags, Known, checkout, worktrees
<1>19. CASE Measured
  BY <1>19 DEF Measured, Fin, Syn, Control, Flags, Known, checkout, worktrees
<1>20. CASE DispatchFetches
  BY <1>20 DEF DispatchFetches, Fin, Syn, Control, Flags, Known, checkout, worktrees
<1>21. CASE OthersPush
  BY <1>21 DEF OthersPush, Fin, Syn, Control, Flags, Known, checkout, worktrees
<1>22. CASE UserSwitches
  BY <1>22 DEF UserSwitches, Fin, Syn, Control, Flags, Known, checkout, worktrees
<1>23. CASE UserEdits
  BY <1>23 DEF UserEdits, Fin, Syn, Control, Flags, Known, checkout, worktrees
<1>24. CASE UNCHANGED vars
  BY <1>24 DEF vars, Fin, Syn, Control, Flags, Known, checkout, worktrees, vars
<1>25. ASSUME NEW p \in strays, StrayEnds(p) PROVE Known'
  <2>1. UNCHANGED <<fin, syn, rebasing>>
    BY <1>25 DEF StrayEnds, worktrees
  <2>2. left \subseteq left' /\ (merging' = merging \/ "pull" \in left')
    BY <1>25 DEF StrayEnds, MergeLands, checkout
  <2> QED
    BY <2>1, <2>2, KnownKept DEF LeftByMerge
<1> QED
  BY <1>1, <1>2, <1>3, <1>4, <1>5, <1>6, <1>7, <1>8, <1>9, <1>10, <1>11, <1>12, <1>13, <1>14,
     <1>15, <1>16, <1>17, <1>18, <1>19, <1>20, <1>21, <1>22, <1>23, <1>24, <1>25 DEF Next, Finish, Sync

-----------------------------------------------------------------------------
(* The drift: unless an operation that has moved the refs is still under   *)
(* way, a measurement is asked for, or the newest one that was taken shows *)
(* the refs as they are, be it on the board or on its way there.           *)
Moved ==
    \/ \E t \in Tasks : fin[t] \in {"merge", "rebase", "abort", "forward"}
    \/ \E s \in Syncs : syn[s] \in {"count", "merge", "abort", "recount", "push"}
Results(T) == [counts : T, late : BOOLEAN]
Queued ==
    /\ \E T : found \in Seq(Results(T))
    /\ \A j, k \in 1..Len(found) : j < k /\ found[k].late => found[j].late
Latest ==
    IF found = << >> THEN shown
    ELSE IF found[Len(found)].late THEN shown ELSE found[Len(found)].counts
Current == Moved \/ missed \/ asked > 0 \/ Latest \in {Counts, None}

(* A result leaves the queue: the older ones become late.                  *)
Rest(i) ==
    [j \in 1..(i - 1) |-> [found[j] EXCEPT !.late = TRUE]] \o SubSeq(found, i + 1, Len(found))
(* What taking a result leaves in the queue.                             *)
LEMMA ResultTaken ==
    ASSUME NEW T, found \in Seq(Results(T)), NEW i \in 1..Len(found)
    PROVE  /\ Rest(i) \in Seq(Results(T)) /\ Len(Rest(i)) = Len(found) - 1
           /\ \A j \in 1..(i - 1) : Rest(i)[j].late
           /\ \A j \in i..(Len(found) - 1) : Rest(i)[j] = found[j + 1]
<1> DEFINE f(j) == [found[j] EXCEPT !.late = TRUE]
           a == [j \in 1..(i - 1) |-> f(j)]
           b == SubSeq(found, i + 1, Len(found))
           w == a \o b
<1>1. Len(found) \in Nat /\ i \in Int /\ \A j \in 1..Len(found) : found[j] \in Results(T)
  BY LenProperties, ElementOfSeq
<1>2. \A p \in Results(T) : [p EXCEPT !.late = TRUE] \in Results(T) /\ [p EXCEPT !.late = TRUE].late = TRUE
  BY DEF Results
<1>3. \A j \in 1..(i - 1) : f(j) \in Results(T) /\ f(j).late
  BY <1>1, <1>2
<1>4. Rest(i) = w
  BY Zenon DEF Rest
<1> HIDE DEF f
<1>5. a \in Seq(Results(T)) /\ Len(a) = i - 1 /\ \A j \in 1..(i - 1) : a[j].late
  <2>1. a \in [1..(i - 1) -> Results(T)] /\ \A j \in 1..(i - 1) : a[j] = f(j)
    BY <1>3
  <2> HIDE DEF a
  <2>2. a \in Seq(Results(T)) /\ i - 1 \in Nat
    BY <1>1, <2>1, SeqDef
  <2>3. Len(a) = i - 1
    BY <2>1, <2>2, LenProperties
  <2> QED
    BY <1>3, <2>1, <2>2, <2>3
<1>6. b \in Seq(Results(T)) /\ Len(b) = Len(found) - i /\ \A j \in 1..(Len(found) - i) : b[j] = found[i + j]
  <2>1. \A j \in (i + 1)..Len(found) : found[j] \in Results(T)
    BY <1>1
  <2>2. /\ b \in Seq(Results(T))
        /\ Len(b) = IF i + 1 <= Len(found) THEN Len(found) - (i + 1) + 1 ELSE 0
        /\ \A j \in 1..(Len(found) - (i + 1) + 1) : b[j] = found[(i + 1) + j - 1]
    BY <1>1, <2>1, SubSeqProperties
  <2> QED
    BY <1>1, <2>2
<1> HIDE DEF a, b
<1>7. /\ w \in Seq(Results(T)) /\ Len(w) = Len(a) + Len(b)
      /\ \A j \in 1..(Len(a) + Len(b)) : w[j] = IF j <= Len(a) THEN a[j] ELSE b[j - Len(a)]
  BY <1>5, <1>6, ConcatProperties
<1> HIDE DEF w
<1>8. Len(a) + Len(b) = Len(found) - 1
  BY <1>1, <1>5, <1>6
<1>9. ASSUME NEW j \in 1..(i - 1) PROVE w[j].late
  <2>1. j \in 1..(Len(a) + Len(b)) /\ j <= Len(a)
    BY <1>1, <1>5, <1>8
  <2> QED
    BY <1>5, <1>7, <2>1
<1>10. ASSUME NEW j \in i..(Len(found) - 1) PROVE w[j] = found[j + 1]
  <2>1. j \in 1..(Len(a) + Len(b)) /\ ~(j <= Len(a)) /\ j - Len(a) = j - (i - 1)
    BY <1>1, <1>5, <1>8
  <2>2. b[j - (i - 1)] = found[j + 1]
    BY <1>1, <1>6
  <2> QED
    BY <1>7, <2>1, <2>2
<1> QED
  BY <1>4, <1>7, <1>8, <1>9, <1>10

(* The queue stays ordered: what is late came before what is not.          *)
LEMMA QueuedStep ==
    ASSUME Queued, [Next]_vars
    PROVE  Queued'
<1>1. PICK T : found \in Seq(Results(T))
  BY DEF Queued
<1>2. CASE found' = found
  BY <1>1, <1>2 DEF Queued
<1>3. CASE Measure
  <2>1. PICK c \in {Counts, None} : found' = Append(found, [counts |-> c, late |-> FALSE])
    BY <1>3 DEF Measure
  <2> DEFINE x == [counts |-> c, late |-> FALSE]
  <2>2. x \in Results(T \cup {c}) /\ ~x.late
    BY DEF Results
  <2>3. found \in Seq(Results(T \cup {c}))
    <3>1. Results(T) \subseteq Results(T \cup {c})
      BY DEF Results
    <3> QED
      BY <1>1, <3>1, SeqMonotonic
  <2>4. found' = Append(found, x)
    BY <2>1
  <2> HIDE DEF x
  <2>5. /\ found' \in Seq(Results(T \cup {c})) /\ Len(found') = Len(found) + 1
        /\ Len(found) \in Nat /\ \A j \in 1..Len(found) : found'[j] = found[j]
        /\ found'[Len(found) + 1] = x
    BY <2>2, <2>3, <2>4, AppendProperties, LenProperties
  <2>6. ASSUME NEW j \in 1..Len(found'), NEW k \in 1..Len(found'), j < k, found'[k].late
        PROVE  found'[j].late
    <3>1. k # Len(found) + 1
      BY <2>2, <2>5, <2>6
    <3>2. j \in 1..Len(found) /\ k \in 1..Len(found)
      BY <2>5, <2>6, <3>1
    <3> QED
      BY <2>5, <2>6, <3>2 DEF Queued
  <2> QED
    BY <2>5, <2>6 DEF Queued
<1>4. CASE Measured
  <2>1. PICK i \in 1..Len(found) : found' = Rest(i)
    BY <1>4, Zenon DEF Measured, Rest
  <2>2. /\ found' \in Seq(Results(T)) /\ Len(found') = Len(found) - 1 /\ Len(found) \in Nat
        /\ \A j \in 1..(i - 1) : found'[j].late
        /\ \A j \in i..(Len(found) - 1) : found'[j] = found[j + 1]
    BY <1>1, <2>1, ResultTaken, LenProperties
  <2>3. ASSUME NEW j \in 1..Len(found'), NEW k \in 1..Len(found'), j < k, found'[k].late
        PROVE  found'[j].late
    <3>1. CASE j < i
      BY <2>2, <3>1
    <3>2. CASE ~(j < i)
      <4>1. /\ j \in i..(Len(found) - 1) /\ k \in i..(Len(found) - 1)
            /\ j + 1 \in 1..Len(found) /\ k + 1 \in 1..Len(found) /\ j + 1 < k + 1
        BY <2>2, <2>3, <3>2
      <4>2. found'[j] = found[j + 1] /\ found'[k] = found[k + 1]
        BY <2>2, <4>1
      <4> QED
        BY <2>3, <4>1, <4>2 DEF Queued
    <3> QED
      BY <3>1, <3>2
  <2> QED
    BY <2>2, <2>3 DEF Queued
<1>5. \A t \in Tasks : Finish(t) \/ AgentCommits(t) => found' = found
  BY DEF Finish, FinishStarts, FinishCheckClean, PullFetch, PullMerge, Rebase, RebaseAborts,
         FastForward, FinishDies, AgentCommits, Quiet, drift
<1>6. \A s \in Syncs : Sync(s) => found' = found
  BY DEF Sync, SyncStarts, SyncCheckClean, SyncFetch, SyncCount, SyncMerge, SyncAborts, SyncPush,
         SyncDies, Quiet, drift
<1>8. \A p \in strays : StrayEnds(p) => found' = found
  BY DEF StrayEnds, drift
<1>7. DispatchFetches \/ OthersPush \/ UserSwitches \/ UserEdits \/ UNCHANGED vars => found' = found
  BY DEF DispatchFetches, OthersPush, UserSwitches, UserEdits, vars, Quiet, drift
<1> QED
  BY <1>2, <1>3, <1>4, <1>5, <1>6, <1>7, <1>8 DEF Next

(* What is not told is missed, unless the board shows it already.          *)
LEMMA CurrentUntold ==
    ASSUME NEW c, Untold(c), Counts' = c, UNCHANGED <<found, shown>>
    PROVE  Current'
BY DEF Current, Untold, Latest

(* Steps that move neither the refs nor what is known of them.             *)
LEMMA CurrentSame ==
    ASSUME Current, Moved => Moved', UNCHANGED <<base, tracking, drift, missed>>
    PROVE  Current'
BY DEF Current, Latest, Counts, Drift, drift

(* Showing a result keeps the newest one in sight.                       *)
LEMMA MeasuredStep ==
    ASSUME Queued, Current, Measured
    PROVE  Current'
<1>1. PICK T : found \in Seq(Results(T))
  BY DEF Queued
<1>2. PICK i \in 1..Len(found) :
        /\ shown' = found[i].counts /\ found' = Rest(i)
        /\ missed' = ((missed \/ found[i].late) /\ (shown' # Counts \/ found' # << >>))
  BY Zenon DEF Measured, Rest
<1>3. /\ found' \in Seq(Results(T)) /\ Len(found') = Len(found) - 1 /\ Len(found) \in Nat
      /\ \A j \in 1..(i - 1) : found'[j].late
      /\ \A j \in i..(Len(found) - 1) : found'[j] = found[j + 1]
  BY <1>1, <1>2, ResultTaken, LenProperties
<1>4. Counts' = Counts /\ UNCHANGED <<fin, syn, asked>>
  BY DEF Measured, Counts, Drift, histories
<1>5. CASE Moved \/ asked > 0 \/ missed'
  BY <1>4, <1>5 DEF Current, Moved
<1>6. CASE shown' = Counts /\ found' = << >>
  BY <1>4, <1>6 DEF Current, Latest
<1>7. CASE /\ ~missed /\ ~found[i].late /\ ~Moved /\ ~(asked > 0)
  <2>1. Latest \in {Counts, None} /\ found # << >>
    BY <1>2, <1>7 DEF Current
  <2>2. ~found[Len(found)].late
    BY <1>3, <1>7 DEF Queued
  <2>3. found[Len(found)].counts \in {Counts, None}
    BY <2>1, <2>2 DEF Latest
  <2>4. CASE i = Len(found)
    <3>1. found' # << >> => found'[Len(found')].late
      <4>1. found' # << >> => Len(found') \in 1..(i - 1)
        BY <1>3, <2>4, EmptySeq
      <4> QED
        BY <1>3, <4>1
    <3> QED
      BY <1>2, <1>4, <2>3, <2>4, <3>1 DEF Current, Latest
  <2>5. CASE i # Len(found)
    <3>1. /\ Len(found') \in i..(Len(found) - 1) /\ Len(found') + 1 = Len(found)
      BY <1>3, <2>5
    <3>2. found'[Len(found')] = found[Len(found)]
      BY <1>3, <3>1
    <3>3. found' # << >>
      BY <1>3, <3>1
    <3> QED
      BY <1>4, <2>2, <2>3, <3>2, <3>3 DEF Current, Latest
  <2> QED
    BY <2>4, <2>5
<1> QED
  BY <1>2, <1>5, <1>6, <1>7, Zenon

(* Every step keeps a way for the board to learn of the refs as they are.  *)
LEMMA CurrentStep ==
    ASSUME Control, Queued, Current, [Next]_vars
    PROVE  Current'
<1> USE BaseAssumption DEF FinishSteps, SyncSteps, Over
<1>1. ASSUME NEW t \in Tasks, FinishStarts(t) PROVE Current'
  <2>1. Moved => Moved'
    BY <1>1 DEF FinishStarts, Fin, Syn, Moved, Control
  <2>2. UNCHANGED <<base, tracking, drift, missed>>
    BY <1>1 DEF FinishStarts, Quiet, histories
  <2> QED
    BY <2>1, <2>2, CurrentSame
<1>2. ASSUME NEW t \in Tasks, FinishCheckClean(t) PROVE Current'
  <2>1. Moved => Moved'
    BY <1>2 DEF FinishCheckClean, Fin, Syn, Moved, Control
  <2>2. UNCHANGED <<base, tracking, drift, missed>>
    BY <1>2 DEF FinishCheckClean, Quiet, histories
  <2> QED
    BY <2>1, <2>2, CurrentSame
<1>3. ASSUME NEW t \in Tasks, PullFetch(t) PROVE Current'
  <2>1. CASE Fin(t, "merge")
    <3>1. Moved'
      BY <2>1 DEF Fin, Syn, Moved, Control
    <3> QED
      BY <3>1 DEF Current
  <2>2. CASE UNCHANGED <<tracking, missed>> /\ Fin(t, "failed")
    <3>1. Moved => Moved'
      BY <1>3, <2>2 DEF PullFetch, Fin, Syn, Moved, Control
    <3>2. UNCHANGED <<base, tracking, drift, missed>>
      BY <1>3, <2>2 DEF PullFetch
    <3> QED
      BY <3>1, <3>2, CurrentSame
  <2>3. CASE Untold(Counts')
    <3>1. UNCHANGED <<found, shown>>
      BY <1>3 DEF PullFetch, drift
    <3> QED
      BY <2>3, <3>1, CurrentUntold
  <2> QED
    BY <1>3, <2>1, <2>2, <2>3 DEF PullFetch, FetchFails
<1>4. ASSUME NEW t \in Tasks, PullMerge(t) PROVE Current'
  <2>1. CASE Fin(t, "rebase")
    <3>1. Moved'
      BY <2>1 DEF Fin, Moved, Control
    <3> QED
      BY <3>1 DEF Current
  <2>2. CASE (MergeConflicts \/ MergeRefused) /\ Unnotified
    <3>1. UNCHANGED <<base, tracking, found, shown>>
      BY <1>4, <2>2 DEF PullMerge, MergeConflicts, MergeRefused, histories, drift
    <3> QED
      BY <2>2, <3>1, CurrentUntold DEF Unnotified, Counts, Drift
  <2> QED
    BY <1>4, <2>1, <2>2 DEF PullMerge
<1>5. ASSUME NEW t \in Tasks, Rebase(t) PROVE Current'
  <2>1. CASE Fin(t, "forward") \/ Fin(t, "abort")
    <3>1. Moved'
      BY <2>1 DEF Fin, Moved, Control
    <3> QED
      BY <3>1 DEF Current
  <2>2. CASE Unnotified
    <3>1. UNCHANGED <<base, tracking, found, shown>>
      BY <1>5 DEF Rebase, histories, drift
    <3> QED
      BY <2>2, <3>1, CurrentUntold DEF Unnotified, Counts, Drift
  <2> QED
    BY <1>5, <2>1, <2>2 DEF Rebase
<1>6. ASSUME NEW t \in Tasks, RebaseAborts(t) PROVE Current'
  <2>1. Untold(Counts) /\ UNCHANGED <<base, tracking, found, shown>>
    BY <1>6 DEF RebaseAborts, Unnotified, histories, drift
  <2> QED
    BY <2>1, CurrentUntold DEF Counts, Drift
<1>7. ASSUME NEW t \in Tasks, FastForward(t) PROVE Current'
  <2>1. CASE asked' = asked + 1
    BY <2>1 DEF Current, Control
  <2>2. CASE Unnotified /\ UNCHANGED histories
    <3>1. UNCHANGED <<base, tracking, found, shown>>
      BY <1>7, <2>2 DEF FastForward, histories
    <3> QED
      BY <2>2, <3>1, CurrentUntold DEF Unnotified, Counts, Drift
  <2> QED
    BY <1>7, <2>1, <2>2 DEF FastForward
<1>8. ASSUME NEW t \in Tasks, FinishDies(t) PROVE Current'
  <2>1. Untold(Counts') /\ UNCHANGED <<found, shown>>
    BY <1>8 DEF FinishDies, drift
  <2> QED
    BY <2>1, CurrentUntold
<1>9. ASSUME NEW t \in Tasks, AgentCommits(t) PROVE Current'
  <2>1. Moved => Moved'
    BY <1>9 DEF AgentCommits, Fin, Syn, Moved, Control
  <2>2. UNCHANGED <<base, tracking, drift, missed>>
    BY <1>9 DEF AgentCommits, Quiet, histories
  <2> QED
    BY <2>1, <2>2, CurrentSame
<1>10. ASSUME NEW s \in Syncs, SyncStarts(s) PROVE Current'
  <2>1. Moved => Moved'
    BY <1>10 DEF SyncStarts, Fin, Syn, Moved, Control
  <2>2. UNCHANGED <<base, tracking, drift, missed>>
    BY <1>10 DEF SyncStarts, Quiet, histories
  <2> QED
    BY <2>1, <2>2, CurrentSame
<1>11. ASSUME NEW s \in Syncs, SyncCheckClean(s) PROVE Current'
  <2>1. Moved => Moved'
    BY <1>11 DEF SyncCheckClean, Fin, Syn, Moved, Control
  <2>2. UNCHANGED <<base, tracking, drift, missed>>
    BY <1>11 DEF SyncCheckClean, Quiet, histories
  <2> QED
    BY <2>1, <2>2, CurrentSame
<1>12. ASSUME NEW s \in Syncs, SyncFetch(s) PROVE Current'
  <2>1. CASE Syn(s, "count")
    <3>1. Moved'
      BY <2>1 DEF Fin, Syn, Moved, Control
    <3> QED
      BY <3>1 DEF Current
  <2>2. CASE UNCHANGED <<tracking, missed>> /\ Syn(s, "failed")
    <3>1. Moved => Moved'
      BY <1>12, <2>2 DEF SyncFetch, Fin, Syn, Moved, Control
    <3>2. UNCHANGED <<base, tracking, drift, missed>>
      BY <1>12, <2>2 DEF SyncFetch
    <3> QED
      BY <3>1, <3>2, CurrentSame
  <2>3. CASE Untold(Counts')
    <3>1. UNCHANGED <<found, shown>>
      BY <1>12 DEF SyncFetch, drift
    <3> QED
      BY <2>3, <3>1, CurrentUntold
  <2> QED
    BY <1>12, <2>1, <2>2, <2>3 DEF SyncFetch, FetchFails
<1>13. ASSUME NEW s \in Syncs, SyncCount(s) PROVE Current'
  <2>1. CASE Syn(s, "merge") \/ Syn(s, "push")
    <3>1. Moved'
      BY <2>1 DEF Syn, Moved, Control
    <3> QED
      BY <3>1 DEF Current
  <2>2. CASE asked' = asked + 1
    BY <2>2 DEF Current, Control
  <2>3. CASE Untold(Counts)
    <3>1. UNCHANGED <<base, tracking, found, shown>>
      BY <1>13 DEF SyncCount, histories
    <3> QED
      BY <2>3, <3>1, CurrentUntold DEF Counts, Drift
  <2> QED
    BY <1>13, <2>1, <2>2, <2>3 DEF SyncCount, Finished
<1>14. ASSUME NEW s \in Syncs, SyncMerge(s) PROVE Current'
  <2>1. Moved'
    BY <1>14 DEF SyncMerge, Syn, Moved, Control
  <2> QED
    BY <2>1 DEF Current
<1>15. ASSUME NEW s \in Syncs, SyncAborts(s) PROVE Current'
  <2>1. Untold(Counts) /\ UNCHANGED <<base, tracking, found, shown>>
    BY <1>15 DEF SyncAborts, Unnotified, histories, drift
  <2> QED
    BY <2>1, CurrentUntold DEF Counts, Drift
<1>16. ASSUME NEW s \in Syncs, SyncPush(s) PROVE Current'
  <2>1. UNCHANGED <<base, found, shown>>
    BY <1>16 DEF SyncPush
  <2>2. CASE asked' = asked + 1
    BY <2>2 DEF Current, Control
  <2>3. CASE tracking' = base /\ Untold(Drift(base, base))
    BY <2>1, <2>3, CurrentUntold DEF Counts, Drift
  <2>4. CASE Unnotified /\ UNCHANGED tracking
    BY <2>1, <2>4, CurrentUntold DEF Unnotified, Counts, Drift
  <2> QED
    BY <1>16, <2>2, <2>3, <2>4 DEF SyncPush, Finished
<1>17. ASSUME NEW s \in Syncs, SyncDies(s) PROVE Current'
  <2>1. Untold(Counts') /\ UNCHANGED <<found, shown>>
    BY <1>17 DEF SyncDies, drift
  <2> QED
    BY <2>1, CurrentUntold
<1>18. CASE Measure
  <2>1. PICK c \in {Counts, None} : found' = Append(found, [counts |-> c, late |-> FALSE])
    BY <1>18 DEF Measure
  <2> DEFINE x == [counts |-> c, late |-> FALSE]
  <2>2. PICK T : found \in Seq(Results(T))
    BY DEF Queued
  <2>3. found \in Seq(Results(T) \cup {x}) /\ found' = Append(found, x) /\ ~x.late /\ x.counts =
     c
    BY <2>1, <2>2, SeqMonotonic
  <2> HIDE DEF x
  <2>4. found' # << >> /\ Len(found') = Len(found) + 1 /\ found'[Len(found) + 1] = x
    BY <2>3, AppendProperties
  <2>5. Counts' = Counts
    BY <1>18 DEF Measure, Counts, Drift, histories
  <2> QED
    BY <2>3, <2>4, <2>5 DEF Current, Latest
<1>19. CASE Measured
  BY <1>19, MeasuredStep
<1>20. CASE DispatchFetches
  <2>1. CASE asked' = asked + 1
    BY <2>1 DEF Current, Control
  <2>2. CASE Untold(Drift(base, origin))
    <3>1. tracking' = origin /\ UNCHANGED <<base, found, shown>>
      BY <1>20 DEF DispatchFetches
    <3> QED
      BY <2>2, <3>1, CurrentUntold DEF Counts, Drift
  <2> QED
    BY <1>20, <2>1, <2>2 DEF DispatchFetches
<1>21. CASE OthersPush
  <2>1. Moved => Moved'
    BY <1>21 DEF OthersPush, Fin, Syn, Moved, Control
  <2>2. UNCHANGED <<base, tracking, drift, missed>>
    BY <1>21 DEF OthersPush, Quiet, histories
  <2> QED
    BY <2>1, <2>2, CurrentSame
<1>22. CASE UserSwitches
  <2>1. Moved => Moved'
    BY <1>22 DEF UserSwitches, Fin, Syn, Moved, Control
  <2>2. UNCHANGED <<base, tracking, drift, missed>>
    BY <1>22 DEF UserSwitches, Quiet, histories
  <2> QED
    BY <2>1, <2>2, CurrentSame
<1>23. CASE UserEdits
  <2>1. Moved => Moved'
    BY <1>23 DEF UserEdits, Fin, Syn, Moved, Control
  <2>2. UNCHANGED <<base, tracking, drift, missed>>
    BY <1>23 DEF UserEdits, Quiet, histories
  <2> QED
    BY <2>1, <2>2, CurrentSame
<1>24. CASE UNCHANGED vars
  BY <1>24, CurrentSame DEF vars, Moved, histories
<1>25. ASSUME NEW p \in strays, StrayEnds(p) PROVE Current'
  <2>1. Untold(Counts') /\ UNCHANGED <<found, shown>>
    BY <1>25 DEF StrayEnds, drift
  <2> QED
    BY <2>1, CurrentUntold
<1> QED
  BY <1>1, <1>2, <1>3, <1>4, <1>5, <1>6, <1>7, <1>8, <1>9, <1>10, <1>11, <1>12, <1>13, <1>14,
     <1>15, <1>16, <1>17, <1>18, <1>19, <1>20, <1>21, <1>22, <1>23, <1>24, <1>25 DEF Next, Finish, Sync

-----------------------------------------------------------------------------
(* The inductive invariant, and what follows from it.                      *)
IInv ==
    Control /\ Flags /\ Led /\ Branched /\ Contained /\ FinishedIsMerged /\ Known /\ Queued /\ Current

(* The invariant holds initially, ...                                    *)
LEMMA IInvStarts ==
    ASSUME Init
    PROVE  IInv
<1> USE BaseAssumption
<1>1. Control /\ Led /\ Known /\ FinishedIsMerged
  BY DEF Init, Control, Led, Straying, Known, FinishedIsMerged, FinishSteps, SyncSteps, Over
<1>2. Flags
  BY DEF Init, Flags
<1>3. Branched
  BY DEF Init, Branched
<1>4. Contained
  <2>1. Within(1)
    BY DEF Init, Within, Upto
  <2> QED
    BY <2>1 DEF Init, Contained
<1>5. Queued
  BY DEF Init, Queued
<1>6. Current
  BY DEF Init, Current, Latest
<1> QED
  BY <1>1, <1>2, <1>3, <1>4, <1>5, <1>6 DEF IInv

(* ... every step keeps it, ...                                          *)
LEMMA IInvStep ==
    ASSUME IInv, [Next]_vars
    PROVE  IInv'
BY ControlStep, FlagsStep, LedStep, BranchedStep, ContainedStep, MergedStep, KnownStep, QueuedStep,
   CurrentStep, Zenon DEF IInv

(* ... and it contains what is claimed of the state at rest.             *)
LEMMA IInvEnds ==
    ASSUME IInv
    PROVE  LeftoversAreKnown /\ DriftIsKnown
<1>1. TypeOK
  <2>1. PICK n \in Nat : Within(n)
    BY DEF IInv, Contained
  <2>2. \A h \in {base, other, origin, tracking} \cup {branch[t] : t \in Tasks} :
          h \subseteq (Tasks \cup {"origin", "merge"}) \X Nat
    BY <2>1 DEF Within, Upto
  <2> QED
    BY <2>2 DEF TypeOK, IInv, Control, Flags, Branched, Contained
<1>2. InFlight = {} => (\A s \in Syncs : syn[s] \in Over) /\ (\A t \in Tasks : fin[t] \in Over)
  BY DEF InFlight
<1>3. LeftoversAreKnown
  BY <1>1, <1>2 DEF LeftoversAreKnown, IInv, Known, Over
<1>4. DriftIsKnown
  <2>1. InFlight = {} => ~Moved
    BY <1>2 DEF Moved, Over
  <2> QED
    BY <2>1 DEF DriftIsKnown, IInv, Current, Latest
<1> QED
  BY <1>3, <1>4

(* At every state of every run.                                            *)
LEMMA IInvHolds == Spec => []IInv
<1>1. Init => IInv
  BY IInvStarts
<1>2. IInv /\ [Next]_vars => IInv'
  BY IInvStep
<1> QED
  BY <1>1, <1>2, PTL DEF Spec

(* No finish, sync, push, fetch or user takes a commit off the base, off   *)
(* another branch of the checkout or off origin; and another branch than   *)
(* the base moves only under an operation the user switched branches under. *)
THEOREM OnlyGrows == Spec => HistoriesOnlyGrow
<1>1. IInv /\ [Next]_vars => [OnlyGrow]_vars
  BY GrowStep DEF IInv
<1> QED
  BY <1>1, IInvHolds, PTL DEF Spec, HistoriesOnlyGrow

(* A finish that reports success has put the task's work on the base,      *)
(* unless the user switched branches under it.                             *)
THEOREM FinishedMerged == Spec => []FinishedIsMerged
<1>1. IInv => FinishedIsMerged
  BY DEF IInv
<1> QED
  BY <1>1, IInvHolds, PTL

(* The state is well formed, and at rest a merge or a rebase is left in    *)
(* the middle only for the reasons that are known.                         *)
THEOREM LeftoversKnown == Spec => []LeftoversAreKnown
<1>1. IInv => LeftoversAreKnown
  BY IInvEnds
<1> QED
  BY <1>1, IInvHolds, PTL

(* With nothing under way the board shows the drift of the refs, or that   *)
(* it could not be measured, unless it was not told or heard it too late.  *)
THEOREM DriftKnown == Spec => []DriftIsKnown
<1>1. IInv => DriftIsKnown
  BY IInvEnds
<1> QED
  BY <1>1, IInvHolds, PTL
=============================================================================
