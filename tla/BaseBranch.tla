----------------------------- MODULE BaseBranch -----------------------------
(***************************************************************************)
(* One repository's primary checkout and its base branch, which every task *)
(* of the repository shares: finish_task (the rebase wrap-up of a task),   *)
(* sync_repo (from the board or the CLI) and the drift the board measures  *)
(* and shows.  Every git command is a step, so any two operations          *)
(* interleave with each other, with pushes of others to origin and with    *)
(* what the user does in the checkout.                                     *)
(*                                                                         *)
(* A history is a set of commits, and a branch contains another when its   *)
(* set does.  Abstracted: what a task's branch adds is one commit, which a *)
(* rebase rewrites; the repository has an origin.                          *)
(***************************************************************************)
EXTENDS Naturals, Sequences, FiniteSets, FiniteSetsExt

CONSTANTS
    Tasks,              \* tasks with a worktree of this repository
    BoardSyncs, CliSyncs, \* calls of sync_repo, each made once
    MaxTries,           \* bound: wrap_up calls
    MaxOutside,         \* bound: what others and the user do
    None

Syncs == BoardSyncs \cup CliSyncs

ASSUME BaseAssumption ==
    /\ BoardSyncs \cap CliSyncs = {} /\ Tasks \cap Syncs = {} /\ None \notin Tasks
    /\ MaxTries \in Nat /\ MaxOutside \in Nat

VARIABLES
    base, other, origin, tracking, merges, \* base, another branch, origin's base, origin/base
    head, merging, edited,      \* the checkout: its branch, MERGE_HEAD, uncommitted edits
    branch, rebasing,           \* per worktree: its branch, an unfinished rebase
    fin, tries, syn,            \* the step of each finish and sync
    strays,                     \* what killed pulls were running, which goes on
    asked, found, shown,        \* measurements: not taken, not delivered, RepoSyncCache
    outside, switched, left, missed    \* bound; history (see the properties)

histories == <<base, other, origin, tracking, merges>>
checkout == <<head, merging, edited>>
worktrees == <<branch, rebasing>>
drift == <<asked, found, shown>>
vars == <<histories, checkout, worktrees, fin, tries, syn, strays, drift, outside, switched, left,
          missed>>

FinishSteps == {"clean", "fetch", "merge", "rebase", "abort", "forward"}
SyncSteps == {"clean", "fetch", "count", "merge", "abort", "recount", "push"}
Over == {"idle", "ok", "failed"}
LeftByMerge == {"pull", "killed merge", "merge abort"}
LeftByRebase == {"killed rebase", "rebase abort"}
Drift(b, o) == [ahead |-> Cardinality(b \ o), behind |-> Cardinality(o \ b)]
Counts == Drift(base, tracking)

TypeOK ==
    /\ \A h \in {base, other, origin, tracking} \cup {branch[t] : t \in Tasks} :
         h \subseteq (Tasks \cup {"origin", "merge"}) \X Nat
    /\ tracking \subseteq origin /\ merges \in Nat
    /\ head \in {"base", "other"} /\ merging \in BOOLEAN /\ edited \in BOOLEAN
    /\ DOMAIN branch = Tasks /\ rebasing \in [Tasks -> BOOLEAN]
    /\ fin \in [Tasks -> FinishSteps \cup Over] /\ tries \in 0..MaxTries
    /\ syn \in [Syncs -> SyncSteps \cup Over]
    /\ asked \in Nat /\ outside \in 0..MaxOutside /\ missed \in BOOLEAN
    /\ strays \subseteq Tasks \X {"fetch", "merge"}
    /\ switched \subseteq Tasks \cup Syncs /\ left \subseteq LeftByMerge \cup LeftByRebase

-----------------------------------------------------------------------------
Fin(t, step) == fin' = [fin EXCEPT ![t] = step]
Syn(s, step) == syn' = [syn EXCEPT ![s] = step]
(* What an operation that fails has moved, no refresh will tell the board. *)
Untold(counts) == missed' = (missed \/ shown # counts \/ found # << >>)
Unnotified == Untold(Counts)
Quiet == UNCHANGED <<drift, missed>>

HeadHistory == IF head = "base" THEN base ELSE other
Diverged == ~(tracking \subseteq HeadHistory) /\ ~(HeadHistory \subseteq tracking)
(* git merge of origin/base, into whatever is checked out.                 *)
MergeLands ==
    /\ ~merging
    /\ LET h == IF ~Diverged THEN HeadHistory \cup tracking
                ELSE HeadHistory \cup tracking \cup {<<"merge", merges + 1>>}
       IN  IF head = "base" THEN base' = h /\ UNCHANGED other
                            ELSE other' = h /\ UNCHANGED base
    /\ merges' = IF Diverged THEN merges + 1 ELSE merges
    /\ UNCHANGED <<origin, tracking, checkout>>
MergeConflicts == ~merging /\ Diverged /\ merging' = TRUE /\ UNCHANGED <<histories, head, edited>>
MergeRefused == (merging \/ edited) /\ UNCHANGED <<histories, checkout>>
(* git merge, killed at its timeout: before it did anything, when it had   *)
(* landed, with MERGE_HEAD written, or with the files half updated.        *)
MergeKilled ==
    \/ UNCHANGED <<histories, checkout, left>>
    \/ MergeLands /\ UNCHANGED left
    \/ MergeConflicts /\ left' = left \cup {"killed merge"}
    \/ /\ ~merging /\ ~(tracking \subseteq HeadHistory) /\ edited' = TRUE
       /\ UNCHANGED <<histories, head, merging, left>>
(* A fetch that fails may have moved origin/base before it did.            *)
FetchFails ==
    \/ UNCHANGED <<tracking, missed>>
    \/ tracking # origin /\ tracking' = origin /\ UNCHANGED base /\ Untold(Counts')

Straying == {p[1] : p \in strays}
(* Mutant: the branch that is checked out is not looked at.                *)
FinishStartsAnywhere(t) ==
    /\ fin[t] \in {"idle", "failed"} /\ tries < MaxTries
    /\ tries' = tries + 1 /\ switched' = switched \ ({t} \ Straying)
    /\ Fin(t, "clean")
    /\ UNCHANGED <<histories, checkout, worktrees, syn, strays, outside, left>> /\ Quiet
(* finish_task: the two preconditions, each a read of its own.             *)
FinishStarts(t) ==
    /\ fin[t] \in {"idle", "failed"} /\ tries < MaxTries
    /\ tries' = tries + 1 /\ switched' = switched \ ({t} \ Straying)
    /\ Fin(t, IF head = "base" THEN "clean" ELSE "failed")
    /\ UNCHANGED <<histories, checkout, worktrees, syn, strays, outside, left>> /\ Quiet
(* A checkout with edits or an unfinished merge is refused, and so is one  *)
(* whose git status cannot be run; but a status that exits with an error   *)
(* lists nothing, so that any checkout may pass for clean.                 *)
FinishCheckClean(t) ==
    /\ fin[t] = "clean"
    /\ Fin(t, "failed") \/ Fin(t, "fetch")
    /\ UNCHANGED <<histories, checkout, worktrees, tries, syn, strays, outside, switched,
                   left>> /\ Quiet

(* git pull --no-rebase: the fetch, then the merge, each in a process of   *)
(* its own.  A pull that is killed at its timeout leaves the one it was    *)
(* running.                                                                *)
PullFetch(t) ==
    /\ fin[t] = "fetch"
    /\ \/ tracking' = origin /\ Fin(t, "merge") /\ UNCHANGED <<strays, missed>>
       \/ FetchFails /\ Fin(t, "failed") /\ UNCHANGED strays
       \/ /\ Fin(t, "failed") /\ strays' = strays \cup {<<t, "fetch">>}
          /\ UNCHANGED <<tracking, missed>>
    /\ UNCHANGED <<base, other, origin, merges, checkout, worktrees, tries, syn, drift, outside,
                   switched, left>>
(* What fast-forwards is ahead of what is checked out by now, or in it.    *)
Forwarded(t) ==
    /\ ~merging /\ (HeadHistory \subseteq branch[t] \/ branch[t] \subseteq HeadHistory)
    /\ IF head = "base" THEN base' = base \cup branch[t] /\ UNCHANGED other
                        ELSE other' = other \cup branch[t] /\ UNCHANGED base
    /\ UNCHANGED <<origin, tracking, merges>>

(* A merge that conflicts fails the pull, and nothing aborts it.           *)
PullMerge(t) ==
    /\ fin[t] = "merge"
    /\ \/ MergeLands /\ Fin(t, "rebase") /\ UNCHANGED <<left, missed>>
       \/ MergeConflicts /\ Fin(t, "failed") /\ left' = left \cup {"pull"} /\ Unnotified
       \/ MergeRefused /\ Fin(t, "failed") /\ Unnotified /\ UNCHANGED left
    /\ UNCHANGED <<worktrees, tries, syn, strays, drift, outside, switched>>

(* A command that cannot be run, or is killed: the finish, and the sync,   *)
(* return at once, and abort nothing.                                      *)
FinishDies(t) ==
    /\ fin[t] \in {"merge", "rebase", "forward"} /\ Fin(t, "failed")
    /\ \/ UNCHANGED <<histories, edited, strays>>
       \/ /\ fin[t] = "merge" /\ strays' = strays \cup {<<t, "merge">>}
          /\ UNCHANGED <<histories, edited>>
       \/ /\ fin[t] = "forward" /\ UNCHANGED strays
          /\ \/ Forwarded(t) /\ UNCHANGED edited
             \/ edited' = TRUE /\ UNCHANGED histories
    /\ Untold(Counts')
    /\ UNCHANGED <<head, merging, worktrees, tries, syn, drift, outside, switched, left>>
(* The fetch, or the merge, of a killed pull comes to its end.             *)
StrayEnds(p) ==
    /\ p \in strays /\ strays' = strays \ {p}
    /\ \/ /\ p[2] = "fetch" /\ tracking' = origin
          /\ UNCHANGED <<base, other, origin, merges, checkout, left>>
       \/ p[2] = "merge" /\ MergeLands /\ UNCHANGED left
       \/ p[2] = "merge" /\ MergeConflicts /\ left' = left \cup {"pull"}
       \/ UNCHANGED <<histories, checkout, left>>
    /\ Untold(Counts')
    /\ UNCHANGED <<worktrees, fin, tries, syn, drift, outside, switched>>
SyncDies(s) ==
    /\ syn[s] = "merge" /\ Syn(s, "failed") /\ MergeKilled /\ Untold(Counts')
    /\ UNCHANGED <<worktrees, fin, tries, strays, drift, outside, switched>>

Own(t) == branch[t] \ base
Rewritten(t) == {<<t, 1 + Max({c[2] : c \in {d \in branch[t] : d[1] = t}})>>}
(* git rebase base, in the worktree.  A conflict is aborted; a rebase that *)
(* is killed at its timeout returns at once; one that finds the worktree   *)
(* in the middle of an earlier rebase fails, and aborts that one.          *)
Rebase(t) ==
    /\ fin[t] = "rebase"
    /\ \/ /\ ~rebasing[t] /\ Fin(t, "forward")
          /\ branch' = [branch EXCEPT ![t] =
                IF base \subseteq @ THEN @
                ELSE base \cup (IF Own(t) = {} THEN {} ELSE Rewritten(t))]
          /\ UNCHANGED <<rebasing, left, missed>>
       \/ /\ ~rebasing[t] /\ Own(t) # {} /\ ~(base \subseteq branch[t])
          /\ rebasing' = [rebasing EXCEPT ![t] = TRUE]
          /\ \/ Fin(t, "abort") /\ UNCHANGED <<left, missed>>
             \/ Fin(t, "failed") /\ left' = left \cup {"killed rebase"} /\ Unnotified
          /\ UNCHANGED branch
       \/ rebasing[t] /\ Fin(t, "abort") /\ UNCHANGED <<worktrees, left, missed>>
    /\ UNCHANGED <<histories, checkout, tries, syn, strays, drift, outside, switched>>
RebaseAborts(t) ==
    /\ fin[t] = "abort" /\ Fin(t, "failed") /\ Unnotified
    /\ \/ rebasing' = [rebasing EXCEPT ![t] = FALSE] /\ UNCHANGED left
       \/ left' = left \cup {"rebase abort"} /\ UNCHANGED rebasing
    /\ UNCHANGED <<histories, checkout, branch, tries, syn, strays, drift, outside, switched>>

(* Mutant: nothing is refreshed after the base has moved.                  *)
FastForwardUnnotified(t) ==
    /\ fin[t] = "forward" /\ ~merging /\ head = "base" /\ base \subseteq branch[t]
    /\ base' = branch[t] /\ Fin(t, "ok")
    /\ UNCHANGED <<other, origin, tracking, merges, checkout, worktrees, tries, syn, strays,
                   outside, switched, left>> /\ Quiet
(* git merge --ff-only, again into whatever is checked out by now; only    *)
(* what succeeds is announced (BranchRebased).                             *)
FastForward(t) ==
    /\ fin[t] = "forward"
    /\ \/ Forwarded(t) /\ Fin(t, "ok") /\ asked' = asked + 1 /\ UNCHANGED missed
       \/ /\ merging \/ edited \/ ~(HeadHistory \subseteq branch[t])
          /\ Fin(t, "failed") /\ UNCHANGED <<histories, asked>> /\ Unnotified
    /\ UNCHANGED <<checkout, worktrees, tries, syn, strays, found, shown, outside, switched,
                   left>>

-----------------------------------------------------------------------------
(* confirm_repo_sync acts on the drift it shows, the CLI asks for none.    *)
HasDrift(m) == m # None /\ (m.ahead > 0 \/ m.behind > 0)
SyncStarts(s) ==
    /\ syn[s] = "idle" /\ (s \in BoardSyncs => HasDrift(shown))
    /\ switched' = switched \ {s}
    /\ Syn(s, IF head = "base" THEN "clean" ELSE "failed")
    /\ UNCHANGED <<histories, checkout, worktrees, fin, tries, strays, outside, left>> /\ Quiet
SyncCheckClean(s) ==
    /\ syn[s] = "clean"
    /\ Syn(s, "failed") \/ Syn(s, "fetch")
    /\ UNCHANGED <<histories, checkout, worktrees, fin, tries, strays, outside, switched,
                   left>> /\ Quiet
SyncFetch(s) ==
    /\ syn[s] = "fetch"
    /\ \/ tracking' = origin /\ Syn(s, "count") /\ UNCHANGED missed
       \/ FetchFails /\ Syn(s, "failed")
    /\ UNCHANGED <<base, other, origin, merges, checkout, worktrees, fin, tries, strays, drift,
                   outside, switched, left>>
(* A success the board is told of refreshes its measurement.               *)
Finished(s, counts) ==
    /\ Syn(s, "ok")
    /\ IF s \in BoardSyncs THEN asked' = asked + 1 /\ UNCHANGED missed
                           ELSE UNCHANGED asked /\ Untold(counts)
(* ahead_behind before the merge, and again after it; a count that cannot  *)
(* be read does nothing more.                                              *)
SyncCount(s) ==
    /\ syn[s] \in {"count", "recount"}
    /\ \/ Finished(s, Counts)
       \/ /\ UNCHANGED <<asked, missed>>
          /\ \/ syn[s] = "count" /\ Counts.behind > 0 /\ Syn(s, "merge")
             \/ (Counts.behind = 0 \/ syn[s] = "recount") /\ Counts.ahead > 0 /\ Syn(s, "push")
    /\ UNCHANGED <<histories, checkout, worktrees, fin, tries, strays, found, shown, outside,
                   switched, left>>
(* Mutant: divergence is closed by resetting the base to origin's.         *)
SyncResets(s) ==
    /\ syn[s] = "merge" /\ ~merging /\ head = "base"
    /\ base' = tracking /\ Syn(s, "recount")
    /\ UNCHANGED <<other, origin, tracking, merges, checkout, worktrees, fin, tries, strays,
                   outside, switched, left>> /\ Quiet
SyncMerge(s) ==
    /\ syn[s] = "merge"
    /\ \/ MergeLands /\ Syn(s, "recount")
       \/ (MergeConflicts \/ MergeRefused) /\ Syn(s, "abort")
    /\ UNCHANGED <<worktrees, fin, tries, strays, outside, switched, left>> /\ Quiet
(* Mutant: the conflicted paths are reported and the merge left there.     *)
SyncLeavesMerge(s) ==
    /\ syn[s] = "abort" /\ Syn(s, "failed") /\ Unnotified
    /\ UNCHANGED <<histories, checkout, worktrees, fin, tries, strays, drift, outside, switched,
                   left>>
SyncAborts(s) ==
    /\ syn[s] = "abort" /\ Syn(s, "failed") /\ Unnotified
    /\ \/ merging' = FALSE /\ UNCHANGED left
       \/ UNCHANGED merging /\ left' = left \cup {"merge abort"}
    /\ UNCHANGED <<histories, head, edited, worktrees, fin, tries, strays, drift, outside,
                   switched>>
(* git push origin base: rejected when origin moved, refused, or killed    *)
(* when the push had gone through.                                         *)
SyncPush(s) ==
    /\ syn[s] = "push"
    /\ \/ /\ origin \subseteq base /\ origin' = base /\ tracking' = base
          /\ Finished(s, Drift(base, base))
       \/ /\ origin \subseteq base /\ origin' = base
          /\ Syn(s, "failed") /\ Unnotified /\ UNCHANGED <<tracking, asked>>
       \/ Syn(s, "failed") /\ Unnotified /\ UNCHANGED <<origin, tracking, asked>>
    /\ UNCHANGED <<base, other, merges, checkout, worktrees, fin, tries, strays, found, shown,
                   outside, switched, left>>

-----------------------------------------------------------------------------
(* measure_repo, which may be unable to count, and the message that brings *)
(* its result to the board.                                                *)
Measure ==
    /\ asked > 0 /\ asked' = asked - 1
    /\ \E c \in {Counts, None} : found' = Append(found, [counts |-> c, late |-> FALSE])
    /\ UNCHANGED <<histories, checkout, worktrees, fin, tries, syn, strays, shown, outside,
                   switched,
                   left, missed>>
Measured ==
    /\ \E i \in 1..Len(found) :
         /\ shown' = found[i].counts
         /\ found' = [j \in 1..(i - 1) |-> [found[j] EXCEPT !.late = TRUE]]
                       \o SubSeq(found, i + 1, Len(found))
         /\ missed' = ((missed \/ found[i].late) /\ (shown' # Counts \/ found' # << >>))
    /\ UNCHANGED <<histories, checkout, worktrees, fin, tries, syn, strays, asked, outside,
                   switched, left>>
(* A dispatch fetches the base for its worktree; one that succeeds asks    *)
(* for a refresh.                                                          *)
DispatchFetches ==
    /\ outside < MaxOutside /\ outside' = outside + 1
    /\ tracking' = origin
    /\ \/ asked' = asked + 1 /\ UNCHANGED missed
       \/ Untold(Drift(base, origin)) /\ UNCHANGED asked
    /\ UNCHANGED <<base, other, origin, merges, checkout, worktrees, fin, tries, syn, strays,
                   found,
                   shown, switched, left>>

(* Others push to origin; the user edits, switches branches and gives up a *)
(* merge left in the checkout; the agent goes on working after a finish.   *)
OthersPush ==
    /\ outside < MaxOutside /\ outside' = outside + 1
    /\ origin' = origin \cup {<<"origin", outside>>}
    /\ UNCHANGED <<base, other, tracking, merges, checkout, worktrees, fin, tries, syn, strays,
                   switched, left>> /\ Quiet
InFlight == {t \in Tasks : fin[t] \notin Over} \cup {s \in Syncs : syn[s] \notin Over}
UserSwitches ==
    /\ outside < MaxOutside /\ outside' = outside + 1 /\ ~merging
    /\ head' = (IF head = "base" THEN "other" ELSE "base")
    /\ switched' = switched \cup InFlight \cup Straying
    /\ UNCHANGED <<histories, merging, edited, worktrees, fin, tries, syn, strays, left>> /\ Quiet
UserEdits ==
    /\ outside < MaxOutside /\ outside' = outside + 1
    /\ \/ edited' = ~edited /\ UNCHANGED merging
       \/ merging /\ merging' = FALSE /\ UNCHANGED edited
    /\ UNCHANGED <<histories, head, worktrees, fin, tries, syn, strays, switched, left>> /\ Quiet
AgentCommits(t) ==
    /\ fin[t] = "ok" /\ tries < MaxTries
    /\ fin' = [fin EXCEPT ![t] = "idle"]
    /\ branch' = [branch EXCEPT ![t] = @ \cup Rewritten(t)]
    /\ UNCHANGED <<histories, checkout, rebasing, tries, syn, strays, outside, switched,
                   left>> /\ Quiet

Init ==
    /\ base = {} /\ other = {} /\ tracking = {} /\ merges = 0
    /\ origin = {} /\ head = "base" /\ merging = FALSE /\ edited = FALSE
    /\ branch = [t \in Tasks |-> {<<t, 1>>}] /\ rebasing = [t \in Tasks |-> FALSE]
    /\ fin = [t \in Tasks |-> "idle"] /\ tries = 0
    /\ syn = [s \in Syncs |-> "idle"] /\ strays = {}
    /\ asked = 0 /\ found = << >> /\ shown = Counts
    /\ outside = 0 /\ switched = {} /\ left = {} /\ missed = FALSE

Finish(t) ==
    \/ FinishStarts(t) \/ FinishCheckClean(t) \/ PullFetch(t) \/ PullMerge(t)
    \/ Rebase(t) \/ RebaseAborts(t) \/ FastForward(t) \/ FinishDies(t)
Sync(s) ==
    \/ SyncStarts(s) \/ SyncCheckClean(s) \/ SyncFetch(s) \/ SyncCount(s)
    \/ SyncMerge(s) \/ SyncAborts(s) \/ SyncPush(s) \/ SyncDies(s)
Next ==
    \/ \E t \in Tasks : Finish(t) \/ AgentCommits(t)
    \/ \E s \in Syncs : Sync(s)
    \/ \E p \in strays : StrayEnds(p)
    \/ Measure \/ Measured \/ DispatchFetches
    \/ OthersPush \/ UserSwitches \/ UserEdits
Spec == Init /\ [][Next]_vars

-----------------------------------------------------------------------------
(* LocalBaseHistoryIsNeverRewritten, and origin's neither: whatever races, *)
(* no operation takes a commit away from a branch of the checkout or from  *)
(* origin; and a branch other than the base moves only by an operation, or *)
(* the merge that a killed pull leaves running, under which the user       *)
(* switched branches, since the branch is looked at once and every later   *)
(* command acts on what is checked out by then.                            *)
Steps(o) == IF o \in Tasks THEN <<fin[o], {p \in strays : p[1] = o}>> ELSE syn[o]
OnlyGrow ==
    /\ base \subseteq base' /\ other \subseteq other' /\ origin \subseteq origin'
    /\ other' # other => \E o \in switched : Steps(o)' # Steps(o)
HistoriesOnlyGrow == [][OnlyGrow]_vars

(* A finish that reports success has put the task's work on the base,      *)
(* whatever the other finishes, the syncs and origin did meanwhile, unless *)
(* the user switched branches under it, or under what an earlier attempt   *)
(* still had running.                                                      *)
FinishedIsMerged ==
    \A t \in Tasks : fin[t] = "ok" => branch[t] \subseteq base \/ t \in switched

(* The state is well formed, and at rest the checkout is mid-merge only    *)
(* after a pull that conflicted, which nothing aborts, a sync whose merge  *)
(* was killed at its timeout, or one whose abort failed; and a worktree is *)
(* mid-rebase only after a rebase that was killed or whose abort failed.   *)
(* A sync whose merge conflicts and is aborted leaves neither, whatever    *)
(* the finishes, the other syncs and the strays do in the same checkout.   *)
LeftoversAreKnown ==
    /\ TypeOK
    /\ InFlight = {} /\ merging => left \cap LeftByMerge # {}
    /\ InFlight = {} /\ (\E t \in Tasks : rebasing[t]) => left \cap LeftByRebase # {}

(* The documented form: the asymmetric case is an abort that failed.       *)
OnlyAFailedAbortLeaves ==
    InFlight = {} /\ (merging \/ \E t \in Tasks : rebasing[t])
      => left \cap {"merge abort", "rebase abort"} # {}

(* With no operation and no measurement under way the board shows the      *)
(* drift of the refs, or that it could not be measured, unless an          *)
(* operation that failed, or what it left running, had moved them, the CLI *)
(* did, or an older measurement arrived after a newer one.                 *)
DriftIsKnown ==
    InFlight = {} /\ asked = 0 /\ found = << >> => shown \in {Counts, None} \/ missed
=============================================================================
