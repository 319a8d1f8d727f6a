------------------------------ MODULE FeedSync ------------------------------
(***************************************************************************)
(* One feed epic: the per-epic cycle guard, the cycle (run the command,    *)
(* sync by role, tear down what was removed) and its three syncs: flat,    *)
(* grouped by repo, and routed to role sub-epics.  Beside it the user      *)
(* moves tasks and toggles the grouping, and dispatches the feed's tasks,  *)
(* whose worktree the sync removes with the row.  Each write is one        *)
(* transaction and a step; the reads a sync starts with are one instant.   *)
(*                                                                         *)
(* Abstracted: an item is its external id; metadata; manual tasks, which   *)
(* no statement touches; two role sub-epics instead of three, and the repo *)
(* groups a role may have (routing picks one as it picks a role); RepoGroup*)
(* sub-epics from before the epic had a feed command (flatten_epic, see    *)
(* EpicTree): the sub-epics a grouped feed makes are not of that origin.   *)
(***************************************************************************)
EXTENDS Naturals, FiniteSets

CONSTANTS
    Items, Cycles,      \* external ids; requests for a cycle, by tick or by key
    Parent, My, Team,   \* the feed epic and its sub-epics (My, Team: or two repos)
    Out, None,          \* an epic outside the subtree; no epic
    Roles,              \* feed_role of the epic: "none", "cve", "reviews_parent"
    MaxCopies,          \* bound: rows ever inserted for one item
    MaxActs             \* bound: moves, toggles and dispatches by the user

Subs == {My, Team}
Subtree == Subs \cup {Parent}
Epics == Subtree \cup {Out}
Rows == Items \X (1..MaxCopies)
Item(r) == r[1]

ASSUME FeedAssumption ==
    /\ My # Team /\ Parent \notin Subs /\ Out \notin Subtree /\ None \notin Epics
    /\ Roles \subseteq {"none", "cve", "reviews_parent"}
    /\ MaxCopies \in Nat /\ MaxActs \in Nat

VARIABLES
    role, grouped, repoOf,      \* the epic row; which sub-epic an item's repo names
    at, used,                   \* rows: their epic, or None; ids given out
    claimed, tree, recorded,    \* dispatch: under way, worktree made, pointer in the row
    inflight, cyc,              \* FeedSyncGuard.in_flight has the epic; the cycles
    synced,                     \* what the last undisturbed cycle put on the board
    touched, ungrouped, crossed, acts \* history (see the properties)

epicRow == <<role, grouped, repoOf>>
rowVars == <<at, used>>
agents == <<claimed, tree, recorded>>
history == <<touched, ungrouped, crossed, acts>>
vars == <<epicRow, rowVars, agents, inflight, cyc, synced, history>>

Steps == {"idle", "fetch", "moves", "upserts", "absent", "stale", "clear", "teardown",
          "ended", "collided"}
Over == {"idle", "ended", "collided"}
NoSync == [clean |-> FALSE, additive |-> FALSE, items |-> {}]

TypeOK ==
    /\ role \in Roles /\ grouped \in BOOLEAN /\ repoOf \in [Items -> Subs]
    /\ at \in [Rows -> Epics \cup {None}] /\ used \subseteq Rows
    /\ claimed \subseteq Rows /\ tree \subseteq Rows
    /\ recorded \subseteq {r \in tree : at[r] # None}
    /\ inflight \in BOOLEAN
    /\ cyc \in [Cycles -> [step : Steps, how : {"flat", "grouped", "routed"},
            items : SUBSET Items, to : [Items -> Subs], additive : BOOLEAN, clean : BOOLEAN,
            moves : SUBSET (Rows \X Epics), upserts : SUBSET Epics,
            absent : SUBSET Epics, removed : SUBSET Rows]]
    /\ synced \in [clean : BOOLEAN, additive : BOOLEAN, items : SUBSET Items]
    /\ touched \subseteq Items /\ ungrouped \in BOOLEAN /\ crossed \subseteq Rows
    /\ acts \in 0..MaxActs

-----------------------------------------------------------------------------
At(c, step) == cyc[c].step = step
Put(c, state) == cyc' = [cyc EXCEPT ![c] = state]
RowsAt(S) == {r \in Rows : at[r] \in S}
Holds(e, i) == \E r \in RowsAt({e}) : Item(r) = i

(* A cycle that is over remembers nothing.                                 *)
Bare(step) ==
    [step |-> step, how |-> "flat", items |-> {}, to |-> repoOf, additive |-> FALSE,
     clean |-> TRUE, moves |-> {}, upserts |-> {}, absent |-> {}, removed |-> {}]

(* Mutant: a cycle starts whether or not another is in flight.             *)
ClaimUnguarded(c) ==
    /\ At(c, "idle")
    /\ inflight' = TRUE /\ synced' = NoSync
    /\ Put(c, [Bare("fetch") EXCEPT !.how = IF role = "reviews_parent" THEN "routed"
                                    ELSE IF grouped THEN "grouped" ELSE "flat"])
    /\ UNCHANGED <<epicRow, rowVars, agents, history>>
(* try_claim, then get_epic: the strategy is the epic row's at that time.  *)
Claim(c) ==
    /\ At(c, "idle") /\ ~inflight
    /\ inflight' = TRUE /\ synced' = NoSync
    /\ Put(c, [Bare("fetch") EXCEPT !.how = IF role = "reviews_parent" THEN "routed"
                                    ELSE IF grouped THEN "grouped" ELSE "flat"])
    /\ UNCHANGED <<epicRow, rowVars, agents, history>>
Busy(c) ==
    /\ At(c, "idle") /\ inflight /\ Put(c, Bare("ended"))
    /\ UNCHANGED <<epicRow, rowVars, agents, inflight, synced, history>>
(* Every early return drops the claim.                                     *)
End(c, how) == Put(c, Bare(how)) /\ inflight' = FALSE

(* The command fails or times out, its output does not parse, or it is     *)
(* empty with something on stderr.                                         *)
FetchFails(c) ==
    /\ At(c, "fetch") /\ End(c, "ended")
    /\ UNCHANGED <<epicRow, rowVars, agents, synced, history>>

(* build_existing_task_index: the parent first, the later role wins.       *)
Indexed(i) ==
    LET found(e) == {r \in RowsAt({e}) : Item(r) = i}
    IN  IF found(Team) # {} THEN found(Team)
        ELSE IF found(My) # {} THEN found(My) ELSE found(Parent)
(* Where this emission's items go: a role each, the item's repo, or the    *)
(* parent; additive when the command also wrote to stderr (append_only).   *)
Fetch(c) ==
    /\ At(c, "fetch")
    /\ \E items \in SUBSET Items, additive \in BOOLEAN,
          to \in IF At(c, "fetch") /\ cyc[c].how = "routed" THEN [Items -> Subs] ELSE {repoOf} :
         /\ additive => items # {}
         /\ Put(c, [cyc[c] EXCEPT !.step = "moves", !.items = items, !.additive = additive,
              !.to = to,
              !.moves = IF cyc[c].how # "routed" THEN {}
                        ELSE {m \in Rows \X Subs :
                                /\ Item(m[1]) \in items /\ m[1] \in Indexed(Item(m[1]))
                                /\ m[2] = to[Item(m[1])] /\ at[m[1]] # m[2]},
              !.upserts = IF cyc[c].how = "flat" THEN {Parent} ELSE {to[i] : i \in items},
              !.absent = IF cyc[c].how = "grouped" /\ ~additive
                           THEN Subs \ {to[i] : i \in items} ELSE {}])
    /\ UNCHANGED <<epicRow, rowVars, agents, inflight, synced, history>>

(* apply_move: set_task_epic_id fails on a row that is gone and on one     *)
(* already there for the item (the unique index), and the cycle with it.   *)
ApplyMove(c) ==
    /\ At(c, "moves")
    /\ \E m \in cyc[c].moves :
         IF at[m[1]] = None \/ Holds(m[2], Item(m[1]))
           THEN End(c, "collided") /\ UNCHANGED at
           ELSE /\ at' = [at EXCEPT ![m[1]] = m[2]]
                /\ Put(c, [cyc[c] EXCEPT !.moves = @ \ {m}]) /\ UNCHANGED inflight
    /\ UNCHANGED <<epicRow, used, agents, synced, history>>
Routed(c) ==
    /\ At(c, "moves") /\ cyc[c].moves = {}
    /\ Put(c, [cyc[c] EXCEPT !.step = "upserts"])
    /\ UNCHANGED <<epicRow, rowVars, agents, inflight, synced, history>>

-----------------------------------------------------------------------------
(* A statement of the cycle deletes rows, and reports those that own a     *)
(* worktree it knows of.                                                   *)
Reported(c, gone) == cyc[c].removed \cup (gone \cap recorded)
Delete(c, gone, born, where) ==
    /\ at' = [r \in Rows |-> IF r \in gone THEN None ELSE IF r \in born THEN where ELSE at[r]]
    /\ used' = used \cup born
    /\ recorded' = recorded \ gone
    /\ crossed' = crossed \cup (gone \cap claimed)

(* Mutant: the keep-set is the whole emission, not what belongs here.      *)
KeepsWholeEmission(c, e) == cyc[c].items
(* The items of this group, which the upsert writes and its delete keeps.  *)
Group(c, e) == {i \in cyc[c].items : e = Parent \/ cyc[c].to[i] = e}
NewRow(i) == <<i, CHOOSE k \in 1..MaxCopies : <<i, k>> \notin used>>

(* The trigger of v72/v76 guards the subtree of an epic that has a role of *)
(* its own: on such a parent an item of a sub-epic aborts the transaction. *)
Aborts(c, e) ==
    role = "cve" /\ e = Parent /\ \E i \in Group(c, e) : \E s \in Subs : Holds(s, i)

(* upsert_feed_tasks(_additive) on one epic.  Flat, an error is the        *)
(* cycle's; otherwise it is logged and the next epic follows.              *)
Upsert(c) ==
    /\ At(c, "upserts")
    /\ \E e \in cyc[c].upserts :
         LET new == {i \in Group(c, e) : ~Holds(e, i)}
             gone == IF cyc[c].additive THEN {}
                     ELSE {r \in RowsAt({e}) : Item(r) \notin Group(c, e)}
         IN  IF Aborts(c, e)
               THEN /\ End(c, "collided") /\ UNCHANGED <<rowVars, recorded, crossed>>
               ELSE /\ \A i \in new : \E k \in 1..MaxCopies : <<i, k>> \notin used  \* bound
                    /\ Delete(c, gone, {NewRow(i) : i \in new}, e)
                    /\ Put(c, [cyc[c] EXCEPT !.upserts = @ \ {e}, !.removed = Reported(c, gone)])
                    /\ UNCHANGED inflight
    /\ UNCHANGED <<epicRow, claimed, tree, synced, touched, ungrouped, acts>>
UpsertFails(c) ==
    /\ At(c, "upserts")
    /\ \E e \in cyc[c].upserts :
         IF cyc[c].how = "flat" THEN End(c, "ended")
         ELSE /\ Put(c, [cyc[c] EXCEPT !.upserts = @ \ {e}, !.clean = FALSE])
              /\ UNCHANGED inflight
    /\ UNCHANGED <<epicRow, rowVars, agents, synced, history>>

(* What an additive sync leaves out.                                       *)
AfterUpserts(c) ==
    CASE cyc[c].additive -> "teardown"
      [] cyc[c].how = "grouped" /\ ~cyc[c].additive -> "absent"
      [] cyc[c].how = "routed" /\ ~cyc[c].additive -> "stale"
      [] OTHER -> "teardown"
Upserted(c) ==
    /\ At(c, "upserts") /\ cyc[c].upserts = {}
    /\ Put(c, [cyc[c] EXCEPT !.step = AfterUpserts(c)])
    /\ UNCHANGED <<epicRow, rowVars, agents, inflight, synced, history>>

(* The remaining deletes, each of which may fail and be logged: the epics  *)
(* no item names (grouped), the rows no item names (routed), the parent's. *)
Swept(c, e, next) ==
    [cyc[c] EXCEPT !.absent = @ \ {e}, !.step = next]
Sweep(c, e, gone, next) ==
    /\ \/ /\ Delete(c, gone, {}, None)
          /\ Put(c, [Swept(c, e, next) EXCEPT !.removed = Reported(c, gone)])
       \/ /\ Put(c, [Swept(c, e, next) EXCEPT !.clean = FALSE])
          /\ UNCHANGED <<rowVars, recorded, crossed>>
    /\ UNCHANGED <<epicRow, claimed, tree, inflight, synced, touched, ungrouped, acts>>
ClearAbsent(c) ==
    /\ At(c, "absent")
    /\ IF cyc[c].absent = {} THEN Sweep(c, Parent, {}, "clear")
       ELSE \E e \in cyc[c].absent : Sweep(c, e, RowsAt({e}), "absent")
(* Mutant: the stale delete reaches what the epic's parent holds too.      *)
DeleteStaleEverywhere(c) ==
    /\ At(c, "stale")
    /\ Sweep(c, Parent, {r \in Rows : at[r] # None /\ Item(r) \notin cyc[c].items}, "clear")
DeleteStale(c) ==
    /\ At(c, "stale")
    /\ Sweep(c, Parent, {r \in RowsAt(Subs) : Item(r) \notin cyc[c].items}, "clear")
ClearParent(c) ==
    /\ At(c, "clear") /\ Sweep(c, Parent, RowsAt({Parent}), "teardown")

(* Mutant: the report of the deletes is dropped.                           *)
TeardownNothing(c) ==
    /\ At(c, "teardown") /\ End(c, "ended")
    /\ synced' = [clean |-> cyc[c].clean, additive |-> cyc[c].additive, items |-> cyc[c].items]
    /\ UNCHANGED <<epicRow, rowVars, agents, history>>
(* cleanup_removed_feed_tasks: best effort, with the claim still held.     *)
Teardown(c) ==
    /\ At(c, "teardown") /\ End(c, "ended")
    /\ \E failed \in SUBSET cyc[c].removed :
         /\ tree' = tree \ (cyc[c].removed \ failed) /\ crossed' = crossed \cup failed
    /\ synced' = [clean |-> cyc[c].clean, additive |-> cyc[c].additive, items |-> cyc[c].items]
    /\ UNCHANGED <<epicRow, rowVars, claimed, recorded, touched, ungrouped, acts>>

-----------------------------------------------------------------------------
Acts == acts < MaxActs /\ acts' = acts + 1    \* bound
(* move_task_to_epic on a feed task: nothing tells the running cycle.      *)
UserMoves(r, e) ==
    /\ at[r] # None /\ at[r] # e /\ ~Holds(e, Item(r))
    /\ at' = [at EXCEPT ![r] = e]
    /\ touched' = touched \cup {Item(r)} /\ synced' = NoSync
    /\ Acts
    /\ UNCHANGED <<epicRow, used, agents, inflight, cyc, ungrouped, crossed>>
(* exec_toggle_epic_group_by_repo: for a feed epic, the flag only.         *)
Toggle ==
    /\ role # "reviews_parent" /\ grouped' = ~grouped
    /\ ungrouped' = (ungrouped \/ grouped) /\ synced' = NoSync /\ Acts
    /\ UNCHANGED <<role, repoOf, rowVars, agents, inflight, cyc, touched, crossed>>

(* A dispatch of the row: the claim, the worktree, the pointer.            *)
Dispatch(r) ==
    /\ at[r] # None /\ r \notin claimed \cup tree /\ claimed' = claimed \cup {r}
    /\ Acts
    /\ UNCHANGED <<epicRow, rowVars, tree, recorded, inflight, cyc, synced, touched, ungrouped, crossed>>
Provision(r) ==
    /\ r \in claimed \ tree /\ tree' = tree \cup {r}
    /\ UNCHANGED <<epicRow, rowVars, claimed, recorded, inflight, cyc, synced, history>>
RecordLaunch(r) ==
    /\ r \in claimed \cap tree /\ claimed' = claimed \ {r}
    /\ recorded' = recorded \cup {x \in {r} : at[x] # None}
    /\ UNCHANGED <<epicRow, rowVars, tree, inflight, cyc, synced, history>>

-----------------------------------------------------------------------------
(* A settled epic, of any role; migration to the grouping may be pending.  *)
Init ==
    /\ role \in Roles /\ grouped \in BOOLEAN /\ (role = "reviews_parent" => ~grouped)
    /\ repoOf \in [Items -> Subs]
    /\ role = "reviews_parent" => \A i \in Items : repoOf[i] = My   \* never consulted
    /\ \E where \in [Items -> Subtree \cup {None}] :
         /\ \A i \in Items : where[i] \in Subs =>
              role = "reviews_parent" \/ (grouped /\ where[i] = repoOf[i])
         /\ at = [r \in Rows |-> IF r[2] = 1 THEN where[Item(r)] ELSE None]
         /\ used = {r \in Rows : r[2] = 1 /\ where[Item(r)] # None}
    /\ claimed = {} /\ tree = {} /\ recorded = {}
    /\ inflight = FALSE /\ cyc = [c \in Cycles |-> Bare("idle")]
    /\ synced = NoSync /\ touched = {} /\ ungrouped = FALSE /\ crossed = {} /\ acts = 0

Work(c) ==
    \/ FetchFails(c) \/ Fetch(c) \/ ApplyMove(c) \/ Routed(c)
    \/ Upsert(c) \/ UpsertFails(c) \/ Upserted(c)
    \/ ClearAbsent(c) \/ DeleteStale(c) \/ ClearParent(c) \/ Teardown(c)
Next ==
    \/ \E c \in Cycles : Claim(c) \/ Busy(c) \/ Work(c)
    \/ \E r \in Rows : \/ \E e \in Epics : UserMoves(r, e)
                       \/ Dispatch(r) \/ Provision(r) \/ RecordLaunch(r)
    \/ Toggle
Spec == Init /\ [][Next]_vars

-----------------------------------------------------------------------------
(* The state is well formed, and OneFeedCycleAtATimePerEpic: at most one   *)
(* cycle is past its claim, and the guard is free as soon as none is,      *)
(* whichever way the last one ended.                                       *)
GuardIsHeld ==
    /\ TypeOK
    /\ \A c, d \in Cycles : cyc[c].step \notin Over /\ cyc[d].step \notin Over => c = d
    /\ inflight = \E c \in Cycles : cyc[c].step \notin Over

Copies(i) == Cardinality({r \in RowsAt(Subtree) : Item(r) = i})
(* After a cycle whose writes all succeeded, the subtree holds exactly one *)
(* row of each emitted item and none of the others (an additive one keeps  *)
(* those, and leaves a pending migration's parent row beside its copy),    *)
(* wherever the rows were before: for items the user never moved and an    *)
(* epic never un-grouped.                                                  *)
Mirrors(i) ==
    IF i \in synced.items THEN Copies(i) = 1 \/ (synced.additive /\ Copies(i) > 1)
    ELSE Copies(i) = 0 \/ synced.additive
FeedIsMirrored ==
    synced.clean => ungrouped \/ \A i \in Items \ touched : Mirrors(i)

(* FlatFeedReconcile: the first poll after the user un-groups brings the   *)
(* rows back to the parent, so the mirror holds after un-grouping too.     *)
UngroupingHeals == synced.clean => \A i \in Items \ touched : Mirrors(i)

(* A cycle does not fail for good: a write of its own collides with rows   *)
(* already there only if the user moved a task or un-grouped the epic.     *)
CollisionNeedsAUser ==
    \A c \in Cycles : At(c, "collided") => touched # {} \/ ungrouped

(* Every worktree has a row that owns it or is about to be torn down; lost *)
(* are those whose dispatch was under way when the row was deleted, and    *)
(* those whose teardown failed.                                            *)
NoOrphanWorktree ==
    \A r \in tree : at[r] # None \/ r \in crossed \/ \E c \in Cycles : r \in cyc[c].removed

Removes(c, r) == cyc'[c] # cyc[c] /\ at[r] # None /\ at'[r] = None
(* A cycle keeps the row, and the agent, of every item it was told of and  *)
(* never removes a row outside its subtree; the grouped migration, which   *)
(* copies the parent's rows and deletes them, is the exception.  And an    *)
(* emission that is not trusted removes nothing (AppendOnlyFeed,           *)
(* DegradedNonEmptyEmission).                                              *)
CyclesSpareRows ==
    [][\A c \in Cycles, r \in Rows : Removes(c, r) =>
         /\ ~cyc[c].additive /\ at[r] \in Subtree
         /\ \/ Item(r) \notin cyc[c].items \/ Item(r) \in touched
            \/ cyc[c].how = "grouped" /\ (at[r] = Parent \/ ungrouped)]_vars
=============================================================================
