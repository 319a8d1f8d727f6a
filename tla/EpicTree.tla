------------------------------ MODULE EpicTree ------------------------------
(***************************************************************************)
(* The epic hierarchy and the tasks in it: status recalculation up the     *)
(* ancestors, reparenting with its cycle check, and repo grouping (routing *)
(* a task into the per-repo sub-epic of a group_by_repo root, regroup,     *)
(* flatten, reroute and the cleanup of emptied sub-epics).                 *)
(*                                                                         *)
(* A handler is the sequence of database calls it still has to make: its   *)
(* opening reads are taken at one instant, after which every call is a     *)
(* step.  A call that fails (`?`) drops the rest of its handler.  Handlers *)
(* of the board and of the MCP server interleave.                          *)
(* Abstracted: backlog, running and review are one status, "open" (the     *)
(* recalculation tells them apart only from done and archived); feed epics *)
(* (see FeedSync); sort_order; learnings.                                  *)
(***************************************************************************)
EXTENDS Naturals, Sequences, FiniteSets

CONSTANTS
    Manual,     \* epics made by hand
    Roots,      \* those of them that may be group_by_repo
    Repos, Tasks,
    Calls,      \* handlers that may overlap; each runs once
    None

Groups == Roots \X Repos    \* the RepoGroup sub-epic of a root for a repo
Epics == Manual \cup Groups

ASSUME TreeAssumption ==
    /\ Roots \subseteq Manual /\ Manual \cap Groups = {}
    /\ None \notin Epics /\ None \notin Tasks
    /\ IsFiniteSet(Epics) /\ IsFiniteSet(Tasks)

VARIABLES
    epics, parent, estatus, grouped,    \* the epics table: the live rows and their columns
    tasks, home, tstatus, repo,         \* the tasks table; home is epic_id
    todo, about, begun,                 \* handlers: calls left, tasks concerned, started
    excused, overlap, lost              \* history (see the properties)

tree == <<epics, parent, estatus, grouped>>
board == <<tasks, home, tstatus, repo>>
handlers == <<todo, about, begun>>
history == <<excused, overlap, lost>>
vars == <<tree, board, handlers, history>>

Statuses == {"open", "done", "archived"}

TypeOK ==
    /\ epics \subseteq Epics /\ tasks \subseteq Tasks
    /\ parent \in [Epics -> Epics \cup {None}] /\ estatus \in [Epics -> Statuses]
    /\ grouped \subseteq Roots
    /\ home \in [Tasks -> Epics \cup {None}] /\ tstatus \in [Tasks -> Statuses]
    /\ repo \in [Tasks -> Repos \cup {None}]
    /\ DOMAIN todo = Calls /\ about \in [Calls -> SUBSET Tasks] /\ begun \subseteq Calls
    /\ excused \subseteq Epics /\ lost \subseteq Tasks
    /\ overlap \subseteq {"tree", "tasks", "drop"}

-----------------------------------------------------------------------------
SubEpics(e) == {g \in epics : parent[g] = e}
TasksOf(e) == {t \in tasks : home[t] = e}
Closed(S) == \A d \in epics : parent[d] \in S => d \in S
Subtree(e) ==
    IF e \notin epics THEN {}
    ELSE {d \in epics : \A S \in SUBSET epics : (e \in S /\ Closed(S)) => d \in S}

(* recalculate_epic_status_inner for one epic, given statuses s.           *)
ActiveChildren(e, s) ==
    ({tstatus[t] : t \in TasksOf(e)} \cup {s[g] : g \in SubEpics(e)}) \ {"archived"}
Derived(e, s) ==
    IF s[e] = "archived" \/ ActiveChildren(e, s) = {} THEN s[e]
    ELSE IF ActiveChildren(e, s) = {"done"} THEN "done" ELSE "open"

(* Mutant: only the epic itself is recalculated, not its ancestors.        *)
WalkOnce(e) ==
    IF e \notin epics THEN [s |-> estatus, at |-> e, seen |-> {}]
    ELSE [s |-> [estatus EXCEPT ![e] = Derived(e, estatus)], at |-> e, seen |-> {e}]
(* The walk up the ancestors, with its visited set.                        *)
Walk(e) ==
    LET w[n \in 0..Cardinality(epics)] ==
          IF n = 0 THEN [s |-> estatus, at |-> e, seen |-> {}]
          ELSE LET v == w[n - 1]
               IN  IF v.at \notin epics \/ v.at \in v.seen THEN v
                   ELSE [s |-> [v.s EXCEPT ![v.at] = Derived(v.at, v.s)],
                         at |-> parent[v.at], seen |-> v.seen \cup {v.at}]
    IN  w[Cardinality(epics)]

(* The calls a handler may have left.                                      *)
Nil == [call |-> "recalc", task |-> None, epic |-> None, to |-> None, repo |-> None]
Recalc(e) == [Nil EXCEPT !.epic = e]
Find(t) == [Nil EXCEPT !.call = "find", !.task = t]
Place(how, t, e, r, old) ==
    [call |-> how, task |-> t, epic |-> e, to |-> old, repo |-> r]
Set(t, e) == [Nil EXCEPT !.call = "set", !.task = t, !.epic = e]
Insert(t, e, r) == [Nil EXCEPT !.call = "insert", !.task = t, !.epic = e, !.repo = r]
Reroute(t, r) == [Nil EXCEPT !.call = "reroute", !.task = t, !.repo = r]
Drain(g) == [Nil EXCEPT !.call = "drain", !.epic = g]
Cleanup(g) == [Nil EXCEPT !.call = "cleanup", !.epic = g]
Drop(g) == [Nil EXCEPT !.call = "drop", !.epic = g]
Check(e, p, at) == [Nil EXCEPT !.call = "check", !.epic = e, !.to = p, !.task = at]
Link(e, p) == [Nil EXCEPT !.call = "link", !.epic = e, !.to = p]

Busy(c) == todo[c] # << >>
Next1(c, call) == Busy(c) /\ Head(todo[c]).call = call
Arg(c) == Head(todo[c])
Left(c, calls) ==
    /\ todo' = [todo EXCEPT ![c] = calls]
    /\ about' = [about EXCEPT ![c] = IF calls = << >> THEN {} ELSE @]
Then(c, calls) == Left(c, calls \o Tail(todo[c]))
Fail(c) == Left(c, << >>)
Moves(c) == Busy(c) /\ \E i \in 1..Len(todo[c]) : todo[c][i].call \in {"check", "link"}

(* A row put under e while a cleanup is past its emptiness read of a group *)
(* above e: the cascade will take it.                                      *)
Doomed(e) ==
    overlap \cup (IF \E d \in Calls : Next1(d, "drop") /\ e \in Subtree(Arg(d).epic)
                  THEN {"drop"} ELSE {})

(* A handler starts: the tasks it concerns (structural ones: all of them), *)
(* and whether another handler about one of them is still running.         *)
Start(c, ts, calls) ==
    /\ c \notin begun /\ begun' = begun \cup {c}
    /\ todo' = [todo EXCEPT ![c] = calls]
    /\ about' = [about EXCEPT ![c] = IF calls = << >> THEN {} ELSE ts]
    /\ overlap' = overlap \cup
         (IF \E d \in Calls : Busy(d) /\ about[d] \cap ts # {} THEN {"tasks"} ELSE {}) \cup
         (IF (\E i \in 1..Len(calls) : calls[i].call \in {"check", "link"})
              /\ \E d \in Calls : Moves(d) THEN {"tree"} ELSE {})

(* The columns of rows that are gone read as nothing.                      *)
Forget(f, gone, blank) == [x \in DOMAIN f |-> IF x \in gone THEN blank ELSE f[x]]
ForgetTasks(ts) ==
    /\ tasks' = tasks \ ts /\ home' = Forget(home, ts, None)
    /\ tstatus' = Forget(tstatus, ts, "open") /\ repo' = Forget(repo, ts, None)
ForgetEpics(es) ==
    /\ epics' = epics \ es /\ parent' = Forget(parent, es, None)
    /\ estatus' = Forget(estatus, es, "open") /\ grouped' = grouped \ es

SetOf(S) == CHOOSE q \in [1..Cardinality(S) -> S] : \A i, j \in DOMAIN q : i # j => q[i] # q[j]
Each(S, Op(_)) == [i \in 1..Cardinality(S) |-> Op(SetOf(S)[i])]

-----------------------------------------------------------------------------
(* update_task with a status: the patch, then recalculate_epic_for_task.   *)
SetTaskStatus(c, t, s) ==
    /\ t \in tasks /\ tstatus[t] # s
    /\ tstatus' = [tstatus EXCEPT ![t] = s]
    /\ Start(c, {t}, <<Find(t)>>)
    /\ UNCHANGED <<tree, tasks, home, repo, excused, lost>>
(* create_task_returning: routing, the insert, the recalculation.          *)
CreateTask(c, t, e, r) ==
    /\ t \notin tasks \cup lost
    /\ Start(c, {t}, <<Place("create", t, e, r, None)>>)
    /\ UNCHANGED <<tree, board, excused, lost>>
(* move_task_to_epic: the old epic and the repo are those read first.      *)
MoveTask(c, t, e) ==
    /\ t \in tasks /\ home[t] # e
    /\ Start(c, {t}, <<Place("move", t, e, repo[t], home[t])>>)
    /\ UNCHANGED <<tree, board, excused, lost>>
DetachTask(c, t) ==
    /\ t \in tasks /\ home[t] # None
    /\ Start(c, {t}, <<Set(t, None), Recalc(home[t])>>)
    /\ UNCHANGED <<tree, board, excused, lost>>
(* update_task with a repo_path, of the same repo or another: the patch,    *)
(* then reroute_on_repo_change.                                            *)
ChangeRepo(c, t, r) ==
    /\ t \in tasks
    /\ repo' = [repo EXCEPT ![t] = r]
    /\ Start(c, {t}, <<Reroute(t, r)>>)
    /\ UNCHANGED <<tree, tasks, home, tstatus, excused, lost>>
(* delete_task, on the archive view's cards: no recalculation.             *)
DeleteTask(c, t) ==
    /\ t \in tasks /\ tstatus[t] = "archived"
    /\ ForgetTasks({t})
    /\ Start(c, {t}, << >>)
    /\ UNCHANGED <<tree, excused, lost>>

(* exec_toggle_epic_group_by_repo: the flag, then regroup or flatten.      *)
Regroup(c, e) ==
    /\ e \in (Roots \cap epics) \ grouped /\ grouped' = grouped \cup {e}
    /\ LET direct == {t \in TasksOf(e) : tstatus[t] # "archived"}
       IN  Start(c, Tasks, Each(direct, LAMBDA t : Place("migrate", t, e, repo[t], None)) \o <<Recalc(e)>>)
    /\ UNCHANGED <<epics, parent, estatus, board, excused, lost>>
Flatten(c, e) ==
    /\ e \in grouped /\ grouped' = grouped \ {e}
    /\ LET subs == {g \in SubEpics(e) \cap Groups : estatus[g] # "archived"}
       IN  Start(c, Tasks, Each(subs, Drain) \o <<Recalc(e)>>)
    /\ UNCHANGED <<epics, parent, estatus, board, excused, lost>>
(* The MCP update_epic writes the flag and moves nothing.                  *)
SetFlag(c, e) ==
    /\ e \in Roots \cap epics
    /\ grouped' = IF e \in grouped THEN grouped \ {e} ELSE grouped \cup {e}
    /\ Start(c, {}, << >>)
    /\ UNCHANGED <<epics, parent, estatus, board, excused, lost>>

(* update_epic with a status: the parent is recalculated, not the epic, so *)
(* a manual placement stays until a later recalculation reaches it.        *)
SetEpicStatus(c, e, s) ==
    /\ e \in epics /\ estatus[e] # s
    /\ estatus' = [estatus EXCEPT ![e] = s]
    /\ excused' = excused \cup {e}
    /\ Start(c, {}, <<Recalc(parent[e])>>)
    /\ UNCHANGED <<epics, parent, grouped, board, lost>>
(* update_epic with a parent: check_no_cycle, the patch, both parents.     *)
Reparent(c, e, p) ==
    /\ e \in epics \ Groups /\ p \in epics /\ p # e
    /\ Start(c, {}, <<Check(e, p, parent[p]), Recalc(parent[e]), Recalc(p)>>)
    /\ UNCHANGED <<tree, board, excused, lost>>
Unparent(c, e) ==
    /\ e \in epics \ Groups /\ parent[e] # None
    /\ Start(c, {}, <<Link(e, None), Recalc(parent[e])>>)
    /\ UNCHANGED <<tree, board, excused, lost>>

-----------------------------------------------------------------------------
(* Mutant: the cycle check looks at the proposed parent's parent only.     *)
CheckStepShallow(c) ==
    /\ Next1(c, "check")
    /\ IF Arg(c).task = Arg(c).epic THEN Fail(c)
       ELSE Then(c, <<Link(Arg(c).epic, Arg(c).to)>>)
    /\ UNCHANGED <<tree, board, begun, history>>
(* One get_epic of the walk up from the proposed parent.                   *)
CheckStep(c) ==
    /\ Next1(c, "check")
    /\ LET a == Arg(c)
       IN  \/ /\ a.task = a.epic /\ Fail(c)
           \/ /\ a.task # a.epic /\ a.task \notin epics
              /\ Then(c, <<Link(a.epic, a.to)>>)
           \/ /\ a.task # a.epic /\ a.task \in epics
              /\ Then(c, <<Check(a.epic, a.to, parent[a.task])>>)
    /\ UNCHANGED <<tree, board, begun, history>>
LinkEpic(c) ==
    /\ Next1(c, "link")
    /\ LET a == Arg(c)
       IN  /\ IF a.epic \in epics /\ a.to \in epics \cup {None}
                THEN parent' = [parent EXCEPT ![a.epic] = a.to] /\ Then(c, << >>)
                ELSE UNCHANGED parent /\ Fail(c)
           /\ overlap' = Doomed(a.to)
    /\ UNCHANGED <<epics, estatus, grouped, board, begun, excused, lost>>

(* route_target with create_repo_group_sub_epic, then the call that puts   *)
(* the task there and what that handler recalculates.  A regroup whose     *)
(* root lost its flag meanwhile leaves the task where it is.               *)
Placed(a, e) ==
    CASE a.call = "create" -> <<Insert(a.task, e, a.repo), Recalc(e)>>
      [] a.call = "move" -> <<Set(a.task, e), Recalc(a.to), Recalc(e)>>
      [] a.call = "migrate" -> <<Set(a.task, e), Recalc(e)>>
      [] a.call = "reroot" /\ e # a.to ->
           <<Set(a.task, e), Recalc(e)>>
             \o (IF a.to # a.epic THEN <<Cleanup(a.to)>> ELSE << >>) \o <<Recalc(a.epic)>>
      [] OTHER -> << >>
(* A reroute that leads back to the task's own group returns before its    *)
(* recalculations: the root does not hear of a group this unarchived.      *)
Overlooked(a, g) == IF Placed(a, g) = << >> THEN {a.epic} ELSE {}
PlaceTask(c) ==
    /\ \E how \in {"create", "move", "migrate", "reroot"} : Next1(c, how)
    /\ LET a == Arg(c)
           g == <<a.epic, a.repo>>
           fresh == g \notin epics \/ estatus[g] = "archived"
       IN  IF a.epic \in epics \cap grouped
             THEN /\ epics' = epics \cup {g}
                  /\ parent' = [parent EXCEPT ![g] = a.epic]
                  /\ estatus' = IF fresh THEN [estatus EXCEPT ![g] = "open"] ELSE estatus
                  /\ excused' = IF fresh THEN excused \cup {g} \cup Overlooked(a, g) ELSE excused
                  /\ Then(c, Placed(a, g))
             ELSE /\ UNCHANGED <<epics, parent, estatus, excused>>
                  /\ Then(c, IF a.call = "migrate" THEN << >> ELSE Placed(a, a.epic))
    /\ UNCHANGED <<grouped, board, begun, overlap, lost>>
(* Both fail on a task or an epic that is gone.                            *)
SetTaskEpic(c) ==
    /\ Next1(c, "set")
    /\ LET a == Arg(c)
       IN  /\ IF a.epic \in epics \cup {None} /\ a.task \in tasks
                THEN home' = [home EXCEPT ![a.task] = a.epic] /\ Then(c, << >>)
                ELSE UNCHANGED home /\ Fail(c)
           /\ overlap' = Doomed(a.epic)
    /\ UNCHANGED <<tree, tasks, tstatus, repo, begun, excused, lost>>
InsertTask(c) ==
    /\ Next1(c, "insert")
    /\ LET a == Arg(c)
       IN  /\ IF a.epic \in epics
                THEN /\ tasks' = tasks \cup {a.task} /\ home' = [home EXCEPT ![a.task] = a.epic]
                     /\ tstatus' = [tstatus EXCEPT ![a.task] = "open"]
                     /\ repo' = [repo EXCEPT ![a.task] = a.repo] /\ Then(c, << >>)
                ELSE UNCHANGED board /\ Fail(c)
           /\ overlap' = Doomed(a.epic)
    /\ UNCHANGED <<tree, begun, excused, lost>>

FindEpic(c) ==
    /\ Next1(c, "find")
    /\ LET t == Arg(c).task IN Then(c, IF t \in tasks THEN <<Recalc(home[t])>> ELSE << >>)
    /\ UNCHANGED <<tree, board, begun, history>>
RecalcEpic(c) ==
    /\ Next1(c, "recalc")
    /\ LET w == Walk(Arg(c).epic)
       IN  estatus' = w.s /\ excused' = excused \ w.seen
    /\ Then(c, << >>)
    /\ UNCHANGED <<epics, parent, grouped, board, begun, overlap, lost>>

(* reroute_on_repo_change: only within a grouped subtree.                  *)
RootOf(e) ==
    IF e \in grouped THEN e
    ELSE IF e \in Groups /\ parent[e] \in grouped THEN parent[e] ELSE None
RerouteTask(c) ==
    /\ Next1(c, "reroute")
    /\ LET t == Arg(c).task
           r == Arg(c).repo
           root == IF t \in tasks /\ home[t] \in epics THEN RootOf(home[t]) ELSE None
       IN  Then(c, IF root = None THEN << >> ELSE <<Place("reroot", t, root, r, home[t])>>)
    /\ UNCHANGED <<tree, board, begun, history>>

(* flatten_epic, one sub-epic: its tasks go back to the root first.        *)
DrainGroup(c) ==
    /\ Next1(c, "drain")
    /\ LET g == Arg(c).epic
       IN  Then(c, Each(TasksOf(g), LAMBDA t : Set(t, g[1])) \o <<Cleanup(g)>>)
    /\ UNCHANGED <<tree, board, begun, history>>
(* Mutant: the emptiness test does not count archived tasks.               *)
CleanupGroupIgnoresArchived(c) ==
    /\ Next1(c, "cleanup")
    /\ LET g == Arg(c).epic
       IN  Then(c, IF g \notin epics THEN << >>
                   ELSE IF {t \in TasksOf(g) : tstatus[t] # "archived"} # {} \/ SubEpics(g) # {}
                          THEN <<Recalc(g)>> ELSE <<Drop(g)>>)
    /\ UNCHANGED <<tree, board, begun, history>>
(* delete_if_empty_repo_group reads the tasks and children ...             *)
CleanupGroup(c) ==
    /\ Next1(c, "cleanup")
    /\ LET g == Arg(c).epic
       IN  Then(c, IF g \notin epics \cap Groups THEN << >>
                   ELSE IF TasksOf(g) # {} \/ SubEpics(g) # {}
                          THEN <<Recalc(g)>> ELSE <<Drop(g)>>)
    /\ UNCHANGED <<tree, board, begun, history>>
(* Mutant: the cascade deletes the epics below and leaves their tasks.     *)
DropGroupLeavesTasks(c) ==
    /\ Next1(c, "drop")
    /\ ForgetEpics(Subtree(Arg(c).epic))
    /\ Then(c, << >>)
    /\ UNCHANGED <<board, begun, history>>
(* ... and deletes it later, with everything below it by then.             *)
DropGroup(c) ==
    /\ Next1(c, "drop")
    /\ LET gone == Subtree(Arg(c).epic)
           orphans == {t \in tasks : home[t] \in gone}
       IN  /\ ForgetEpics(gone) /\ ForgetTasks(orphans) /\ lost' = lost \cup orphans
           /\ excused' = excused \ gone
           /\ IF gone = {} THEN Fail(c) ELSE Then(c, << >>)
    /\ UNCHANGED <<begun, overlap>>

-----------------------------------------------------------------------------
(* An epic is in step with its active children.                            *)
InStep(e) ==
    LET kids == ActiveChildren(e, estatus)
    IN  estatus[e] = "archived" \/ kids = {} \/ (estatus[e] = "done" <=> kids = {"done"})

(* At rest: the other manual epics under a root (bound; Unparent frees     *)
(* them), any tasks anywhere, groups left by any earlier grouping where    *)
(* they hold a task, every epic in step, open when it has no active child. *)
Init ==
    /\ epics \in {Manual \cup G : G \in SUBSET Groups}
    /\ \E up \in [Manual \ Roots -> Roots] :
         parent = [e \in Epics |-> IF e \in Manual \ Roots THEN up[e]
                                  ELSE IF e \in epics \cap Groups THEN e[1] ELSE None]
    /\ grouped \in SUBSET Roots
    /\ tasks \in SUBSET Tasks
    /\ \E at \in [tasks -> epics \cup {None}] :
         home = [t \in Tasks |-> IF t \in tasks THEN at[t] ELSE None]
    /\ \E st \in [tasks -> Statuses] :
         tstatus = [t \in Tasks |-> IF t \in tasks THEN st[t] ELSE "open"]
    /\ \E r \in [tasks -> Repos] :
         repo = [t \in Tasks |-> IF t \in tasks THEN r[t] ELSE None]
    /\ \A t \in tasks : home[t] \in Groups => repo[t] = home[t][2]
    /\ \A g \in epics \cap Groups : TasksOf(g) # {}
    /\ \E dones \in SUBSET epics :
         estatus = [e \in Epics |-> IF e \in dones THEN "done" ELSE "open"]
    /\ \A e \in epics : estatus[e] = "done" <=> ActiveChildren(e, estatus) = {"done"}
    /\ todo = [c \in Calls |-> << >>] /\ about = [c \in Calls |-> {}] /\ begun = {}
    /\ excused = {} /\ overlap = {} /\ lost = {}

Begin(c) ==
    \/ \E t \in Tasks :
         \/ \E s \in Statuses : SetTaskStatus(c, t, s)
         \/ \E e \in epics : MoveTask(c, t, e) \/ \E r \in Repos : CreateTask(c, t, e, r)
         \/ DetachTask(c, t) \/ DeleteTask(c, t)
         \/ \E r \in Repos : ChangeRepo(c, t, r)
    \/ \E e \in epics :
         \/ Regroup(c, e) \/ Flatten(c, e) \/ SetFlag(c, e)
         \/ \E s \in Statuses : SetEpicStatus(c, e, s)
         \/ \E p \in epics : Reparent(c, e, p)
         \/ Unparent(c, e)
Continue(c) ==
    \/ CheckStep(c) \/ LinkEpic(c) \/ PlaceTask(c) \/ SetTaskEpic(c) \/ InsertTask(c)
    \/ FindEpic(c) \/ RecalcEpic(c) \/ RerouteTask(c) \/ DrainGroup(c) \/ CleanupGroup(c) \/ DropGroup(c)

Next == \E c \in Calls : Begin(c) \/ Continue(c)
Spec == Init /\ [][Next]_vars

-----------------------------------------------------------------------------
(* No epic is its own ancestor.                                            *)
Acyclic ==
    \A S \in SUBSET epics : S # {} => \E e \in S : parent[e] \notin S

(* check_no_cycle keeps the hierarchy a forest, as long as no two          *)
(* reparentings run at once.                                               *)
AcyclicUnlessRaced == Acyclic \/ "tree" \in overlap

(* Every task's epic and every epic's parent is a row, whatever handlers   *)
(* race with the cleanup's cascading delete.                               *)
NoDanglingEpic ==
    /\ \A t \in tasks : home[t] \in epics \cup {None}
    /\ \A e \in epics : parent[e] \in epics \cup {None}

(* The cleanup of an emptied repo group deletes a task only if something   *)
(* was put under the group after the emptiness read: archived tasks, child *)
(* epics and tasks that a flatten is still moving all keep the group.      *)
CleanupLosesNoTask == lost = {} \/ "drop" \in overlap

(* EpicStatusRecalculation: the state is well formed, and with no handler  *)
(* running, an epic is done exactly when its active children are, except   *)
(* where its status was set by hand since, a reroute unarchived a group of *)
(* it and returned, or handlers overlapped on a task or on the hierarchy.  *)
EpicsInStep ==
    /\ TypeOK
    /\ (\A c \in Calls : ~Busy(c)) =>
           overlap # {} \/ \A e \in epics \ excused : InStep(e)

(* "Each function recalculates the epics it mutates, owning the            *)
(* status-rollup invariant" (grouping.rs): a step that unarchives a repo   *)
(* group below a done root leaves the recalculation of the group or of the *)
(* root still to be made.                                                  *)
UnarchivingRecalculates ==
    [][\A g \in epics \cap Groups :
         estatus[g] = "archived" /\ estatus'[g] = "open" /\ estatus'[g[1]] = "done" =>
           \E c \in Calls : \E i \in 1..Len(todo'[c]) :
             todo'[c][i].call = "recalc" /\ todo'[c][i].epic \in {g, g[1]}]_vars
=============================================================================
