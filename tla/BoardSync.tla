------------------------------ MODULE BoardSync ------------------------------
(***************************************************************************)
(* One task's row in the database and its card on the board.  The board is *)
(* one event loop: it takes a message or a tick when it has no command     *)
(* left, and executes commands in order, each a step, while the MCP server *)
(* (same process, same connection) and the hooks (processes of their own)  *)
(* write the row.  Detached reads bring rows back in any order; a tick's   *)
(* refresh is skipped while the connection's change counter stands still.  *)
(*                                                                         *)
(* Every read and write of the board may fail: it shows an error popup,    *)
(* and nothing is retried.                                                 *)
(*                                                                         *)
(* Abstracted: the counter, to whether the next refresh will read (it      *)
(* moved since the watermark was taken, or the watermark is the -1 of a    *)
(* counter that could not be read); sub-statuses the board treats alike;   *)
(* the hooks' counters (see AgentHooks); epics, which are refreshed beside *)
(* the tasks.                                                              *)
(***************************************************************************)
EXTENDS Integers, Sequences

CONSTANTS MaxEnv,       \* bound: writes beside the board
          MaxEvents     \* bound: these, the user's moves and the failures, together
ASSUME BoardAssumption == MaxEnv \in Nat /\ MaxEvents \in Nat

VARIABLES
    store, clock,           \* the row; is a stamp of 0 old
    checked,                \* update_task validated a sub-status it has not written
    moved,                  \* total_changes() # last_change_count, or that is -1
    board, dirty, notified, \* the card, dirty_since_refresh, agents.notified_review
    cmds,                   \* commands the event loop has still to execute
    reads, inbox,           \* spawn_refresh_task: not read yet; read, in order of reading
    gone,                   \* the WindowGone of a window check is on its way
    env, events,            \* counters of the bounds
    unseen, overtaken, unread, unsaved,   \* history (see the properties)
    raced, untold, own

db == <<store, clock, checked, moved>>
card == <<board, dirty, notified, cmds>>
detached == <<reads, inbox, gone>>
history == <<unseen, overtaken, unread, unsaved, raced, untold, own>>
bounds == <<env, events>>
vars == <<db, card, detached, bounds, history>>

RunningSubs == {"active", "stale", "needs_input", "crashed"}
Rows == [status : {"running", "review", "done"}, sub : RunningSubs \cup {"none"},
         window : BOOLEAN, stamp : 0..1]
CommandKinds == {"patch", "persist", "seed", "list", "mark"}
(* SubStatus::is_valid_for and default_for.                                *)
ValidFor(sub, status) == (status = "running") <=> (sub \in RunningSubs)
DefaultFor(status) == IF status = "running" THEN "active" ELSE "none"

TypeOK ==
    /\ store \in Rows /\ board \in Rows /\ clock \in 0..1
    /\ checked \in BOOLEAN /\ moved \in BOOLEAN /\ dirty \in BOOLEAN /\ notified \in BOOLEAN
    /\ Len(cmds) <= 2
    /\ \A i \in 1..Len(cmds) : cmds[i] \in [do : CommandKinds, row : Rows]
    /\ reads \in 0..MaxEnv
    /\ Len(inbox) <= MaxEnv /\ \A i \in 1..Len(inbox) : inbox[i] \in [row : Rows, late : BOOLEAN]
    /\ gone \in BOOLEAN
    /\ env \in 0..MaxEnv /\ events \in 0..MaxEvents
    /\ unseen \in BOOLEAN /\ overtaken \in BOOLEAN /\ unread \in BOOLEAN /\ unsaved \in BOOLEAN
    /\ raced \in BOOLEAN /\ untold \in Int /\ own \in BOOLEAN

-----------------------------------------------------------------------------
Event == events < MaxEvents /\ events' = events + 1
Beside == Event /\ env < MaxEnv /\ env' = env + 1
Write(row) ==
    /\ store' = row
    /\ untold' = untold + (IF row.status = "review" /\ store.status # "review" THEN 1 ELSE 0)
(* What was read before this instant is older than what the board knows.   *)
Stale(seq) == [i \in 1..Len(seq) |-> [seq[i] EXCEPT !.late = TRUE]]

(* The hooks write on a connection of their own.                           *)
HookWrite(row) ==
    /\ Beside /\ Write(row) /\ unseen' = TRUE
    /\ UNCHANGED <<clock, checked, moved, card, detached,
                   overtaken, unread, unsaved, raced, own>>
HookPreToolUse ==
    /\ store.status = "running"
    /\ HookWrite([store EXCEPT !.stamp = clock, !.sub = "active"])
HookPrompt ==
    /\ store.status = "review"
    /\ HookWrite([store EXCEPT !.status = "running", !.stamp = clock, !.sub = "active"])
HookStop ==
    /\ store.status = "running"
    /\ HookWrite([store EXCEPT !.status = "review", !.sub = "none"])

(* Mutant: a handler writes and sends no notification.                     *)
McpWriteUnnotified(row) ==
    /\ Beside /\ Write(row) /\ moved' = TRUE
    /\ UNCHANGED <<clock, card, detached, unseen, overtaken, unread, unsaved, own>>
(* The MCP server's writes move the counter, and each is notified.         *)
McpWrite(row) ==
    /\ Beside /\ Write(row) /\ moved' = TRUE /\ reads' = reads + 1
    /\ UNCHANGED <<clock, card, inbox, gone,
                   unseen, overtaken, unread, unsaved, own>>
(* exit_session, which asks for a window and for no status: a pull request *)
(* goes to Review, the other actions to Done.                              *)
McpClose(status) ==
    /\ store.window
    /\ McpWrite([store EXCEPT !.status = status, !.sub = "none", !.window = FALSE])
    /\ UNCHANGED <<checked, raced>>
(* update_task with a sub-status: validate_sub_status, later the patch.    *)
McpCheckSub ==
    /\ ~checked /\ store.status = "running" /\ checked' = TRUE
    /\ UNCHANGED <<store, clock, moved, card, detached, bounds, history>>
McpSetSub ==
    /\ checked /\ checked' = FALSE
    /\ McpWrite([store EXCEPT !.sub = "needs_input"])
    /\ raced' = (raced \/ store.status # "running")

TimePasses ==
    /\ clock = 0 /\ clock' = 1
    /\ UNCHANGED <<store, checked, moved, card, detached, bounds, history>>

ReadRow ==
    /\ reads > 0 /\ reads' = reads - 1
    /\ inbox' = Append(inbox, [row |-> store, late |-> FALSE])
    /\ UNCHANGED <<db, card, gone, bounds, history>>
ReadRowFails ==
    /\ Event /\ reads > 0 /\ reads' = reads - 1 /\ unread' = TRUE
    /\ UNCHANGED <<db, card, inbox, gone, env,
                   unseen, overtaken, unsaved, raced, untold, own>>
-----------------------------------------------------------------------------
(* The board takes a row: detect_task_transition_notifications, then the   *)
(* whole card is replaced.                                                 *)
Enters(row) == row.status = "review" /\ board.status # "review"
Notices(row) == IF Enters(row) /\ ~notified THEN 1 ELSE 0
(* Mutant: entering Review notifies whether or not it already did.         *)
ShowAlwaysNotifies(row, credit) ==
    /\ board' = row /\ untold' = untold + credit - (IF row.status = "review" THEN 1 ELSE 0)
    /\ notified' = (row.status = "review") /\ own' = (own /\ row.status = "review")
    /\ unsaved' = FALSE
Show(row, credit) ==
    /\ board' = row /\ untold' = untold + credit - Notices(row)
    /\ notified' = (row.status = "review" /\ (notified \/ Enters(row)))
    /\ own' = (own /\ row.status = "review") /\ unsaved' = FALSE

Idle == cmds = << >>
Do(what, row) == [do |-> what, row |-> row]

(* TaskMessage::Updated.                                                   *)
Updated ==
    /\ Idle
    /\ \E i \in 1..Len(inbox) :
         /\ Show(inbox[i].row, IF inbox[i].late THEN 1 ELSE 0)
         /\ overtaken' = (overtaken \/ inbox[i].late)
         /\ inbox' = Stale(SubSeq(inbox, 1, i - 1)) \o SubSeq(inbox, i + 1, Len(inbox))
    /\ UNCHANGED <<db, dirty, cmds, reads, gone, bounds, unseen, unread, raced>>

Classify(row) == IF row.stamp = clock THEN "active" ELSE "stale"
Reclassifies ==
    /\ board.status = "running" /\ board.window /\ board.sub # "crashed"
    /\ board.sub # Classify(board)
(* The check of the card's window that a tick spawns (one list of all the  *)
(* windows, detached): it may find the window gone whatever the card says, *)
(* for the agent may exit, or someone kill it, before the list is read,    *)
(* and its message is taken at any later turn of the loop.  A list that    *)
(* fails finds none gone.                                                  *)
WindowCheck == gone' \in {gone, gone \/ board.window}
(* handle_tick: check the window, reclassify, refresh when the board is    *)
(* dirty and on every fifth tick.                                          *)
Tick(refresh) ==
    /\ Idle /\ (dirty => refresh)
    /\ WindowCheck
    /\ board' = IF Reclassifies THEN [board EXCEPT !.sub = Classify(board)] ELSE board
    /\ dirty' = (dirty /\ ~refresh)
    /\ cmds' = (IF Reclassifies THEN <<Do("patch", board')>> ELSE << >>)
                 \o (IF refresh THEN <<Do("list", board')>> ELSE << >>)
    /\ UNCHANGED <<db, notified, reads, inbox, bounds, history>>

(* handle_window_gone and handle_agent_crashed: judged by the card.        *)
WindowGone ==
    /\ Idle /\ gone /\ gone' = FALSE
    /\ board' = [board EXCEPT !.window = FALSE,
                              !.sub = IF board.status = "running" THEN "crashed" ELSE @]
    /\ cmds' = <<Do("persist", board')>>
    /\ UNCHANGED <<db, dirty, notified, reads, inbox, bounds, history>>

(* Mutant: the card moves and keeps its sub-status.                        *)
LocalStatusKeepsSub(status) == [board EXCEPT !.status = status]
LocalStatus(status) == [board EXCEPT !.status = status, !.sub = DefaultFor(status)]
(* handle_move_task and handle_confirm_done; all but a move forward take   *)
(* the window off the card and kill it, and a move into Running seeds the  *)
(* stamp.                                                                  *)
Move(status, forward) ==
    /\ Idle /\ Event
    /\ LET row == LocalStatus(status)
       IN  board' = [row EXCEPT !.window = board.window /\ forward,
                                !.stamp = IF status = "running" THEN clock ELSE @]
    /\ notified' = FALSE /\ own' = (status = "review")
    /\ cmds' = <<Do("persist", board')>>
                 \o (IF status = "running" THEN <<Do("seed", board')>> ELSE << >>)
    /\ UNCHANGED <<db, dirty, detached, env, unseen, overtaken, unread, unsaved, raced, untold>>
UserMoves ==
    \/ board.status = "running" /\ Move("review", TRUE)
    \/ board.status = "review" /\ Move("running", FALSE)
    \/ board.status = "done" /\ Move("review", FALSE)
    \/ board.status # "done" /\ Move("done", FALSE)

-----------------------------------------------------------------------------
Next1(what) == ~Idle /\ Head(cmds).do = what
BoardWrite(row) ==
    /\ Write(row) /\ moved' = TRUE /\ inbox' = Stale(inbox) /\ cmds' = Tail(cmds)
    /\ UNCHANGED <<clock, checked, board, notified, reads, gone, bounds,
                   unseen, overtaken, unread, unsaved, own>>
(* An error popup: the card keeps what the row was to be, and the board    *)
(* forgets about it.  A card that left Review may be told of the same      *)
(* entry again (credit).                                                   *)
WriteFails(credit) ==
    /\ Event /\ unsaved' = TRUE /\ cmds' = Tail(cmds) /\ untold' = untold + credit
    /\ UNCHANGED <<db, board, dirty, notified, detached, env,
                   unseen, overtaken, unread, raced, own>>
(* exec_batch_patch_sub_status: no guard on the status the row has by now. *)
ExecPatch ==
    /\ Next1("patch")
    /\ \/ /\ BoardWrite([store EXCEPT !.sub = Head(cmds).row.sub]) /\ dirty' = TRUE
          /\ raced' = (raced \/ store.status # "running")
       \/ WriteFails(0)
(* exec_persist_task: status, sub-status and window of the card, never the *)
(* stamp, which the hooks own; a move into Running seeds it afterwards.    *)
ExecPersist ==
    /\ Next1("persist")
    /\ \/ /\ BoardWrite([Head(cmds).row EXCEPT !.stamp = store.stamp]) /\ dirty' = TRUE
          /\ UNCHANGED raced
       \/ WriteFails(IF Head(cmds).row.status = "review" THEN 0 ELSE 1)
(* exec_seed_activity leaves the board as dirty as it was.                 *)
ExecSeed ==
    /\ Next1("seed")
    /\ \/ BoardWrite([store EXCEPT !.stamp = Head(cmds).row.stamp]) /\ UNCHANGED <<dirty, raced>>
       \/ WriteFails(0)

(* exec_refresh_from_db: skipped at the watermark; otherwise, or when the  *)
(* counter cannot be read, the list ...                                    *)
ListSkipped ==
    /\ ~moved /\ cmds' = Tail(cmds)
    /\ UNCHANGED <<board, notified, inbox, bounds, history>>
Listed ==
    /\ \/ moved /\ UNCHANGED bounds
       \/ ~moved /\ Event /\ UNCHANGED env
    /\ Show(store, 0) /\ inbox' = Stale(inbox)
    /\ unseen' = FALSE /\ overtaken' = FALSE /\ unread' = FALSE
    /\ cmds' = <<Do("mark", board')>> \o Tail(cmds)
    /\ UNCHANGED raced
ListFails ==
    /\ Event /\ unread' = TRUE /\ cmds' = <<Do("mark", board)>> \o Tail(cmds)
    /\ UNCHANGED <<board, notified, inbox, env,
                   unseen, overtaken, unsaved, raced, untold, own>>
ExecList ==
    /\ Next1("list") /\ (ListSkipped \/ Listed \/ ListFails)
    /\ UNCHANGED <<db, dirty, reads, gone>>
(* ... and the watermark, read afterwards and stored even when the list    *)
(* failed: it counts what was written in between.  When it cannot be read  *)
(* the next refresh reads again.                                           *)
ExecMark ==
    /\ Next1("mark") /\ cmds' = Tail(cmds)
    /\ \/ moved' = FALSE /\ UNCHANGED events
       \/ moved' = TRUE /\ Event
    /\ UNCHANGED <<store, clock, checked, board, dirty, notified, detached, env, history>>

-----------------------------------------------------------------------------
Init ==
    /\ store = [status |-> "running", sub |-> "active", window |-> TRUE, stamp |-> 0]
    /\ board = store /\ clock = 0 /\ checked = FALSE
    /\ moved = TRUE /\ dirty = TRUE /\ notified = FALSE /\ cmds = << >>
    /\ reads = 0 /\ inbox = << >> /\ gone = FALSE
    /\ env = 0 /\ events = 0
    /\ unseen = FALSE /\ overtaken = FALSE /\ unread = FALSE /\ unsaved = FALSE
    /\ raced = FALSE /\ untold = 0 /\ own = FALSE

Execute == ExecPatch \/ ExecPersist \/ ExecSeed \/ ExecList \/ ExecMark
Next ==
    \/ HookPreToolUse \/ HookPrompt \/ HookStop
    \/ McpClose("done") \/ McpClose("review") \/ McpCheckSub \/ McpSetSub
    \/ TimePasses \/ ReadRow \/ ReadRowFails
    \/ Updated \/ WindowGone \/ UserMoves \/ \E refresh \in BOOLEAN : Tick(refresh)
    \/ Execute
Spec == Init /\ [][Next]_vars

(* The loop runs its commands; every fifth tick refreshes; a detached read *)
(* ends; the loop's select takes a message that keeps being there.         *)
Fairness ==
    /\ WF_vars(Execute) /\ SF_vars(Tick(TRUE))
    /\ WF_vars(ReadRow \/ ReadRowFails) /\ SF_vars(Updated)
FairSpec == Spec /\ Fairness

-----------------------------------------------------------------------------
(* The state is well formed, and the row's sub-status fits its status,     *)
(* whatever stale card is persisted: only a patch that was checked against *)
(* a status the row no longer had breaks the pair.                         *)
PairIsValid ==
    /\ TypeOK
    /\ ValidFor(store.sub, store.status) \/ raced

(* The watermark never hides a write of this process: while the card       *)
(* differs from the row, the next refresh reads, or a read that will show  *)
(* it or a write of the board is under way.  Not so for a hook's write     *)
(* (unseen), for a reply that arrived after a newer one (overtaken), after *)
(* a read that failed, the list of a refresh included (unread), each until *)
(* a list succeeds, nor for a card whose own write failed, until it is     *)
(* replaced by a row (unsaved).                                            *)
Pending ==
    \/ reads > 0 \/ \E i \in 1..Len(inbox) : ~inbox[i].late
    \/ \E i \in 1..Len(cmds) : cmds[i].do \in {"patch", "persist", "seed"}
Missed == unseen \/ overtaken \/ unread \/ unsaved
SkipHidesNothing == board = store \/ moved \/ Pending \/ Missed

(* The board catches up with its own process: it never differs from the    *)
(* row for good, except as above.                                          *)
BoardCatchesUp == []<>(board = store \/ Missed)

(* The user is told at most once of an entry of the row into Review, and   *)
(* at most once more per reply that arrived after a newer one and per      *)
(* failed write of a card outside Review; and a card that shows Review was *)
(* told of, unless the user's own move put it there.  (An entry the row    *)
(* has left again before the board reads it is told of by no one.)         *)
OneNoticePerReview ==
    /\ untold >= 0
    /\ board.status = "review" => notified \/ own

(* The documented form: the counter advances on hook writes too.           *)
BoardSeesHooks == []<>(board = store \/ overtaken)

(* DetectCrashedAgent requires a running task: no crash report reopens a   *)
(* finished one.                                                           *)
FinishedStaysFinished ==
    [][store.status = "done" /\ store'.status # "done" => store'.sub # "crashed"]_vars
=============================================================================
