---------------------------- MODULE SessionClose ----------------------------
(***************************************************************************)
(* How one task leaves its session: wrap_up and the exit token,            *)
(* exit_session and the MCP status="done" close (both through              *)
(* perform_close and close_session), the board's status writes through     *)
(* update_task, and the deletes, with everything those writes set off:     *)
(* the one-shot watcher notices, the phoenix respawn, the kill of the      *)
(* session's window and the epic chain.  Every await of the handlers is a  *)
(* step of its own, so any two of them interleave.                         *)
(*                                                                         *)
(* Sets are the board's moves; its snapshot is the row as the move begins. *)
(* Abstracted: sub_status, sort_order, the url, the epic recalculation (see *)
(* EpicTree) and what follows the chain's claim (see DispatchClaim).       *)
(***************************************************************************)
EXTENDS Naturals, FiniteSets

CONSTANTS
    Exits, Marks, Sets, Deletes,  \* calls, by kind; each is made at most once
    Watchers,                     \* the tasks that may watch this one
    Actions,                      \* the wrap-up actions in use
    Siblings,                     \* ordinary Backlog subtasks of the task's epic
    MaxCalls, MaxTokens, MaxSessions  \* bounds: calls made, tokens issued, windows

Closes == Exits \cup Marks
Writes == Closes \cup Sets
Calls == Writes \cup Deletes

ASSUME CloseAssumption ==
    /\ Exits \cap (Marks \cup Sets \cup Deletes) = {}
    /\ Marks \cap (Sets \cup Deletes) = {} /\ Sets \cap Deletes = {}
    /\ IsFiniteSet(Calls)
    /\ Actions \subseteq {"rebase", "done", "pr"}
    /\ Siblings \in Nat /\ MaxTokens \in Nat /\ MaxSessions \in Nat \ {0}

VARIABLES
    status, window, phoenix,    \* the row; window is the session it points at, or 0
    sessions, launching, doomed,\* windows launched; one not yet recorded; sent to kill
    rows, subscribing,          \* task_watchers of this target; subscribes past their read
    token, issued, wrapping,    \* exit_tokens[task], tokens issued so far, wrap_up running
    call,                       \* per call: its step, the row it read, what it will write
    copies, chained, closed,    \* phoenix successors, subtasks chained, closes written
    asked, told, owed, missed, kept,      \* history of the watchers,
    purpose,              \* of the latest token: its action, until it is consumed or lost,
    crossed, overlap, crashed             \* and of the rest (see the properties)

row == <<status, window, phoenix>>
tmux == <<sessions, launching, doomed>>
watches == <<rows, subscribing, asked, told, missed, kept>>
tokens == <<token, issued, wrapping, purpose>>
epic == <<copies, chained, closed>>
history == <<owed, crossed, overlap, crashed>>
vars == <<row, tmux, watches, tokens, call, epic, history>>

Finished == {"done", "archived"}
Statuses == {"running", "review", "gone"} \cup Finished
None == 0

Steps == {"idle", "consume", "read", "patch", "list", "deliver", "clear", "flag",
          "respawn", "kill", "chain", "unpoint", "delete", "ended"}
(* id and action are those an exit_session presents.  window: what a close *)
(* read and has to kill, what a board move writes back.                    *)
CallStates == [step : Steps, status : Statuses, window : 0..MaxSessions,
               target : Statuses, list : SUBSET Watchers,
               id : 0..MaxTokens, action : Actions \cup {"none"}]
At(c, step) == call[c].step = step
(* What a call in this step still remembers when it remembers nothing.     *)
Bare(step) == [step |-> step, status |-> "running", window |-> None,
               target |-> "done", list |-> {}, id |-> None, action |-> "none"]

TypeOK ==
    /\ status \in Statuses /\ window \in 0..MaxSessions /\ phoenix \in BOOLEAN
    /\ sessions \in 1..MaxSessions /\ launching \in 0..MaxSessions
    /\ doomed \subseteq 1..MaxSessions /\ crossed \subseteq 1..MaxSessions
    /\ rows \subseteq Watchers /\ subscribing \subseteq Watchers /\ owed \subseteq Watchers
    /\ token \in [id : 0..MaxTokens, action : Actions \cup {"none"}]
    /\ issued \in 0..MaxTokens /\ wrapping \in Actions \cup {"none"}
    /\ purpose \in Actions \cup {"none"}
    /\ call \in [Calls -> CallStates]
    /\ copies \in Nat /\ chained \in Nat /\ closed \in Nat
    /\ asked \in [Watchers -> Nat] /\ told \in [Watchers -> Nat]
    /\ missed \subseteq Watchers /\ kept \in [Watchers -> Nat]
    /\ overlap \in BOOLEAN /\ crashed \in BOOLEAN

-----------------------------------------------------------------------------
Set(c, state) == call' = [call EXCEPT ![c] = state]
Goto(c, step) == call' = [call EXCEPT ![c].step = step]
Drop(c, step) == Set(c, Bare(step))
Aim(c, s) == Set(c, [Bare("read") EXCEPT !.target = s])
Begin(c) == At(c, "idle") /\ Cardinality({d \in Calls : ~At(d, "idle")}) < MaxCalls

(* A call that follows up on a status write or a delete, between the write *)
(* and the last step it sets off.                                          *)
FollowingUp(c) == call[c].step \in {"list", "deliver", "clear", "flag", "respawn"}
Entering(c) == call[c].status # call[c].target /\ call[c].target \in Finished

(* The windows that closes have cleared from the row and not yet killed.   *)
ToKill == {call[c].window : c \in {d \in Closes : FollowingUp(d) \/ At(d, "kill")}} \ {None}

(* wrap_up: validate_wrap_up, then the rebase or the read of the verify    *)
(* command, then the token.  A rebase that fails issues none.              *)
WrapUp(action) ==
    /\ wrapping = "none" /\ issued < MaxTokens      \* bound: one wrap_up at a time
    /\ status \in {"running", "review"}
    /\ wrapping' = action
    /\ UNCHANGED <<row, tmux, watches, token, issued, purpose, call, epic, history>>
RebaseFails ==
    /\ wrapping = "rebase" /\ wrapping' = "none"
    /\ UNCHANGED <<row, tmux, watches, token, issued, purpose, call, epic, history>>
(* The token replaces the one an earlier wrap_up left in the map.          *)
IssueExitToken ==
    /\ wrapping # "none" /\ wrapping' = "none"
    /\ issued' = issued + 1 /\ token' = [id |-> issued + 1, action |-> wrapping]
    /\ purpose' = wrapping
    /\ UNCHANGED <<row, tmux, watches, call, epic, history>>

(* exit_session reads the caller's row; it presents a token issued by now, *)
(* the latest or an earlier one, and an action.                            *)
BeginExit(c) ==
    /\ c \in Exits /\ Begin(c) /\ status # "gone"
    /\ \E id \in 1..issued, action \in Actions :
         Set(c, [Bare("consume") EXCEPT !.window = window, !.id = id, !.action = action])
    /\ UNCHANGED <<row, tmux, watches, tokens, epic, history>>
BeginMark(c) ==
    /\ c \in Marks /\ Begin(c) /\ status # "gone" /\ Aim(c, "done")
    /\ UNCHANGED <<row, tmux, watches, tokens, epic, history>>

(* The board's moves to s: where they are offered; whether they send the   *)
(* card's window to the kill, which comes before the persist; and the      *)
(* pointer they persist.  A forward move to Review leaves the window be;   *)
(* archiving kills it and persists the pointer, for the teardown to clear. *)
Offered(s) == status \in {"running", "review", "done"} \ {s}
Kills(s) == s # "review" \/ status = "done"
Persisted(s) == IF s = "archived" \/ ~Kills(s) THEN window ELSE None
BeginSet(c) ==
    /\ c \in Sets /\ Begin(c)
    /\ \E s \in {"review", "done", "archived"} :
         /\ Offered(s)
         /\ Set(c, [Bare("read") EXCEPT !.target = s, !.window = Persisted(s)])
         /\ doomed' = doomed \cup (IF Kills(s) THEN {window} \ {None} ELSE {})
    /\ UNCHANGED <<row, sessions, launching, watches, tokens, epic, history>>

StatusFor(action) == IF action = "pr" THEN "review" ELSE "done"

(* Mutant: any token of the task that is in the map will do.               *)
ConsumeAnyToken(c) ==
    /\ At(c, "consume") /\ token.id # None /\ call[c].window # None
    /\ call[c].action = token.action
    /\ token' = [id |-> None, action |-> "none"] /\ purpose' = "none"
    /\ Aim(c, StatusFor(call[c].action))
    /\ UNCHANGED <<row, tmux, watches, issued, wrapping, epic, history>>
(* handle_exit_session under the write lock: the map must hold the token   *)
(* presented, issued for the action presented, and the row read earlier    *)
(* must name a window; the token is removed before the lock is dropped.    *)
Holds(c) == call[c].id = token.id /\ call[c].action = token.action /\ call[c].window # None
Consume(c) ==
    /\ At(c, "consume") /\ Holds(c)
    /\ token' = [id |-> None, action |-> "none"] /\ purpose' = "none"
    /\ Aim(c, StatusFor(call[c].action))
    /\ UNCHANGED <<row, tmux, watches, issued, wrapping, epic, history>>
(* An error response, the token left where it is: that does not hold, or   *)
(* action "pr" came without its url.                                       *)
Refuse(c) ==
    /\ At(c, "consume") /\ (Holds(c) => call[c].action = "pr") /\ Drop(c, "ended")
    /\ UNCHANGED <<row, tmux, watches, tokens, epic, history>>

(* close_session and update_task read the row they are about to patch; the *)
(* board's persist keeps the pointer of its own snapshot.                  *)
ReadPrior(c) ==
    /\ At(c, "read")
    /\ IF status = "gone" THEN Drop(c, "ended")
         ELSE Set(c, [call[c] EXCEPT !.step = "patch", !.status = status,
                        !.window = IF c \in Closes THEN window ELSE @])
    /\ UNCHANGED <<row, tmux, watches, tokens, epic, history>>

(* After a status write: the notices if it entered a finished status, then *)
(* the respawn's test of the flag.  A close still has its window to kill.  *)
AfterPatch(c) == [call[c] EXCEPT !.step = IF Entering(c) THEN "list" ELSE "flag",
                                 !.window = IF c \in Closes THEN @ ELSE None]

(* What follows the respawn: the kill and the chain for a close, the       *)
(* teardown's follow-up for an archived card.                              *)
Leave(c) ==
    IF c \in Closes THEN Set(c, [Bare("kill") EXCEPT !.window = call[c].window])
    ELSE Drop(c, IF call[c].target = "archived" THEN "unpoint" ELSE "ended")

(* The row's window when a write that knows of another one takes it away.  *)
Lost(known) == {window} \ (doomed \cup {None, known})

(* Mutant: the close hands the kill the window of the row it just wrote.   *)
PatchForgetsWindow(c) ==
    /\ At(c, "patch") /\ status # "gone"
    /\ status' = call[c].target /\ window' = IF c \in Closes THEN None ELSE call[c].window
    /\ Set(c, [AfterPatch(c) EXCEPT !.window = None])
    /\ owed' = owed \cup (IF Entering(c) THEN rows ELSE {})
    /\ crossed' = crossed \cup Lost(call[c].window)
    /\ overlap' = (overlap \/ \E d \in Calls \ {c} : FollowingUp(d))
    /\ closed' = closed + Cardinality({c} \cap Closes)
    /\ UNCHANGED <<phoenix, tmux, watches, tokens, copies, chained, crashed>>
(* The patch: status and window in one write, with no guard on what the    *)
(* row holds by now.  A close clears the window and keeps the one it READ  *)
(* for the kill; a board move writes its card's.                           *)
Patch(c) ==
    /\ At(c, "patch") /\ status # "gone"
    /\ status' = call[c].target /\ window' = IF c \in Closes THEN None ELSE call[c].window
    /\ Set(c, AfterPatch(c))
    /\ owed' = owed \cup (IF Entering(c) THEN rows ELSE {})
    /\ crossed' = crossed \cup Lost(call[c].window)
    /\ overlap' = (overlap \/ \E d \in Calls \ {c} : FollowingUp(d))
    /\ closed' = closed + Cardinality({c} \cap Closes)
    /\ UNCHANGED <<phoenix, tmux, watches, tokens, copies, chained, crashed>>
(* Mutant: the rest of the close runs whether or not the patch landed.     *)
PatchFailsSilently(c) ==
    /\ At(c, "patch") /\ Leave(c)
    /\ UNCHANGED <<row, tmux, watches, tokens, epic, history>>
(* The read or the patch fails.  NotPersisted: no kill, no notice, no      *)
(* chain; the token stays consumed.                                        *)
PatchFails(c) ==
    /\ call[c].step \in {"read", "patch"} /\ Drop(c, "ended")
    /\ UNCHANGED <<row, tmux, watches, tokens, epic, history>>

-----------------------------------------------------------------------------
(* notify_watchers_if_finished and notify_watchers_of_deletion: list, then *)
(* deliver one by one (or drop, if the watcher has no window), then delete *)
(* every row of the target.                                                *)
AfterNotices(c) == IF c \in Deletes THEN "delete" ELSE "flag"

(* Mutant: the rows are deleted before the notices are delivered.          *)
ListWatchersClearsFirst(c) ==
    /\ At(c, "list")
    /\ rows' = {} /\ Goto(c, "clear")
    /\ UNCHANGED <<row, tmux, subscribing, asked, told, missed, kept, tokens, epic, history>>
ListWatchers(c) ==
    /\ At(c, "list")
    /\ Set(c, [call[c] EXCEPT !.list = rows,
            !.step = IF rows # {} THEN "deliver" ELSE IF c \in Deletes THEN "clear" ELSE "flag"])
    /\ UNCHANGED <<row, tmux, watches, tokens, epic, history>>
(* The list fails: nobody is told.  The finish leaves the rows where they  *)
(* are, the deletion goes on to delete them.                               *)
ListFails(c) ==
    /\ At(c, "list")
    /\ Goto(c, IF c \in Deletes THEN "clear" ELSE "flag")
    /\ missed' = missed \cup rows
    /\ UNCHANGED <<row, tmux, rows, subscribing, asked, told, kept, tokens, epic, history>>
Deliver(c) ==
    /\ At(c, "deliver")
    /\ \E w \in call[c].list :
         /\ told' = [told EXCEPT ![w] = @ + 1] /\ missed' = missed \ {w}
         /\ Set(c, [call[c] EXCEPT !.list = @ \ {w},
                 !.step = IF call[c].list = {w} THEN "clear" ELSE "deliver"])
    /\ UNCHANGED <<row, tmux, rows, subscribing, asked, kept, tokens, epic, history>>

ClearWatches(c) ==
    /\ At(c, "clear")
    /\ rows' = {} /\ Goto(c, AfterNotices(c))
    /\ UNCHANGED <<row, tmux, subscribing, asked, told, missed, kept, tokens, epic, history>>
(* The delete of the rows fails, which is only logged: all of them stay.   *)
ClearFails(c) ==
    /\ At(c, "clear") /\ Goto(c, AfterNotices(c))
    /\ kept' = [w \in Watchers |-> kept[w] + (IF w \in rows THEN 1 ELSE 0)]
    /\ UNCHANGED <<row, tmux, rows, subscribing, asked, told, missed, tokens, epic, history>>

(* subscribe_to_task: the target's status is read, then the row inserted.  *)
SubscribeRead(w) ==
    /\ asked[w] = 0 /\ w \notin subscribing         \* bound: one subscription each
    /\ status \notin Finished \cup {"gone"}
    /\ subscribing' = subscribing \cup {w}
    /\ UNCHANGED <<row, tmux, rows, asked, told, missed, kept, tokens, call, epic, history>>
SubscribeInsert(w) ==
    /\ w \in subscribing
    /\ subscribing' = subscribing \ {w} /\ rows' = rows \cup {w}
    /\ asked' = [asked EXCEPT ![w] = @ + 1]
    /\ UNCHANGED <<row, tmux, told, missed, kept, tokens, call, epic, history>>
Unsubscribe(w) ==
    /\ w \in rows /\ rows' = rows \ {w} /\ owed' = owed \ {w}
    /\ UNCHANGED <<row, tmux, subscribing, asked, told, missed, kept, tokens, call, epic,
                   crossed, overlap, crashed>>

-----------------------------------------------------------------------------
(* respawn_phoenix: only on a real change into Done, re-reading the flag.  *)
TestFlag(c) ==
    /\ At(c, "flag")
    /\ IF call[c].target = "done" /\ call[c].status # "done" /\ status # "gone" /\ phoenix
         THEN Set(c, [Bare("respawn") EXCEPT !.window = call[c].window])
         ELSE Leave(c)
    /\ UNCHANGED <<row, tmux, watches, tokens, epic, history>>

(* Mutant: the successor is inserted and the flag left for a later write.  *)
RespawnKeepsFlag(c) ==
    /\ At(c, "respawn") /\ Leave(c)
    /\ copies' = copies + (IF status = "gone" THEN 0 ELSE 1)
    /\ UNCHANGED <<row, tmux, watches, tokens, chained, closed, history>>
(* respawn_phoenix_successor: insert and clear in one transaction, which   *)
(* fails when the predecessor is gone and does not look at the flag.       *)
Respawn(c) ==
    /\ At(c, "respawn") /\ Leave(c)
    /\ copies' = copies + (IF status = "gone" THEN 0 ELSE 1)
    /\ phoenix' = (phoenix /\ status = "gone")
    /\ UNCHANGED <<status, window, tmux, watches, tokens, chained, closed, history>>
(* The re-read of the flag, or the transaction, fails: only logged.        *)
RespawnFails(c) ==
    /\ call[c].step \in {"flag", "respawn"} /\ Leave(c)
    /\ UNCHANGED <<row, tmux, watches, tokens, epic, history>>

(* perform_close, once close_session has returned: the kill is spawned for *)
(* the window the close read, then the chain.                              *)
Kill(c) ==
    /\ At(c, "kill") /\ Drop(c, "chain")
    /\ doomed' = doomed \cup ({call[c].window} \ {None})
    /\ UNCHANGED <<row, sessions, launching, watches, tokens, epic, history>>
(* The archived card's teardown is over: its success clears the pointer.   *)
Unpoint(c) ==
    /\ At(c, "unpoint") /\ Drop(c, "ended")
    /\ \/ window' = None /\ crossed' = crossed \cup Lost(None)
       \/ UNCHANGED <<window, crossed>>
    /\ UNCHANGED <<status, phoenix, tmux, watches, tokens, epic, owed, overlap, crashed>>

(* auto_dispatch_next: claims the next Backlog subtask that is not phoenix.*)
Chain(c) ==
    /\ At(c, "chain") /\ Drop(c, "ended")
    /\ chained' = chained + (IF chained < Siblings THEN 1 ELSE 0)
    /\ UNCHANGED <<row, tmux, watches, tokens, copies, closed, history>>

-----------------------------------------------------------------------------
(* resume: the window is launched from a detached card, its message then   *)
(* persists the whole card.                                                *)
ResumeLaunch ==
    /\ status \in {"running", "review", "done"} /\ window = None
    /\ launching = None /\ sessions < MaxSessions
    /\ sessions' = sessions + 1 /\ launching' = sessions + 1
    /\ UNCHANGED <<row, doomed, watches, tokens, call, epic, history>>
ResumePersist ==
    /\ launching # None /\ status # "gone"
    /\ status' = "running" /\ window' = launching /\ launching' = None
    /\ UNCHANGED <<phoenix, sessions, doomed, watches, tokens, call, epic, history>>

(* delete_task: the row read first decides whether anyone is told.         *)
BeginDelete(d) ==
    /\ d \in Deletes /\ Begin(d) /\ status # "gone"
    /\ Drop(d, IF status \in Finished THEN "clear" ELSE "list")
    /\ owed' = owed \cup (IF status \in Finished THEN {} ELSE rows)
    /\ overlap' = (overlap \/ \E c \in Calls \ {d} : FollowingUp(c))
    /\ UNCHANGED <<row, tmux, watches, tokens, epic, crossed, crashed>>
Delete(d) ==
    /\ At(d, "delete") /\ Drop(d, "ended") /\ status' = "gone"
    /\ crossed' = crossed \cup ({window, launching} \ {None})
    /\ launching' = None /\ window' = None
    /\ UNCHANGED <<phoenix, sessions, doomed, watches, tokens, epic, owed, overlap, crashed>>

(* The row's delete fails: its watchers were told all the same.            *)
DeleteFails(d) ==
    /\ At(d, "delete") /\ Drop(d, "ended")
    /\ UNCHANGED <<row, tmux, watches, tokens, epic, history>>

(* A restart of dispatch drops the calls in flight and the tokens.         *)
Restart ==
    /\ ~crashed /\ crashed' = TRUE          \* bound: one restart, in the middle of a call
    /\ \E c \in Calls : call[c].step \notin {"idle", "ended"}
    /\ call' = [c \in Calls |-> IF At(c, "idle") THEN call[c] ELSE Bare("ended")]
    /\ token' = [id |-> None, action |-> "none"] /\ wrapping' = "none"
    /\ purpose' = "none" /\ subscribing' = {}
    /\ crossed' = crossed \cup ({launching} \ {None}) \cup ToKill /\ launching' = None
    /\ UNCHANGED <<row, sessions, doomed, rows, asked, told, missed, kept, issued,
                   epic, owed, overlap>>

-----------------------------------------------------------------------------
Init ==
    /\ status = "running" /\ window = 1 /\ phoenix \in BOOLEAN
    /\ sessions = 1 /\ launching = None /\ doomed = {}
    /\ rows = {} /\ subscribing = {}
    /\ token = [id |-> None, action |-> "none"] /\ issued = 0 /\ wrapping = "none"
    /\ call = [c \in Calls |-> Bare("idle")]
    /\ copies = 0 /\ chained = 0 /\ closed = 0
    /\ purpose = "none"
    /\ asked = [w \in Watchers |-> 0] /\ told = [w \in Watchers |-> 0]
    /\ missed = {} /\ kept = [w \in Watchers |-> 0]
    /\ owed = {} /\ crossed = {} /\ overlap = FALSE /\ crashed = FALSE

(* The steps of a call once it has begun.                                  *)
Step(c) ==
    \/ Consume(c) \/ Refuse(c) \/ ReadPrior(c) \/ Patch(c) \/ PatchFails(c)
    \/ ListWatchers(c) \/ ListFails(c) \/ Deliver(c) \/ ClearWatches(c) \/ ClearFails(c)
    \/ TestFlag(c) \/ Respawn(c) \/ RespawnFails(c) \/ Kill(c) \/ Chain(c) \/ Unpoint(c)
    \/ Delete(c) \/ DeleteFails(c)

Next ==
    \/ \E action \in Actions : WrapUp(action)
    \/ RebaseFails \/ IssueExitToken
    \/ \E c \in Calls : BeginExit(c) \/ BeginMark(c) \/ BeginSet(c) \/ BeginDelete(c)
    \/ \E c \in Calls : Step(c)
    \/ \E w \in Watchers : SubscribeRead(w) \/ SubscribeInsert(w) \/ Unsubscribe(w)
    \/ ResumeLaunch \/ ResumePersist
    \/ Restart

Spec == Init /\ [][Next]_vars

-----------------------------------------------------------------------------
(* Of any number of exit_session calls racing, with the tokens of this and *)
(* of earlier wrap_ups, only one that presents the latest token closes the *)
(* session, once, and it writes the status of the action that token was    *)
(* issued for (handle_exit_session, issue_exit_token).                     *)
Spends(c) == At(c, "consume") /\ call'[c].step = "read"
SpendsTheLatest ==
    \A c \in Exits : Spends(c) =>
        /\ call[c].id = issued /\ purpose # "none"
        /\ call'[c].target = StatusFor(purpose)
OneCloseForAToken == [][SpendsTheLatest]_vars

(* The state is well formed, and TheFlagIsTheReceipt: whatever crashes or  *)
(* fails, a task still flagged has no successor yet, so re-entering Done   *)
(* may safely retry.                                                       *)
FlagIsTheReceipt ==
    /\ TypeOK
    /\ copies > 0 => ~phoenix

(* Two successors need two calls that overlap: one entered Done, or a      *)
(* delete began, while another was still following up on its own write.    *)
OneSuccessorUnlessOverlapped == copies <= 1 \/ overlap

(* The documented form: no round trip through Done makes a second copy.    *)
OneSuccessor == copies <= 1

(* A subscription made before the task finished is not lost: its row goes  *)
(* only after its watcher was addressed, unless the deletion could not     *)
(* list it, follow-ups overlapped or a restart cut one short.              *)
OwedAreTold ==
    \A w \in owed : w \notin rows => told[w] > 0 \/ w \in missed \/ overlap \/ crashed

(* Firing removes the row: once no call is following up, a finished or     *)
(* deleted target keeps no row a finish or a delete should have fired, but *)
(* those it failed to list or to clear; what else may stay are             *)
(* subscriptions that read it unfinished and landed late.                  *)
NoOwedRowAtRest ==
    (\A c \in Calls : ~FollowingUp(c)) =>
        \/ \A w \in owed \cap rows : w \in missed \/ kept[w] > 0
        \/ overlap \/ crashed

(* The documented form: no row outlives its target's finish.               *)
NoForgottenWatch ==
    (\A c \in Calls : ~FollowingUp(c)) /\ status \in Finished /\ ~crashed => rows = {}

(* One-shot: a watcher is addressed once per subscription, and once more   *)
(* for each time the clearing of its row failed, unless two follow-ups     *)
(* overlapped or a restart cut one short.                                  *)
ToldOnce == \A w \in Watchers : told[w] <= asked[w] + kept[w] \/ overlap \/ crashed

(* The three together: what subscribe_to_task promises its caller.         *)
WatchersAreServed == OwedAreTold /\ NoOwedRowAtRest /\ ToldOnce

(* Every launched window is the row's, on its way there, sent to the kill, *)
(* or cleared by a close that will send it.  Lost (crossed) are only those *)
(* a write took off the row after reading another one, those whose row was *)
(* deleted, and those whose launch, or whose close between its write and   *)
(* its kill, a restart cut short.                                          *)
NoOrphanSession ==
    \A s \in 1..sessions : s \in {window, launching} \cup doomed \cup ToKill \cup crossed

(* A close that did not take effect must not chain: no more subtasks are   *)
(* dispatched than closes were written, whatever fails or crashes between. *)
ChainFollowsAClose == chained <= closed
=============================================================================
