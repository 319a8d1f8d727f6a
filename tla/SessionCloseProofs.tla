------------------------- MODULE SessionCloseProofs -------------------------
(***************************************************************************)
(* What SessionClose keeps for any number of closes, board writes, deletes *)
(* and watchers, whatever fails and wherever a restart falls.              *)
(***************************************************************************)
EXTENDS SessionClose, FiniteSetTheorems, TLAPS

-----------------------------------------------------------------------------
(* How a step moves the calls.                                             *)

(* The records that a call's step leaves it with.                          *)
LEMMA BareIsACall ==
    ASSUME NEW step \in Steps
    PROVE  /\ Bare(step) \in CallStates
           /\ Bare(step).step = step /\ Bare(step).list = {}
           /\ Bare(step).window = None /\ Bare(step).status = "running"
           /\ Bare(step).target = "done" /\ Bare(step).id = None
BY CloseAssumption DEF Bare, CallStates, Statuses, Finished, None

(* Setting one call's record leaves the others alone.                      *)
LEMMA SetOneCall ==
    ASSUME call \in [Calls -> CallStates], NEW c \in Calls, NEW r \in CallStates, Set(c, r)
    PROVE  /\ call' \in [Calls -> CallStates] /\ call'[c] = r
           /\ \A d \in Calls \ {c} : call'[d] = call[d]
BY DEF Set

(* Dropping what a handler has left to do changes that handler only.      *)
LEMMA DropACall ==
    ASSUME call \in [Calls -> CallStates], NEW c \in Calls, NEW step \in Steps, Drop(c, step)
    PROVE  /\ call' \in [Calls -> CallStates]
           /\ call'[c].step = step /\ call'[c].list = {} /\ call'[c].window = None
           /\ \A d \in Calls \ {c} : call'[d] = call[d]
<1>1. /\ Bare(step) \in CallStates /\ Bare(step).step = step /\ Bare(step).list = {}
      /\ Bare(step).window = None
  BY BareIsACall
<1>2. Set(c, Bare(step))
  BY DEF Drop
<1> QED
  BY <1>1, <1>2, SetOneCall

(* The call's next step, and nothing else about the calls has changed.     *)
Moved(c, step) ==
    /\ call' \in [Calls -> CallStates] /\ call'[c].step = step
    /\ \A d \in Calls \ {c} : call'[d] = call[d]

(* Where a call goes once it is past the respawn, and what it holds there. *)
AfterRespawn(c) ==
    IF c \in Closes THEN "kill" ELSE IF call[c].target = "archived" THEN "unpoint" ELSE "ended"

(* Past the respawn a close keeps its window, any other call nothing.      *)
LEMMA LeaveMoves ==
    ASSUME TypeOK, NEW c \in Calls, Leave(c)
    PROVE  /\ Moved(c, AfterRespawn(c))
           /\ call'[c].window = IF c \in Closes THEN call[c].window ELSE None
<1> DEFINE r == [Bare("kill") EXCEPT !.window = call[c].window]
<1>1. /\ Bare("kill") \in CallStates /\ Bare("kill").step = "kill"
      /\ call[c].window \in 0..MaxSessions
  BY BareIsACall DEF Steps, TypeOK, CallStates
<1>2. r \in CallStates /\ r.step = "kill" /\ r.window = call[c].window
  BY <1>1 DEF CallStates
<1> HIDE DEF r
<1>3. CASE c \in Closes
  <2>1. Set(c, r)
    BY <1>3 DEF Leave, r
  <2> QED
    BY <1>2, <1>3, <2>1, SetOneCall DEF TypeOK, Moved, AfterRespawn
<1>4. CASE c \notin Closes
  <2>1. AfterRespawn(c) \in Steps /\ Drop(c, AfterRespawn(c))
    BY <1>4 DEF Leave, AfterRespawn, Steps
  <2> QED
    BY <1>4, <2>1, DropACall DEF TypeOK, Moved
<1> QED
  BY <1>3, <1>4

(* Where each action leaves the call that takes it.                        *)
LEMMA CallMoves ==
    ASSUME TypeOK, NEW c \in Calls
    PROVE  /\ BeginExit(c) => Moved(c, "consume")
           /\ BeginMark(c) => Moved(c, "read")
           /\ BeginSet(c) => Moved(c, "read")
           /\ BeginDelete(c) => Moved(c, IF status \in Finished THEN "clear" ELSE "list")
           /\ Consume(c) => Moved(c, "read")
           /\ Refuse(c) => Moved(c, "ended")
           /\ ReadPrior(c) => Moved(c, IF status = "gone" THEN "ended" ELSE "patch")
           /\ Patch(c) => Moved(c, IF Entering(c) THEN "list" ELSE "flag")
           /\ PatchFails(c) => Moved(c, "ended")
           /\ ListWatchers(c) =>
                /\ call'[c].list = rows
                /\ Moved(c, IF rows # {} THEN "deliver"
                              ELSE IF c \in Deletes THEN "clear" ELSE "flag")
           /\ ListFails(c) => Moved(c, IF c \in Deletes THEN "clear" ELSE "flag")
           /\ ClearWatches(c) => Moved(c, AfterNotices(c))
           /\ ClearFails(c) => Moved(c, AfterNotices(c))
           /\ TestFlag(c) => (Moved(c, AfterRespawn(c)) \/ (phoenix /\ Moved(c, "respawn")))
           /\ Respawn(c) => Moved(c, AfterRespawn(c))
           /\ RespawnFails(c) => Moved(c, AfterRespawn(c))
           /\ Kill(c) => Moved(c, "chain")
           /\ Chain(c) => Moved(c, "ended")
           /\ Unpoint(c) => Moved(c, "ended")
           /\ Delete(c) => Moved(c, "ended")
           /\ DeleteFails(c) => Moved(c, "ended")
<1> USE DEF TypeOK, Moved
<1>1. ASSUME NEW r \in CallStates, NEW step \in Steps, r.step = step, Set(c, r)
      PROVE  Moved(c, step)
  BY <1>1, SetOneCall
<1>2. ASSUME NEW step \in Steps, Drop(c, step) PROVE Moved(c, step)
  BY <1>2, DropACall
<1>3. ASSUME NEW step \in Steps, Goto(c, step) PROVE Moved(c, step)
  <2>1. [call[c] EXCEPT !.step = step] \in CallStates /\ [call[c] EXCEPT !.step = step].step = step
    BY DEF CallStates
  <2>2. Set(c, [call[c] EXCEPT !.step = step])
    BY <1>3 DEF Goto, Set
  <2> QED
    BY <1>1, <2>1, <2>2
<1>4. ASSUME NEW t \in Statuses, Aim(c, t) PROVE Moved(c, "read")
  <2>1. Bare("read") \in CallStates /\ Bare("read").step = "read"
    BY BareIsACall DEF Steps
  <2>2. /\ [Bare("read") EXCEPT !.target = t] \in CallStates
        /\ [Bare("read") EXCEPT !.target = t].step = "read"
    BY <2>1 DEF CallStates
  <2> QED
    BY <1>1, <1>4, <2>2 DEF Aim, Steps
<1>5. /\ "read" \in Steps /\ "ended" \in Steps /\ "clear" \in Steps /\ "list" \in Steps
      /\ "chain" \in Steps /\ AfterNotices(c) \in Steps /\ "respawn" \in Steps
      /\ "flag" \in Steps /\ "consume" \in Steps /\ "patch" \in Steps /\ "read" \in Steps
  BY DEF Steps, AfterNotices
<1>6. BeginExit(c) => Moved(c, "consume")
  <2>1. ASSUME NEW id \in 1..issued, NEW action \in Actions,
               Set(c, [Bare("consume") EXCEPT !.window = window, !.id = id, !.action = action])
        PROVE  Moved(c, "consume")
    <3> DEFINE r == [Bare("consume") EXCEPT !.window = window, !.id = id, !.action = action]
    <3>1. Bare("consume") \in CallStates /\ Bare("consume").step = "consume"
      BY <1>5, BareIsACall
    <3>2. id \in 0..MaxTokens
      BY CloseAssumption
    <3>3. r \in CallStates /\ r.step = "consume"
      BY <3>1, <3>2 DEF CallStates
    <3> QED
      BY <1>1, <1>5, <2>1, <3>3
  <2> QED
    BY <2>1 DEF BeginExit
<1>7. BeginMark(c) => Moved(c, "read")
  BY <1>4 DEF BeginMark, Statuses, Finished
<1>8. BeginSet(c) => Moved(c, "read")
  <2>1. ASSUME NEW s \in {"review", "done", "archived"},
               Set(c, [Bare("read") EXCEPT !.target = s, !.window = Persisted(s)])
        PROVE  Moved(c, "read")
    <3> DEFINE r == [Bare("read") EXCEPT !.target = s, !.window = Persisted(s)]
    <3>1. Bare("read") \in CallStates /\ Bare("read").step = "read"
      BY <1>5, BareIsACall
    <3>2. Persisted(s) \in 0..MaxSessions /\ s \in Statuses
      BY CloseAssumption DEF Persisted, None, Statuses, Finished
    <3>3. r \in CallStates /\ r.step = "read"
      BY <3>1, <3>2 DEF CallStates
    <3> QED
      BY <1>1, <1>5, <2>1, <3>3
  <2> QED
    BY <2>1 DEF BeginSet
<1>9. BeginDelete(c) => Moved(c, IF status \in Finished THEN "clear" ELSE "list")
  BY <1>2, <1>5 DEF BeginDelete
<1>10. Consume(c) => Moved(c, "read")
  BY <1>4 DEF Consume, StatusFor, Statuses, Finished
<1>11. Refuse(c) => Moved(c, "ended")
  BY <1>2, <1>5 DEF Refuse
<1>12. ReadPrior(c) => Moved(c, IF status = "gone" THEN "ended" ELSE "patch")
  <2> DEFINE w == IF c \in Closes THEN window ELSE call[c].window
             r == [call[c] EXCEPT !.step = "patch", !.status = status, !.window = w]
  <2>1. call[c] \in CallStates /\ w \in 0..MaxSessions
    BY DEF CallStates
  <2> HIDE DEF w
  <2>2. r \in CallStates /\ r.step = "patch"
    BY <1>5, <2>1 DEF CallStates
  <2>3. ReadPrior(c) => IF status = "gone" THEN Drop(c, "ended") ELSE Set(c, r)
    BY DEF ReadPrior, w
  <2> HIDE DEF r
  <2> QED
    BY <1>1, <1>2, <1>5, <2>2, <2>3
<1>13. Patch(c) => Moved(c, IF Entering(c) THEN "list" ELSE "flag")
  <2> DEFINE step == IF Entering(c) THEN "list" ELSE "flag"
  <2>1. step \in Steps
    BY DEF Steps
  <2> HIDE DEF step
  <2> DEFINE w == IF c \in Closes THEN call[c].window ELSE None
             r == [call[c] EXCEPT !.step = step, !.window = w]
  <2>2. call[c] \in CallStates /\ w \in 0..MaxSessions
    BY CloseAssumption DEF CallStates, None
  <2> HIDE DEF w
  <2>5. r \in CallStates /\ r.step = step
    BY <2>1, <2>2 DEF CallStates
  <2>3. AfterPatch(c) = r
    BY DEF AfterPatch, step, w
  <2> HIDE DEF r
  <2>4. Patch(c) => Moved(c, step)
    BY <1>1, <2>1, <2>5, <2>3 DEF Patch
  <2> QED
    BY <2>4 DEF step
<1>14. PatchFails(c) => Moved(c, "ended")
  BY <1>2, <1>5 DEF PatchFails
<1>15. ListWatchers(c) =>
         /\ call'[c].list = rows
         /\ Moved(c, IF rows # {} THEN "deliver" ELSE IF c \in Deletes THEN "clear" ELSE "flag")
  <2> DEFINE step == IF rows # {} THEN "deliver" ELSE IF c \in Deletes THEN "clear" ELSE "flag"
             r == [call[c] EXCEPT !.list = rows, !.step = step]
  <2>1. step \in Steps
    BY DEF Steps
  <2> HIDE DEF step
  <2>2. r \in CallStates /\ r.step = step /\ r.list = rows
    BY <2>1 DEF CallStates
  <2>3. ListWatchers(c) => Set(c, r)
    BY DEF ListWatchers, step
  <2> HIDE DEF r
  <2>4. ListWatchers(c) => call'[c].list = rows /\ Moved(c, step)
    BY <1>1, <2>1, <2>2, <2>3, SetOneCall
  <2> QED
    BY <2>4 DEF step
<1>16. ClearWatches(c) => Moved(c, AfterNotices(c))
  BY <1>3, <1>5 DEF ClearWatches
<1>22. ListFails(c) => Moved(c, IF c \in Deletes THEN "clear" ELSE "flag")
  BY <1>3, <1>5 DEF ListFails
<1>23. ClearFails(c) => Moved(c, AfterNotices(c))
  BY <1>3, <1>5 DEF ClearFails
<1>17. TestFlag(c) => (Moved(c, AfterRespawn(c)) \/ (phoenix /\ Moved(c, "respawn")))
  <2> DEFINE r == [Bare("respawn") EXCEPT !.window = call[c].window]
  <2>1. call[c].window \in 0..MaxSessions
    BY DEF CallStates
  <2>2. Bare("respawn") \in CallStates /\ Bare("respawn").step = "respawn"
    BY <1>5, BareIsACall
  <2>3. r \in CallStates /\ r.step = "respawn"
    BY <2>1, <2>2 DEF CallStates
  <2>4. TestFlag(c) => (phoenix /\ Set(c, r)) \/ Leave(c)
    BY DEF TestFlag
  <2> HIDE DEF r
  <2> QED
    BY <1>1, <1>5, <2>3, <2>4, LeaveMoves
<1>18. Respawn(c) => Moved(c, AfterRespawn(c))
  BY LeaveMoves DEF Respawn
<1>19. RespawnFails(c) => Moved(c, AfterRespawn(c))
  BY LeaveMoves DEF RespawnFails
<1>20. Chain(c) => Moved(c, "ended")
  BY <1>2, <1>5 DEF Chain
<1>21. Delete(c) => Moved(c, "ended")
  BY <1>2, <1>5 DEF Delete
<1>24. Kill(c) => Moved(c, "chain")
  BY <1>2, <1>5 DEF Kill
<1>25. Unpoint(c) => Moved(c, "ended")
  BY <1>2, <1>5 DEF Unpoint
<1>26. DeleteFails(c) => Moved(c, "ended")
  BY <1>2, <1>5 DEF DeleteFails
<1> QED
  BY <1>6, <1>7, <1>8, <1>9, <1>10, <1>11, <1>12, <1>13, <1>14, <1>15, <1>16, <1>17,
     <1>18, <1>19, <1>20, <1>21, <1>22, <1>23, <1>24, <1>25, <1>26

(* A delivery takes one watcher off the call's list.                       *)
LEMMA DeliveryMoves ==
    ASSUME TypeOK, NEW c \in Calls, Deliver(c)
    PROVE  \E w \in call[c].list :
             /\ told' = [told EXCEPT ![w] = @ + 1] /\ missed' = missed \ {w}
             /\ call'[c].list = call[c].list \ {w}
             /\ Moved(c, IF call[c].list = {w} THEN "clear" ELSE "deliver")
<1>1. PICK w \in call[c].list :
        /\ told' = [told EXCEPT ![w] = @ + 1] /\ missed' = missed \ {w}
        /\ Set(c, [call[c] EXCEPT !.list = @ \ {w},
                 !.step = IF call[c].list = {w} THEN "clear" ELSE "deliver"])
  BY DEF Deliver
<1> DEFINE step == IF call[c].list = {w} THEN "clear" ELSE "deliver"
           r == [call[c] EXCEPT !.list = @ \ {w}, !.step = step]
<1>2. step \in Steps
  BY DEF Steps
<1> HIDE DEF step
<1>3. call[c] \in CallStates
  BY DEF TypeOK
<1>4. r \in CallStates /\ r.step = step /\ r.list = call[c].list \ {w}
  BY <1>2, <1>3 DEF CallStates
<1>5. Set(c, r)
  BY <1>1 DEF step
<1> HIDE DEF r
<1>6. call'[c].list = call[c].list \ {w} /\ Moved(c, step)
  BY <1>4, <1>5, SetOneCall DEF TypeOK, Moved
<1> QED
  BY <1>1, <1>6 DEF step

-----------------------------------------------------------------------------
(* The state is well formed.                                               *)

(* Init is typed.                                                          *)
LEMMA InitTyped == Init => TypeOK
<1> SUFFICES ASSUME Init PROVE TypeOK
  OBVIOUS
<1> USE DEF Init
<1>1. Bare("idle") \in CallStates
  BY BareIsACall DEF Steps
<1>2. call \in [Calls -> CallStates]
  BY <1>1
<1>3. /\ window \in 0..MaxSessions /\ sessions \in 1..MaxSessions
      /\ launching \in 0..MaxSessions /\ issued \in 0..MaxTokens
      /\ token \in [id : 0..MaxTokens, action : Actions \cup {"none"}]
  BY CloseAssumption DEF None
<1>4. asked \in [Watchers -> Nat] /\ told \in [Watchers -> Nat]
  OBVIOUS
<1> QED
  BY <1>2, <1>3, <1>4 DEF TypeOK, Statuses, Finished

(* A wrap_up under way has an id left for its token: with it TypeOK is     *)
(* inductive.                                                              *)
WrapUpFits == wrapping # "none" => issued < MaxTokens

(* A wrap-up under way has a token left to issue.                        *)
LEMMA WrapUpFitsKept == TypeOK /\ WrapUpFits /\ [Next]_vars => WrapUpFits'
<1> SUFFICES ASSUME TypeOK, WrapUpFits, [Next]_vars PROVE WrapUpFits'
  OBVIOUS
<1>1. \/ UNCHANGED <<wrapping, issued>>
      \/ wrapping' = "none"
      \/ \E action \in Actions : WrapUp(action)
  <2>1. CASE UNCHANGED vars
    BY <2>1 DEF vars, tokens
  <2>2. ASSUME NEW c \in Calls,
               Step(c) \/ BeginExit(c) \/ BeginMark(c) \/ BeginSet(c) \/ BeginDelete(c)
        PROVE  UNCHANGED <<wrapping, issued>>
    BY <2>2 DEF Step, BeginExit, BeginMark, BeginSet, BeginDelete, Consume, Refuse, ReadPrior,
       Patch, PatchFails, ListWatchers, ListFails, Deliver, ClearWatches, ClearFails, TestFlag,
       Respawn, RespawnFails, Kill, Chain, Unpoint, Delete, DeleteFails, tokens
  <2>3. ASSUME NEW w \in Watchers, SubscribeRead(w) \/ SubscribeInsert(w) \/ Unsubscribe(w)
        PROVE  UNCHANGED <<wrapping, issued>>
    BY <2>3 DEF SubscribeRead, SubscribeInsert, Unsubscribe, tokens
  <2>4. CASE ResumeLaunch \/ ResumePersist
    BY <2>4 DEF ResumeLaunch, ResumePersist, tokens
  <2>5. CASE RebaseFails \/ IssueExitToken \/ Restart
    BY <2>5 DEF RebaseFails, IssueExitToken, Restart
  <2> QED
    BY <2>1, <2>2, <2>3, <2>4, <2>5 DEF Next
<1> QED
  BY <1>1 DEF WrapUpFits, WrapUp

(* Every step keeps the state typed.                                       *)
LEMMA TypesKept == TypeOK /\ WrapUpFits /\ [Next]_vars => TypeOK'
<1> SUFFICES ASSUME TypeOK, WrapUpFits, [Next]_vars PROVE TypeOK'
  OBVIOUS
<1> USE CloseAssumption DEF TypeOK, row, tmux, watches, tokens, epic, history, None
<1>1. CASE UNCHANGED vars
  BY <1>1 DEF vars
<1>2. ASSUME NEW action \in Actions, WrapUp(action) PROVE TypeOK'
  BY <1>2 DEF WrapUp
<1>3. CASE RebaseFails
  BY <1>3 DEF RebaseFails
<1>14. CASE IssueExitToken
  <2>1. /\ issued' \in 0..MaxTokens /\ wrapping' \in Actions \cup {"none"}
        /\ token' \in [id : 0..MaxTokens, action : Actions \cup {"none"}]
    BY <1>14 DEF IssueExitToken, WrapUpFits
  <2> QED
    BY <1>14, <2>1 DEF IssueExitToken
<1>4. ASSUME NEW c \in Calls, BeginExit(c) \/ BeginMark(c) \/ BeginSet(c) PROVE TypeOK'
  <2>1. call' \in [Calls -> CallStates]
    BY <1>4, CallMoves DEF Moved
  <2>2. CASE BeginExit(c) \/ BeginMark(c)
    BY <2>1, <2>2 DEF BeginExit, BeginMark
  <2>3. CASE BeginSet(c)
    <3>1. doomed' = doomed \/ doomed' = doomed \cup ({window} \ {None})
      BY <2>3 DEF BeginSet
    <3>2. {window} \ {None} \subseteq 1..MaxSessions
      BY CloseAssumption
    <3>3. doomed' \subseteq 1..MaxSessions
      BY <3>1, <3>2
    <3> QED
      BY <2>1, <2>3, <3>3 DEF BeginSet
  <2> QED
    BY <1>4, <2>2, <2>3
<1>5. ASSUME NEW c \in Calls, BeginDelete(c) PROVE TypeOK'
  <2>1. call' \in [Calls -> CallStates]
    BY <1>5, CallMoves DEF Moved
  <2> QED
    BY <1>5, <2>1 DEF BeginDelete
<1>6. ASSUME NEW c \in Calls, Consume(c) \/ Refuse(c) \/ ReadPrior(c) \/ PatchFails(c)
                              \/ RespawnFails(c) \/ TestFlag(c) \/ DeleteFails(c)
      PROVE  TypeOK'
  <2>1. call' \in [Calls -> CallStates]
    BY <1>6, CallMoves DEF Moved
  <2> QED
    BY <1>6, <2>1 DEF Consume, Refuse, ReadPrior, PatchFails, RespawnFails, TestFlag, DeleteFails
<1>17. ASSUME NEW c \in Calls, Kill(c) \/ Unpoint(c) PROVE TypeOK'
  <2>1. call' \in [Calls -> CallStates] /\ call[c] \in CallStates
    BY <1>17, CallMoves DEF Moved
  <2>2. \A s \in 0..MaxSessions : {s} \ {None} \subseteq 1..MaxSessions
    BY CloseAssumption
  <2>3. CASE Kill(c)
    <3>1. {call[c].window} \ {None} \subseteq 1..MaxSessions
      BY <2>1, <2>2 DEF CallStates
    <3> QED
      BY <2>1, <2>3, <3>1 DEF Kill
  <2>4. CASE Unpoint(c)
    <3>1. Lost(None) \subseteq 1..MaxSessions /\ None \in 0..MaxSessions
      BY <2>2 DEF Lost
    <3>2. window' \in 0..MaxSessions /\ crossed' \subseteq 1..MaxSessions
      BY <2>4, <3>1 DEF Unpoint
    <3> QED
      BY <2>1, <2>4, <3>2 DEF Unpoint
  <2> QED
    BY <1>17, <2>3, <2>4
<1>7. ASSUME NEW c \in Calls, Patch(c) PROVE TypeOK'
  <2>1. call' \in [Calls -> CallStates] /\ call[c] \in CallStates
    BY <1>7, CallMoves DEF Moved
  <2>2. status' \in Statuses /\ window' \in 0..MaxSessions
    BY <1>7, <2>1 DEF Patch, CallStates
  <2>4. crossed' \subseteq 1..MaxSessions
    <3>1. crossed' = crossed \cup Lost(call[c].window)
      BY <1>7 DEF Patch
    <3>2. Lost(call[c].window) \subseteq 1..MaxSessions
      BY CloseAssumption DEF Lost
    <3> QED
      BY <3>1, <3>2
  <2>5. owed' \subseteq Watchers
    <3>1. owed' = owed \cup (IF Entering(c) THEN rows ELSE {})
      BY <1>7 DEF Patch
    <3> QED
      BY <3>1
  <2>6. overlap' \in BOOLEAN
    BY <1>7, Zenon DEF Patch
  <2>3. closed' \in Nat
    <3>1. IsFiniteSet({c}) /\ {c} \cap Closes \subseteq {c}
      BY FS_Singleton
    <3>2. IsFiniteSet({c} \cap Closes)
      BY <3>1, FS_Subset
    <3>3. Cardinality({c} \cap Closes) \in Nat
      BY <3>2, FS_CardinalityType
    <3> QED
      BY <1>7, <3>3 DEF Patch
  <2> QED
    BY <1>7, <2>1, <2>2, <2>3, <2>4, <2>5, <2>6 DEF Patch
<1>8. ASSUME NEW c \in Calls, ListWatchers(c) \/ ListFails(c) \/ ClearWatches(c) PROVE TypeOK'
  <2>1. call' \in [Calls -> CallStates]
    BY <1>8, CallMoves DEF Moved
  <2> QED
    BY <1>8, <2>1 DEF ListWatchers, ListFails, ClearWatches
<1>18. ASSUME NEW c \in Calls, ClearFails(c) PROVE TypeOK'
  <2>1. call' \in [Calls -> CallStates]
    BY <1>18, CallMoves DEF Moved
  <2>2. kept' \in [Watchers -> Nat]
    BY <1>18 DEF ClearFails
  <2> QED
    BY <1>18, <2>1, <2>2 DEF ClearFails
<1>9. ASSUME NEW c \in Calls, Deliver(c) PROVE TypeOK'
  <2>1. call' \in [Calls -> CallStates] /\ call[c].list \subseteq Watchers
    BY <1>9, DeliveryMoves DEF Moved, CallStates
  <2>2. told' \in [Watchers -> Nat] /\ missed' \subseteq Watchers
    BY <1>9, <2>1 DEF Deliver
  <2> QED
    BY <1>9, <2>1, <2>2 DEF Deliver
<1>10. ASSUME NEW c \in Calls, Respawn(c) \/ Chain(c) PROVE TypeOK'
  <2>1. call' \in [Calls -> CallStates]
    BY <1>10, CallMoves DEF Moved
  <2>2. CASE Respawn(c)
    <3>1. copies' = copies \/ copies' = copies + 1
      <4>1. CASE status = "gone"
        BY <2>2, <4>1 DEF Respawn
      <4>2. CASE status # "gone"
        BY <2>2, <4>2 DEF Respawn
      <4> QED
        BY <4>1, <4>2
    <3>2. copies' \in Nat
      BY <3>1
    <3>3. phoenix' \in BOOLEAN
      BY <2>2 DEF Respawn
    <3> QED
      BY <2>1, <2>2, <3>2, <3>3 DEF Respawn
  <2>3. CASE Chain(c)
    <3>1. chained' = chained \/ chained' = chained + 1
      <4>1. CASE chained < Siblings
        BY <2>3, <4>1 DEF Chain
      <4>2. CASE ~(chained < Siblings)
        BY <2>3, <4>2 DEF Chain
      <4> QED
        BY <4>1, <4>2
    <3>2. chained' \in Nat
      BY <3>1
    <3> QED
      BY <2>1, <2>3, <3>2 DEF Chain
  <2> QED
    BY <1>10, <2>2, <2>3
<1>15. ASSUME NEW c \in Calls, Delete(c) PROVE TypeOK'
  <2>1. call' \in [Calls -> CallStates]
    BY <1>15, CallMoves DEF Moved
  <2>2. crossed' \subseteq 1..MaxSessions
    BY <1>15 DEF Delete
  <2> QED
    BY <1>15, <2>1, <2>2 DEF Delete, Statuses
<1>11. ASSUME NEW w \in Watchers, SubscribeRead(w) \/ SubscribeInsert(w) \/ Unsubscribe(w)
       PROVE  TypeOK'
  <2>1. /\ rows' \subseteq Watchers /\ subscribing' \subseteq Watchers /\ owed' \subseteq Watchers
        /\ asked' \in [Watchers -> Nat] /\ told' = told
    BY <1>11 DEF SubscribeRead, SubscribeInsert, Unsubscribe
  <2> QED
    BY <1>11, <2>1 DEF SubscribeRead, SubscribeInsert, Unsubscribe
<1>12. CASE ResumeLaunch
  <2>1. sessions' \in 1..MaxSessions /\ launching' \in 0..MaxSessions
    BY <1>12 DEF ResumeLaunch
  <2> QED
    BY <1>12, <2>1 DEF ResumeLaunch
<1>16. CASE ResumePersist
  BY <1>16 DEF ResumePersist, Statuses
<1>13. CASE Restart
  <2>1. Bare("ended") \in CallStates
    BY BareIsACall DEF Steps
  <2>2. call' \in [Calls -> CallStates]
    BY <1>13, <2>1 DEF Restart
  <2>3. /\ token' \in [id : 0..MaxTokens, action : Actions \cup {"none"}]
        /\ launching' \in 0..MaxSessions
    BY <1>13 DEF Restart
  <2>4. ToKill \subseteq 1..MaxSessions
    <3>1. \A c \in Closes : call[c].window \in 0..MaxSessions
      BY DEF Calls, Writes, CallStates
    <3>2. \A s \in ToKill : s \in 0..MaxSessions /\ s # None
      BY <3>1 DEF ToKill
    <3> QED
      BY <3>2
  <2>5. crossed' \subseteq 1..MaxSessions
    BY <1>13, <2>4 DEF Restart
  <2> QED
    BY <1>13, <2>2, <2>3, <2>5 DEF Restart
<1> QED
  BY <1>1, <1>2, <1>3, <1>4, <1>5, <1>6, <1>7, <1>8, <1>9, <1>10, <1>11, <1>12, <1>13,
     <1>14, <1>15, <1>16, <1>17, <1>18
  DEF Next, Step

(* The flag is the receipt: only the respawn makes a copy, and it clears   *)
(* the flag in the transaction that inserts it.                            *)
LEMMA ReceiptKept ==
    FlagIsTheReceipt /\ WrapUpFits /\ [Next]_vars => FlagIsTheReceipt' /\ WrapUpFits'
<1> SUFFICES ASSUME FlagIsTheReceipt, WrapUpFits, [Next]_vars
             PROVE  FlagIsTheReceipt' /\ WrapUpFits'
  OBVIOUS
<1>1. TypeOK' /\ WrapUpFits'
  BY TypesKept, WrapUpFitsKept DEF FlagIsTheReceipt
<1>2. ASSUME NEW c \in Calls, Respawn(c) PROVE copies' > 0 => ~phoenix'
  <2>1. CASE status = "gone"
    BY <1>2, <2>1 DEF Respawn, FlagIsTheReceipt, TypeOK
  <2>2. CASE status # "gone"
    BY <1>2, <2>2 DEF Respawn
  <2> QED
    BY <2>1, <2>2
<1>3. (\E c \in Calls : Respawn(c)) \/ UNCHANGED <<copies, phoenix>>
  <2> USE DEF row, epic
  <2>1. CASE UNCHANGED vars
    BY <2>1 DEF vars
  <2>2. ASSUME NEW c \in Calls,
               Step(c) \/ BeginExit(c) \/ BeginMark(c) \/ BeginSet(c) \/ BeginDelete(c)
        PROVE  Respawn(c) \/ UNCHANGED <<copies, phoenix>>
    BY <2>2 DEF Step, BeginExit, BeginMark, BeginSet, BeginDelete, Consume, Refuse, ReadPrior,
       Patch, PatchFails, ListWatchers, ListFails, Deliver, ClearWatches, ClearFails, TestFlag,
       RespawnFails, Kill, Chain, Unpoint, Delete, DeleteFails
  <2>3. ASSUME NEW w \in Watchers, SubscribeRead(w) \/ SubscribeInsert(w) \/ Unsubscribe(w)
        PROVE  UNCHANGED <<copies, phoenix>>
    BY <2>3 DEF SubscribeRead, SubscribeInsert, Unsubscribe
  <2>4. CASE ResumeLaunch \/ ResumePersist
    BY <2>4 DEF ResumeLaunch, ResumePersist
  <2>5. CASE RebaseFails \/ IssueExitToken \/ Restart
    BY <2>5 DEF RebaseFails, IssueExitToken, Restart
  <2>6. ASSUME NEW action \in Actions, WrapUp(action) PROVE UNCHANGED <<copies, phoenix>>
    BY <2>6 DEF WrapUp
  <2> QED
    BY <2>1, <2>2, <2>3, <2>4, <2>5, <2>6 DEF Next
<1> QED
  BY <1>1, <1>2, <1>3 DEF FlagIsTheReceipt

(* Both hold of every behaviour.                                         *)
LEMMA BaseHolds == Spec => [](FlagIsTheReceipt /\ WrapUpFits)
<1>1. Init => FlagIsTheReceipt /\ WrapUpFits
  BY InitTyped DEF FlagIsTheReceipt, WrapUpFits, Init
<1> QED
  BY <1>1, ReceiptKept, PTL DEF Spec

(* So does the type invariant alone.                                     *)
LEMMA TypesHold == Spec => []TypeOK
<1>1. FlagIsTheReceipt => TypeOK
  BY DEF FlagIsTheReceipt
<1> QED
  BY <1>1, BaseHolds, PTL

(* The state is well formed, and whatever crashes or fails a task still    *)
(* flagged has no successor: re-entering Done may safely retry the respawn *)
(* (respawn_phoenix_successor).                                            *)
THEOREM ReceiptCorrect == Spec => []FlagIsTheReceipt
BY BaseHolds, PTL

-----------------------------------------------------------------------------
(* The exit token.                                                         *)

(* The map holds the token issued last, unspent and with the action it was *)
(* issued for, or none; and whoever waits for the lock presents some token.*)
LatestTokenOnly ==
    /\ token.id # None => token.id = issued /\ token.action = purpose /\ purpose # "none"
    /\ \A c \in Calls : At(c, "consume") => call[c].id # None

(* The steps that touch the token.                                         *)
LEMMA TokenSteps ==
    [Next]_vars => \/ UNCHANGED <<token, issued, purpose>>
                   \/ IssueExitToken
                   \/ token' = [id |-> None, action |-> "none"]
<1> SUFFICES ASSUME [Next]_vars
             PROVE  \/ UNCHANGED <<token, issued, purpose>>
                    \/ IssueExitToken
                    \/ token' = [id |-> None, action |-> "none"]
  OBVIOUS
<1> USE DEF tokens
<1>1. CASE UNCHANGED vars
  BY <1>1 DEF vars
<1>2. ASSUME NEW c \in Calls,
             Step(c) \/ BeginExit(c) \/ BeginMark(c) \/ BeginSet(c) \/ BeginDelete(c)
      PROVE  UNCHANGED <<token, issued, purpose>> \/ token' = [id |-> None, action |-> "none"]
  BY <1>2 DEF Step, BeginExit, BeginMark, BeginSet, BeginDelete, Consume, Refuse, ReadPrior,
     Patch, PatchFails, ListWatchers, ListFails, Deliver, ClearWatches, ClearFails, TestFlag,
     Respawn, RespawnFails, Kill, Chain, Unpoint, Delete, DeleteFails
<1>3. ASSUME NEW w \in Watchers, SubscribeRead(w) \/ SubscribeInsert(w) \/ Unsubscribe(w)
      PROVE  UNCHANGED <<token, issued, purpose>>
  BY <1>3 DEF SubscribeRead, SubscribeInsert, Unsubscribe
<1>4. CASE ResumeLaunch \/ ResumePersist \/ RebaseFails \/ Restart
  BY <1>4 DEF ResumeLaunch, ResumePersist, RebaseFails, Restart
<1>5. ASSUME NEW action \in Actions, WrapUp(action) PROVE UNCHANGED <<token, issued, purpose>>
  BY <1>5 DEF WrapUp
<1> QED
  BY <1>1, <1>2, <1>3, <1>4, <1>5 DEF Next

(* A call comes to wait for the lock by BeginExit alone, with a token.     *)
LEMMA PresentersKept ==
    ASSUME TypeOK, [Next]_vars, \A c \in Calls : At(c, "consume") => call[c].id # None
    PROVE  \A c \in Calls : At(c, "consume")' => call'[c].id # None
<1> USE DEF At
<1>1. CASE UNCHANGED call
  BY <1>1
<1>2. ASSUME NEW c \in Calls, BeginExit(c)
      PROVE  \A d \in Calls : At(d, "consume")' => call'[d].id # None
  <2>1. \A d \in Calls \ {c} : call'[d] = call[d]
    BY <1>2, CallMoves DEF Moved
  <2>2. PICK id \in 1..issued, action \in Actions :
          Set(c, [Bare("consume") EXCEPT !.window = window, !.id = id, !.action = action])
    BY <1>2 DEF BeginExit
  <2>3. Bare("consume") \in CallStates
    BY BareIsACall DEF Steps
  <2>4. call'[c].id = id
    BY <2>2, <2>3 DEF Set, TypeOK, CallStates
  <2>5. id # None
    BY DEF None, TypeOK
  <2> QED
    BY <2>1, <2>4, <2>5
<1>3. ASSUME NEW c \in Calls, BeginMark(c) \/ BeginSet(c) \/ BeginDelete(c) \/ Step(c)
      PROVE  \A d \in Calls : At(d, "consume")' => call'[d].id # None
  <2>1. call'[c].step # "consume" /\ \A d \in Calls \ {c} : call'[d] = call[d]
    BY <1>3, CallMoves, DeliveryMoves DEF Moved, Step, AfterRespawn, AfterNotices
  <2> QED
    BY <2>1
<1>4. CASE Restart
  <2>1. \A d \in Calls : ~At(d, "consume")'
    BY <1>4, BareIsACall DEF Restart, Steps
  <2> QED
    BY <2>1
<1>5. (\E c \in Calls : BeginExit(c) \/ BeginMark(c) \/ BeginSet(c) \/ BeginDelete(c) \/ Step(c))
        \/ Restart \/ UNCHANGED call
  BY DEF Next, vars, WrapUp, RebaseFails, IssueExitToken, SubscribeRead, SubscribeInsert,
     Unsubscribe, ResumeLaunch, ResumePersist
<1> QED
  BY <1>1, <1>2, <1>3, <1>4, <1>5

(* Every step keeps the map at the latest token or none.                   *)
LEMMA LatestTokenKept == TypeOK /\ LatestTokenOnly /\ [Next]_vars => LatestTokenOnly'
<1> SUFFICES ASSUME TypeOK, LatestTokenOnly, [Next]_vars PROVE LatestTokenOnly'
  OBVIOUS
<1>1. \A c \in Calls : At(c, "consume")' => call'[c].id # None
  BY PresentersKept DEF LatestTokenOnly
<1>2. CASE UNCHANGED <<token, issued, purpose>>
  BY <1>1, <1>2 DEF LatestTokenOnly
<1>3. CASE IssueExitToken
  BY <1>1, <1>3 DEF LatestTokenOnly, IssueExitToken
<1>4. CASE token' = [id |-> None, action |-> "none"]
  BY <1>1, <1>4 DEF LatestTokenOnly
<1> QED
  BY <1>2, <1>3, <1>4, TokenSteps

(* Leaving the lock with a token is Consume, and no other step.            *)
LEMMA SpendingIsConsuming ==
    ASSUME TypeOK, [Next]_vars, NEW e \in Exits, Spends(e)
    PROVE  Consume(e)
<1> USE DEF Spends, At
<1>1. e \in Calls
  BY DEF Calls, Writes, Closes
<1>2. CASE UNCHANGED call
  BY <1>2
<1>3. ASSUME NEW c \in Calls,
             BeginExit(c) \/ BeginMark(c) \/ BeginSet(c) \/ BeginDelete(c)
      PROVE  FALSE
  <2>1. call[c].step = "idle" /\ \A d \in Calls \ {c} : call'[d] = call[d]
    BY <1>3, CallMoves DEF Moved, BeginExit, BeginMark, BeginSet, BeginDelete, Begin
  <2> QED
    BY <1>1, <2>1
<1>4. ASSUME NEW c \in Calls, Step(c) PROVE Consume(e)
  <2>1. \A d \in Calls \ {c} : call'[d] = call[d]
    BY <1>4, CallMoves, DeliveryMoves DEF Moved, Step
  <2>2. c = e
    BY <1>1, <2>1
  <2>3. ~Refuse(e)
    BY <1>1, CallMoves DEF Moved
  <2> QED
    BY <1>4, <2>2, <2>3 DEF Step, ReadPrior, Patch, PatchFails, ListWatchers, ListFails, Deliver,
       ClearWatches, ClearFails, TestFlag, Respawn, RespawnFails, Kill, Chain, Unpoint, Delete,
       DeleteFails
<1>5. ASSUME Restart PROVE FALSE
  <2>1. call'[e] = Bare("ended")
    BY <1>1, <1>5 DEF Restart
  <2> QED
    BY <2>1, BareIsACall DEF Steps
<1>6. (\E c \in Calls : BeginExit(c) \/ BeginMark(c) \/ BeginSet(c) \/ BeginDelete(c) \/ Step(c))
        \/ Restart \/ UNCHANGED call
  BY DEF Next, vars, WrapUp, RebaseFails, IssueExitToken, SubscribeRead, SubscribeInsert,
     Unsubscribe, ResumeLaunch, ResumePersist
<1> QED
  BY <1>2, <1>3, <1>4, <1>5, <1>6

(* Of any number of exit_session calls, with the tokens of this and of     *)
(* earlier wrap_ups, only one that presents the latest token, unspent,     *)
(* closes the session, and with the status its wrap_up was for.            *)
THEOREM TokenClosesOnce == Spec => OneCloseForAToken
<1>1. Init => LatestTokenOnly
  BY BareIsACall DEF Init, LatestTokenOnly, At, Steps
<1>2. TypeOK /\ LatestTokenOnly /\ [Next]_vars => SpendsTheLatest
  <2> SUFFICES ASSUME TypeOK, LatestTokenOnly, [Next]_vars, NEW e \in Exits, Spends(e)
               PROVE  /\ call[e].id = issued /\ purpose # "none"
                      /\ call'[e].target = StatusFor(purpose)
    BY DEF SpendsTheLatest
  <2>1. Consume(e) /\ e \in Calls
    BY SpendingIsConsuming DEF Calls, Writes, Closes
  <2>2. token.id # None /\ call[e].id = token.id /\ call[e].action = token.action
    BY <2>1 DEF Consume, Holds, LatestTokenOnly
  <2>3. call[e].id = issued /\ purpose # "none" /\ call[e].action = purpose
    BY <2>2 DEF LatestTokenOnly
  <2>4. call'[e].target = StatusFor(call[e].action)
    <3>1. Set(e, [Bare("read") EXCEPT !.target = StatusFor(call[e].action)])
      BY <2>1 DEF Consume, Aim
    <3>2. Bare("read") \in CallStates
      BY BareIsACall DEF Steps
    <3> QED
      BY <2>1, <3>1, <3>2 DEF Set, TypeOK, CallStates
  <2> QED
    BY <2>3, <2>4
<1>3. TypeOK /\ LatestTokenOnly /\ [Next]_vars => [SpendsTheLatest]_vars
  BY <1>2
<1> QED
  BY <1>1, <1>3, TypesHold, LatestTokenKept, PTL DEF Spec, OneCloseForAToken

-----------------------------------------------------------------------------
(* No window is lost.                                                      *)

(* A close that has cleared its window from the row and not yet killed it. *)
OwesKill(c) == c \in Closes /\ (FollowingUp(c) \/ At(c, "kill"))

(* ToKill, window by window.                                               *)
LEMMA ToKillIs ==
    \A s : s \in ToKill <=> s # None /\ \E c \in Calls : OwesKill(c) /\ call[c].window = s
BY DEF ToKill, OwesKill, Calls, Writes

(* A step that leaves every such close with its window keeps ToKill.       *)
LEMMA ToKillKept ==
    ASSUME NEW c \in Calls, \A d \in Calls \ {c} : call'[d] = call[d],
           OwesKill(c) => OwesKill(c)' /\ call'[c].window = call[c].window
    PROVE  ToKill \subseteq ToKill'
<1>1. ASSUME NEW d \in Calls, OwesKill(d)
      PROVE  OwesKill(d)' /\ call'[d].window = call[d].window
  BY <1>1 DEF OwesKill, FollowingUp, At
<1>2. \A s : s \in ToKill' <=> s # None /\ \E d \in Calls : OwesKill(d)' /\ call'[d].window = s
  BY DEF ToKill, OwesKill, Calls, Writes, None
<1> QED
  BY <1>1, <1>2, ToKillIs

(* The calls that are not closes.                                          *)
Movers == Calls \ Closes

(* What the steps of a call leave in its window: a close past its write    *)
(* keeps it, a board move keeps it, drops it or takes the row's.           *)
LEMMA CallWindows ==
    ASSUME TypeOK, NEW c \in Calls
    PROVE  /\ c \in Closes /\ (\/ Patch(c) \/ ListWatchers(c) \/ ListFails(c) \/ Deliver(c)
                              \/ ClearWatches(c) \/ ClearFails(c) \/ TestFlag(c)
                              \/ Respawn(c) \/ RespawnFails(c))
              => call'[c].window = call[c].window
           /\ c \in Movers /\ (BeginSet(c) \/ BeginDelete(c) \/ Step(c))
              => call'[c].window \in {call[c].window, window, None}
<1> USE DEF TypeOK
<1>2. ASSUME NEW step, Goto(c, step) PROVE call'[c].window = call[c].window
  BY <1>2 DEF Goto, CallStates
<1>3. ListWatchers(c) \/ Deliver(c) => call'[c].window = call[c].window
  <2>1. call[c] \in CallStates
    OBVIOUS
  <2>2. CASE ListWatchers(c)
    <3> DEFINE step == IF rows # {} THEN "deliver" ELSE IF c \in Deletes THEN "clear" ELSE "flag"
               r == [call[c] EXCEPT !.list = rows, !.step = step]
    <3>1. r.window = call[c].window
      BY <2>1 DEF CallStates
    <3>2. call'[c] = r
      BY <2>2 DEF ListWatchers, Set
    <3> QED
      BY <3>1, <3>2
  <2>3. CASE Deliver(c)
    <3>1. PICK w \in call[c].list :
            Set(c, [call[c] EXCEPT !.list = @ \ {w},
                     !.step = IF call[c].list = {w} THEN "clear" ELSE "deliver"])
      BY <2>3 DEF Deliver
    <3> DEFINE r == [call[c] EXCEPT !.list = @ \ {w},
                      !.step = IF call[c].list = {w} THEN "clear" ELSE "deliver"]
    <3>2. r.window = call[c].window
      BY <2>1 DEF CallStates
    <3>3. call'[c] = r
      BY <3>1 DEF Set
    <3> QED
      BY <3>2, <3>3
  <2> QED
    BY <2>2, <2>3
<1>4. ListFails(c) \/ ClearWatches(c) \/ ClearFails(c) => call'[c].window = call[c].window
  BY <1>2 DEF ListFails, ClearWatches, ClearFails
<1>5. Patch(c) => call'[c].window = IF c \in Closes THEN call[c].window ELSE None
  BY DEF Patch, AfterPatch, Set, CallStates
<1>6. Respawn(c) \/ RespawnFails(c) => call'[c].window = IF c \in Closes THEN call[c].window ELSE None
  BY LeaveMoves DEF Respawn, RespawnFails
<1>7. TestFlag(c) => \/ call'[c].window = call[c].window
                     \/ c \notin Closes /\ call'[c].window = None
  <2>1. Bare("respawn") \in CallStates
    BY BareIsACall DEF Steps
  <2>2. Set(c, [Bare("respawn") EXCEPT !.window = call[c].window])
          => call'[c].window = call[c].window
    BY <2>1 DEF Set, CallStates
  <2> QED
    BY <2>2, LeaveMoves DEF TestFlag
<1>8. ASSUME NEW step \in Steps, Drop(c, step) PROVE call'[c].window = None
  BY <1>8, DropACall
<1>9. \/ BeginDelete(c) \/ Refuse(c) \/ PatchFails(c) \/ Kill(c) \/ Chain(c) \/ Unpoint(c) \/ Delete(c) \/ DeleteFails(c)
      => call'[c].window = None
  BY <1>8 DEF BeginDelete, Refuse, PatchFails, Kill, Chain, Unpoint, Delete, DeleteFails, Steps
<1>10. ASSUME Consume(c) PROVE call'[c].window = None
  <2>1. Bare("read") \in CallStates /\ Bare("read").window = None
    BY BareIsACall DEF Steps
  <2> QED
    BY <1>10, <2>1 DEF Consume, Aim, Set, CallStates
<1>11. ASSUME c \in Movers, ReadPrior(c) PROVE call'[c].window \in {call[c].window, None}
  <2>1. c \notin Closes
    BY <1>11 DEF Movers
  <2>2. CASE status = "gone"
    BY <1>8, <1>11, <2>2 DEF ReadPrior, Steps
  <2>3. CASE status # "gone"
    <3> DEFINE r == [call[c] EXCEPT !.step = "patch", !.status = status,
                       !.window = IF c \in Closes THEN window ELSE @]
    <3>1. call[c] \in CallStates
      BY <1>11
    <3>2. r.window = call[c].window
      BY <2>1, <3>1 DEF CallStates
    <3>3. call'[c] = r
      BY <1>11, <2>3 DEF ReadPrior, Set
    <3> QED
      BY <3>2, <3>3
  <2> QED
    BY <2>2, <2>3
<1>12. ASSUME BeginSet(c) PROVE call'[c].window \in {window, None}
  <2>1. PICK s \in {"review", "done", "archived"} :
          Set(c, [Bare("read") EXCEPT !.target = s, !.window = Persisted(s)])
    BY <1>12 DEF BeginSet
  <2>2. Bare("read") \in CallStates
    BY BareIsACall DEF Steps
  <2>3. call'[c].window = Persisted(s)
    BY <2>1, <2>2 DEF Set, CallStates
  <2> QED
    BY <2>3 DEF Persisted
<1> QED
  BY <1>3, <1>4, <1>5, <1>6, <1>7, <1>9, <1>10, <1>11, <1>12 DEF Step, Movers

(* A window launched and not yet recorded is newer than any window the row *)
(* or a board move has seen; and a window that a late board move writes    *)
(* back meanwhile is on its way to the kill, or lost already.              *)
LaunchIsNew ==
    /\ window <= sessions /\ launching <= sessions
    /\ \A c \in Movers : call[c].window <= sessions
    /\ launching # None =>
         /\ window \in {None} \cup doomed \cup ToKill \cup crossed
         /\ window # launching
         /\ \A c \in Movers : call[c].window # launching
WindowInv == NoOrphanSession /\ LaunchIsNew

(* What every step of a call but Patch, Delete, Kill, Unpoint and the      *)
(* board's begin does to the windows.                                      *)
LEMMA QuietSteps ==
    ASSUME TypeOK, NEW c \in Calls,
           \/ BeginExit(c) \/ BeginMark(c) \/ BeginDelete(c) \/ Consume(c) \/ Refuse(c)
           \/ ReadPrior(c) \/ PatchFails(c) \/ ListWatchers(c) \/ ListFails(c) \/ Deliver(c)
           \/ ClearWatches(c) \/ ClearFails(c) \/ TestFlag(c) \/ Respawn(c) \/ RespawnFails(c)
           \/ Chain(c) \/ DeleteFails(c)
    PROVE  /\ UNCHANGED <<window, sessions, launching, doomed, crossed>>
           /\ ToKill \subseteq ToKill'
           /\ \A d \in Calls \ {c} : call'[d] = call[d]
<1>1. UNCHANGED <<window, sessions, launching, doomed, crossed>>
  BY DEF BeginExit, BeginMark, BeginDelete, Consume, Refuse, ReadPrior, PatchFails, ListWatchers,
     ListFails, Deliver, ClearWatches, ClearFails, TestFlag, Respawn, RespawnFails, Chain,
     DeleteFails, row, tmux, history
<1>2. \A d \in Calls \ {c} : call'[d] = call[d]
  BY CallMoves, DeliveryMoves DEF Moved
<1>3. OwesKill(c) => OwesKill(c)' /\ call'[c].window = call[c].window
  <2>1. SUFFICES ASSUME OwesKill(c) PROVE OwesKill(c)' /\ call'[c].window = call[c].window
    OBVIOUS
  <2>2. c \in Closes /\ c \notin Deletes
    BY <2>1, CloseAssumption DEF OwesKill, Closes
  <2>3. \/ ListWatchers(c) \/ ListFails(c) \/ Deliver(c) \/ ClearWatches(c) \/ ClearFails(c)
        \/ TestFlag(c) \/ Respawn(c) \/ RespawnFails(c)
    BY <2>1 DEF OwesKill, FollowingUp, At, BeginExit, BeginMark, BeginDelete, Begin, Consume,
       Refuse, ReadPrior, PatchFails, Chain, DeleteFails
  <2>4. call'[c].step \in {"list", "deliver", "clear", "flag", "respawn", "kill"}
    BY <2>2, <2>3, CallMoves, DeliveryMoves DEF Moved, AfterRespawn, AfterNotices
  <2> QED
    BY <2>2, <2>3, <2>4, CallWindows DEF OwesKill, FollowingUp, At
<1> QED
  BY <1>1, <1>2, <1>3, ToKillKept

(* Windows that stay accounted for under a step that only adds to what     *)
(* they are accounted by.                                                  *)
LEMMA StillNew ==
    ASSUME TypeOK, LaunchIsNew, UNCHANGED <<window, sessions, launching>>,
           doomed \subseteq doomed', crossed \subseteq crossed', ToKill \subseteq ToKill',
           \A c \in Movers : call'[c].window \in {call[c].window, window, None}
    PROVE  LaunchIsNew'
<1>1. \A c \in Movers : call'[c].window <= sessions
  BY DEF LaunchIsNew, None, TypeOK
<1>2. launching # None => \A c \in Movers : call'[c].window # launching
  BY DEF LaunchIsNew
<1> QED
  BY <1>1, <1>2 DEF LaunchIsNew, None

(* A step that drops a window from the row leaves it with a close that     *)
(* will kill it, or is one of those the property names.                    *)
LEMMA WindowInvKept == TypeOK /\ WindowInv /\ [Next]_vars => WindowInv'
<1> SUFFICES ASSUME TypeOK, WindowInv, [Next]_vars PROVE WindowInv'
  OBVIOUS
<1> USE DEF WindowInv
<1>1. CASE UNCHANGED <<call, window, sessions, launching, doomed, crossed>>
  <2>1. ToKill' = ToKill
    BY <1>1 DEF ToKill, FollowingUp, At, None
  <2> QED
    BY <1>1, <2>1 DEF NoOrphanSession, LaunchIsNew, None
<1>2. ASSUME NEW c \in Calls,
             \/ BeginExit(c) \/ BeginMark(c) \/ BeginDelete(c) \/ Consume(c) \/ Refuse(c)
             \/ ReadPrior(c) \/ PatchFails(c) \/ ListWatchers(c) \/ ListFails(c) \/ Deliver(c)
             \/ ClearWatches(c) \/ ClearFails(c) \/ TestFlag(c) \/ Respawn(c) \/ RespawnFails(c)
             \/ Chain(c) \/ DeleteFails(c)
      PROVE  WindowInv'
  <2>1. /\ UNCHANGED <<window, sessions, launching, doomed, crossed>>
        /\ ToKill \subseteq ToKill'
        /\ \A d \in Calls \ {c} : call'[d] = call[d]
    BY <1>2, QuietSteps
  <2>2. \A d \in Movers : call'[d].window \in {call[d].window, window, None}
    <3>1. c \in Movers => BeginDelete(c) \/ Step(c)
      BY <1>2 DEF BeginExit, BeginMark, Movers, Closes, Step
    <3> QED
      BY <2>1, <3>1, CallWindows DEF Movers
  <2>3. LaunchIsNew'
    BY <2>1, <2>2, StillNew
  <2> QED
    BY <2>1, <2>3 DEF NoOrphanSession
<1>3. ASSUME NEW c \in Calls, BeginSet(c) PROVE WindowInv'
  <2>1. /\ UNCHANGED <<window, sessions, launching, crossed>> /\ doomed \subseteq doomed'
        /\ At(c, "idle") /\ Moved(c, "read")
    BY <1>3, CallMoves DEF BeginSet, Begin, row, history
  <2>2. ToKill \subseteq ToKill'
    <3>1. ~OwesKill(c)
      BY <2>1 DEF OwesKill, FollowingUp, At
    <3> QED
      BY <2>1, <3>1, ToKillKept DEF Moved
  <2>3. \A d \in Movers : call'[d].window \in {call[d].window, window, None}
    BY <1>3, <2>1, CallWindows DEF Moved, Movers
  <2>4. LaunchIsNew'
    BY <2>1, <2>2, <2>3, StillNew
  <2> QED
    BY <2>1, <2>2, <2>4 DEF NoOrphanSession
<1>4. ASSUME NEW c \in Calls, Patch(c) PROVE WindowInv'
  <2>1. /\ UNCHANGED <<sessions, launching, doomed>>
        /\ crossed' = crossed \cup Lost(call[c].window)
        /\ window' = IF c \in Closes THEN None ELSE call[c].window
        /\ At(c, "patch") /\ Moved(c, IF Entering(c) THEN "list" ELSE "flag")
    BY <1>4, CallMoves DEF Patch, tmux
  <2>2. ToKill \subseteq ToKill'
    <3>1. ~OwesKill(c)
      BY <2>1 DEF OwesKill, FollowingUp, At
    <3> QED
      BY <2>1, <3>1, ToKillKept DEF Moved
  <2>3. \A d \in Movers : call'[d].window \in {call[d].window, window, None}
    BY <1>4, <2>1, CallWindows DEF Moved, Movers, Step
  <2>4. window \in {None, call[c].window} \cup doomed' \cup crossed'
    BY <2>1 DEF Lost
  <2>5. CASE c \in Closes
    <3>1. call'[c].window = call[c].window /\ OwesKill(c)'
      BY <1>4, <2>1, <2>5, CallWindows DEF OwesKill, FollowingUp, Moved, At
    <3>2. call[c].window = None \/ call[c].window \in ToKill'
      BY <3>1 DEF ToKill, OwesKill, None
    <3>3. NoOrphanSession'
      BY <2>1, <2>2, <2>4, <2>5, <3>2 DEF NoOrphanSession, None, TypeOK
    <3>4. LaunchIsNew'
      <4>1. window' = None /\ None <= sessions
        BY <2>1, <2>5 DEF None, TypeOK
      <4>2. \A d \in Movers : call'[d].window <= sessions
        BY <2>3, <4>1 DEF LaunchIsNew
      <4>3. launching # None => \A d \in Movers : call'[d].window # launching
        BY <2>3 DEF LaunchIsNew
      <4> QED
        BY <2>1, <4>1, <4>2, <4>3 DEF LaunchIsNew, None
    <3> QED
      BY <3>3, <3>4
  <2>6. CASE c \notin Closes
    <3>1. window' = call[c].window
      BY <2>1, <2>6
    <3>2. NoOrphanSession'
      BY <2>1, <2>2, <2>4, <3>1 DEF NoOrphanSession, None, TypeOK
    <3>3. c \in Movers /\ call[c].window <= sessions /\ call[c].window \in 0..MaxSessions
      BY <2>6 DEF Movers, LaunchIsNew, TypeOK, CallStates
    <3>4. ASSUME launching # None
          PROVE  call[c].window \in {None} \cup doomed \cup ToKill \cup crossed
      <4>1. call[c].window # launching
        BY <3>3, <3>4 DEF LaunchIsNew
      <4>2. CASE call[c].window = None
        BY <4>2
      <4>3. CASE call[c].window # None
        <5>1. call[c].window \in 1..sessions
          BY <3>3, <4>3 DEF None, TypeOK
        <5>2. call[c].window \in {window, launching} \cup doomed \cup ToKill \cup crossed
          BY <5>1 DEF NoOrphanSession
        <5> QED
          BY <3>4, <4>1, <5>2 DEF LaunchIsNew
      <4> QED
        BY <4>2, <4>3
    <3>5. \A d \in Movers : call'[d].window <= sessions
      BY <2>3 DEF LaunchIsNew, None, TypeOK
    <3>6. launching # None => \A d \in Movers : call'[d].window # launching
      BY <2>3 DEF LaunchIsNew
    <3>7. launching # None => call[c].window # launching
      BY <3>3 DEF LaunchIsNew
    <3>8. LaunchIsNew'
      <4>1. launching <= sessions
        BY DEF LaunchIsNew
      <4> QED
        BY <2>1, <2>2, <3>1, <3>3, <3>4, <3>5, <3>6, <3>7, <4>1 DEF LaunchIsNew, None
    <3> QED
      BY <3>2, <3>8
  <2> QED
    BY <2>5, <2>6
<1>5. ASSUME NEW c \in Calls, Delete(c) PROVE WindowInv'
  <2>1. /\ window' = None /\ launching' = None /\ UNCHANGED <<sessions, doomed>>
        /\ crossed' = crossed \cup ({window, launching} \ {None})
        /\ At(c, "delete") /\ Moved(c, "ended")
    BY <1>5, CallMoves DEF Delete
  <2>2. ToKill \subseteq ToKill'
    <3>1. ~OwesKill(c)
      BY <2>1 DEF OwesKill, FollowingUp, At
    <3> QED
      BY <2>1, <3>1, ToKillKept DEF Moved
  <2>3. \A d \in Movers : call'[d].window \in {call[d].window, window, None}
    BY <1>5, <2>1, CallWindows DEF Moved, Movers, Step
  <2>4. /\ \A d \in Movers : call'[d].window <= sessions
        /\ None <= sessions
    BY <2>3 DEF LaunchIsNew, None, TypeOK
  <2> QED
    BY <2>1, <2>2, <2>4 DEF NoOrphanSession, LaunchIsNew, None, TypeOK
<1>6. ASSUME NEW c \in Calls, Kill(c) PROVE WindowInv'
  <2>1. /\ UNCHANGED <<window, sessions, launching, crossed>>
        /\ doomed' = doomed \cup ({call[c].window} \ {None})
        /\ At(c, "kill") /\ Moved(c, "chain")
    BY <1>6, CallMoves DEF Kill, row, history
  <2>2. ToKill \subseteq ToKill' \cup doomed'
    <3>1. ASSUME NEW s \in ToKill, s # call[c].window PROVE s \in ToKill'
      <4>1. PICK d \in Calls : OwesKill(d) /\ call[d].window = s
        BY ToKillIs
      <4>2. d # c /\ call'[d] = call[d] /\ s # None
        BY <2>1, <3>1, <4>1, ToKillIs DEF Moved
      <4> QED
        BY <4>1, <4>2 DEF ToKill, OwesKill, FollowingUp, At, None
    <3> QED
      BY <2>1, <3>1, ToKillIs
  <2>3. \A d \in Movers : call'[d].window \in {call[d].window, window, None}
    BY <1>6, <2>1, CallWindows DEF Moved, Movers, Step
  <2>4. /\ \A d \in Movers : call'[d].window <= sessions
        /\ launching # None => \A d \in Movers : call'[d].window # launching
    BY <2>3 DEF LaunchIsNew, None, TypeOK
  <2> QED
    BY <2>1, <2>2, <2>4 DEF NoOrphanSession, LaunchIsNew, None, TypeOK
<1>7. ASSUME NEW c \in Calls, Unpoint(c) PROVE WindowInv'
  <2>1. /\ UNCHANGED <<sessions, launching, doomed>>
        /\ \/ window' = None /\ crossed' = crossed \cup Lost(None)
           \/ UNCHANGED <<window, crossed>>
        /\ At(c, "unpoint") /\ Moved(c, "ended")
    BY <1>7, CallMoves DEF Unpoint, tmux
  <2>2. ToKill \subseteq ToKill'
    <3>1. ~OwesKill(c)
      BY <2>1 DEF OwesKill, FollowingUp, At
    <3> QED
      BY <2>1, <3>1, ToKillKept DEF Moved
  <2>3. \A d \in Movers : call'[d].window \in {call[d].window, window, None}
    BY <1>7, <2>1, CallWindows DEF Moved, Movers, Step
  <2>4. /\ \A d \in Movers : call'[d].window <= sessions
        /\ launching # None => \A d \in Movers : call'[d].window # launching
    BY <2>3 DEF LaunchIsNew, None, TypeOK
  <2>5. /\ crossed \subseteq crossed'
        /\ window' = window \/ (window' = None /\ window \in {None} \cup doomed \cup crossed')
    BY <2>1 DEF Lost
  <2> QED
    BY <2>1, <2>2, <2>4, <2>5 DEF NoOrphanSession, LaunchIsNew, None, TypeOK
<1>8. CASE ResumeLaunch
  <2>1. /\ sessions' = sessions + 1 /\ launching' = sessions + 1 /\ window = None
        /\ launching = None /\ UNCHANGED <<window, doomed, crossed, call>>
    BY <1>8 DEF ResumeLaunch, row, history
  <2>2. sessions \in Nat /\ \A d \in Movers : call[d].window \in Nat
    BY CloseAssumption DEF TypeOK, Movers, CallStates
  <2>3. \A s \in 1..sessions' : s \in 1..sessions \/ s = sessions + 1
    BY <2>1, <2>2
  <2>4. ToKill' = ToKill
    BY <2>1 DEF ToKill, FollowingUp, At, None
  <2>5. NoOrphanSession'
    BY <2>1, <2>3, <2>4 DEF NoOrphanSession, None
  <2>6. \A d \in Movers : call[d].window <= sessions + 1 /\ call[d].window # sessions + 1
    BY <2>2 DEF LaunchIsNew
  <2>7. LaunchIsNew'
    BY <2>1, <2>2, <2>4, <2>6 DEF LaunchIsNew, None
  <2> QED
    BY <2>5, <2>7
<1>9. CASE ResumePersist
  <2>1. /\ window' = launching /\ launching' = None /\ launching # None
        /\ UNCHANGED <<sessions, doomed, crossed, call>>
    BY <1>9 DEF ResumePersist, history
  <2>2. ToKill' = ToKill
    BY <2>1 DEF ToKill, FollowingUp, At, None
  <2> QED
    BY <2>1, <2>2 DEF NoOrphanSession, LaunchIsNew, None, TypeOK
<1>10. CASE Restart
  <2>1. /\ UNCHANGED <<window, sessions, doomed>> /\ launching' = None
        /\ crossed' = crossed \cup ({launching} \ {None}) \cup ToKill
    BY <1>10 DEF Restart, row
  <2>2. \A d \in Calls : call'[d] = call[d] \/ call'[d].window = None
    BY <1>10, BareIsACall DEF Restart, Steps
  <2>3. /\ \A d \in Movers : call'[d].window <= sessions
        /\ None <= sessions
    BY <2>2 DEF LaunchIsNew, None, TypeOK, Movers
  <2> QED
    BY <2>1, <2>3 DEF NoOrphanSession, LaunchIsNew, None, TypeOK
<1>11. \/ \E c \in Calls : BeginExit(c) \/ BeginMark(c) \/ BeginSet(c) \/ BeginDelete(c) \/ Step(c)
       \/ ResumeLaunch \/ ResumePersist \/ Restart
       \/ UNCHANGED <<call, window, sessions, launching, doomed, crossed>>
  BY DEF Next, vars, WrapUp, RebaseFails, IssueExitToken, SubscribeRead, SubscribeInsert,
     Unsubscribe, row, tmux, history
<1> QED
  BY <1>1, <1>2, <1>3, <1>4, <1>5, <1>6, <1>7, <1>8, <1>9, <1>10, <1>11 DEF Step

(* Every window launched is the row's, on its way there, sent to the kill, *)
(* held by a close that will send it, or one that a write cleared after    *)
(* reading another, a delete took with its row, or a restart cut short in  *)
(* its launch or before its kill (perform_close, resume).                  *)
THEOREM NoWindowLost == Spec => []NoOrphanSession
<1>1. Init => WindowInv
  <2> SUFFICES ASSUME Init PROVE WindowInv
    OBVIOUS
  <2>1. \A c \in Movers : call[c].window = None
    BY BareIsACall DEF Init, Movers, Steps
  <2> QED
    BY <2>1 DEF Init, WindowInv, NoOrphanSession, LaunchIsNew, None
<1>2. WindowInv => NoOrphanSession
  BY DEF WindowInv
<1> QED
  BY <1>1, <1>2, WindowInvKept, TypesHold, PTL DEF Spec

-----------------------------------------------------------------------------
(* The epic's chain.                                                       *)

(* The closes that have written and may still chain.                       *)
ChainSteps == {"list", "deliver", "clear", "flag", "respawn", "kill", "chain"}
Chaining == {c \in Closes : call[c].step \in ChainSteps}

(* Each subtask chained, and each close that may yet chain one, has its    *)
(* own written close; only closes reach the chain.                         *)
ChainInv ==
    /\ \A c \in Calls : call[c].step \in {"kill", "chain"} => c \in Closes
    /\ chained + Cardinality(Chaining) <= closed

(* The closes are finitely many, so those still chaining are counted.      *)
LEMMA ChainingCounted == IsFiniteSet(Chaining) /\ Cardinality(Chaining) \in Nat
<1>1. Chaining \subseteq Calls
  BY DEF Chaining, Calls, Writes
<1>2. IsFiniteSet(Chaining)
  BY <1>1, CloseAssumption, FS_Subset
<1> QED
  BY <1>2, FS_CardinalityType

(* A call that moves without writing or chaining counts no more than it    *)
(* did.                                                                    *)
LEMMA ChainInvMoved ==
    ASSUME ChainInv, TypeOK, NEW c \in Calls, NEW step, Moved(c, step),
           UNCHANGED <<chained, closed>>,
           c \in Closes /\ step \in ChainSteps => call[c].step \in ChainSteps,
           step \in {"kill", "chain"} => c \in Closes
    PROVE  ChainInv'
<1>1. Chaining' \subseteq Chaining
  BY DEF Chaining, Moved, Closes, Calls, Writes
<1>2. Cardinality(Chaining') <= Cardinality(Chaining) /\ Cardinality(Chaining') \in Nat
  BY <1>1, ChainingCounted, FS_Subset, FS_CardinalityType
<1>3. \A d \in Calls : call'[d].step \in {"kill", "chain"} => d \in Closes
  BY DEF ChainInv, At, Moved
<1> QED
  BY <1>2, <1>3, ChainingCounted DEF ChainInv, TypeOK

(* Every step keeps the account of the closes.                             *)
LEMMA ChainInvKept == TypeOK /\ ChainInv /\ [Next]_vars => ChainInv'
<1> SUFFICES ASSUME TypeOK, ChainInv, [Next]_vars PROVE ChainInv'
  OBVIOUS
<1>1. CASE UNCHANGED <<call, chained, closed>>
  BY <1>1 DEF ChainInv, Chaining, At
<1>2. ASSUME NEW c \in Calls, Patch(c) PROVE ChainInv'
  <2>1. /\ Moved(c, IF Entering(c) THEN "list" ELSE "flag")
        /\ At(c, "patch") /\ UNCHANGED chained
        /\ closed' = closed + Cardinality({c} \cap Closes)
    BY <1>2, CallMoves DEF Patch
  <2>2. call'[c].step \in ChainSteps /\ call[c].step \notin ChainSteps
        /\ call'[c].step \notin {"kill", "chain"}
    BY <2>1 DEF Moved, ChainSteps, At
  <2>3. \A d \in Calls : call'[d].step \in {"kill", "chain"} => d \in Closes
    BY <2>1, <2>2 DEF ChainInv, At, Moved
  <2>4. \A d \in Closes \ {c} : call'[d] = call[d]
    BY <2>1 DEF Moved, Calls, Writes
  <2>5. CASE c \in Closes
    <3>1. Chaining' = Chaining \cup {c} /\ c \notin Chaining
      BY <2>2, <2>4, <2>5 DEF Chaining
    <3>2. Cardinality(Chaining') = Cardinality(Chaining) + 1
      BY <3>1, ChainingCounted, FS_AddElement
    <3>3. {c} \cap Closes = {c}
      BY <2>5
    <3>4. closed' = closed + 1
      BY <2>1, <3>3, FS_Singleton
    <3> QED
      BY <2>1, <2>3, <3>2, <3>4, ChainingCounted DEF ChainInv, TypeOK
  <2>6. CASE c \notin Closes
    <3>1. Chaining' = Chaining
      BY <2>4, <2>6 DEF Chaining
    <3>2. {c} \cap Closes = {}
      BY <2>6
    <3>4. Cardinality({c} \cap Closes) = 0
      BY <3>2, FS_EmptySet
    <3>3. closed' = closed
      BY <2>1, <3>4 DEF TypeOK
    <3> QED
      BY <2>1, <2>3, <3>1, <3>3 DEF ChainInv
  <2> QED
    BY <2>5, <2>6
<1>3. ASSUME NEW c \in Calls, Chain(c) PROVE ChainInv'
  <2>1. Moved(c, "ended") /\ At(c, "chain") /\ UNCHANGED closed
    BY <1>3, CallMoves DEF Chain
  <2>2. chained' = chained \/ chained' = chained + 1
    <3>1. chained' = chained + (IF chained < Siblings THEN 1 ELSE 0)
      BY <1>3 DEF Chain
    <3>2. CASE chained < Siblings
      BY <3>1, <3>2
    <3>3. CASE ~(chained < Siblings)
      BY <3>1, <3>3 DEF TypeOK
    <3> QED
      BY <3>2, <3>3
  <2>3. c \in Closes
    BY <2>1 DEF ChainInv, At
  <2>4. Chaining' = Chaining \ {c} /\ c \in Chaining
    BY <2>1, <2>3 DEF Chaining, Moved, ChainSteps, At, Calls, Writes
  <2>5. Cardinality(Chaining') = Cardinality(Chaining) - 1
    BY <2>4, ChainingCounted, FS_RemoveElement
  <2>6. \A d \in Calls : call'[d].step \in {"kill", "chain"} => d \in Closes
    BY <2>1 DEF ChainInv, At, Moved
  <2> QED
    BY <2>1, <2>2, <2>5, <2>6, ChainingCounted DEF ChainInv, TypeOK
<1>4. ASSUME NEW c \in Calls,
             BeginExit(c) \/ BeginMark(c) \/ BeginSet(c) \/ BeginDelete(c)
      PROVE  ChainInv'
  <2>1. c \in Closes => ~BeginDelete(c)
    BY CloseAssumption DEF BeginDelete, Closes
  <2>2. UNCHANGED <<chained, closed>>
    BY <1>4 DEF BeginExit, BeginMark, BeginSet, BeginDelete, epic
  <2> QED
    BY <1>4, <2>1, <2>2, CallMoves, ChainInvMoved DEF ChainSteps
<1>5. ASSUME NEW c \in Calls, Consume(c) \/ Refuse(c) \/ ReadPrior(c) \/ PatchFails(c)
                              \/ Unpoint(c) \/ Delete(c) \/ DeleteFails(c)
      PROVE  ChainInv'
  <2>1. UNCHANGED <<chained, closed>>
    BY <1>5 DEF Consume, Refuse, ReadPrior, PatchFails, Unpoint, Delete, DeleteFails, epic
  <2> QED
    BY <1>5, <2>1, CallMoves, ChainInvMoved DEF ChainSteps
<1>6. ASSUME NEW c \in Calls, ListWatchers(c) \/ ListFails(c) \/ ClearWatches(c) \/ ClearFails(c)
                              \/ TestFlag(c) \/ Respawn(c) \/ RespawnFails(c)
      PROVE  ChainInv'
  <2>1. UNCHANGED <<chained, closed>> /\ call[c].step \in ChainSteps
    BY <1>6 DEF ListWatchers, ListFails, ClearWatches, ClearFails, TestFlag, Respawn, RespawnFails,
       epic, At, ChainSteps
  <2>2. AfterRespawn(c) \in {"kill", "chain"} => c \in Closes
    BY DEF AfterRespawn
  <2>3. AfterNotices(c) \notin {"kill", "chain"}
    BY DEF AfterNotices
  <2>4. PICK step : Moved(c, step) /\ (step \in {"kill", "chain"} => c \in Closes)
    BY <1>6, <2>2, <2>3, CallMoves
  <2> QED
    BY <2>1, <2>4, ChainInvMoved
<1>10. ASSUME NEW c \in Calls, Kill(c) PROVE ChainInv'
  <2>1. Moved(c, "chain") /\ At(c, "kill") /\ UNCHANGED <<chained, closed>>
    BY <1>10, CallMoves DEF Kill, epic
  <2>2. c \in Closes /\ call[c].step \in ChainSteps
    BY <2>1 DEF ChainInv, At, ChainSteps
  <2> QED
    BY <2>1, <2>2, ChainInvMoved
<1>7. ASSUME NEW c \in Calls, Deliver(c) PROVE ChainInv'
  <2>1. UNCHANGED <<chained, closed>> /\ call[c].step \in ChainSteps
    BY <1>7 DEF Deliver, epic, At, ChainSteps
  <2>2. Moved(c, "clear") \/ Moved(c, "deliver")
    BY <1>7, DeliveryMoves
  <2> QED
    BY <2>1, <2>2, ChainInvMoved
<1>8. CASE Restart
  <2>1. \A c \in Calls : call'[c] = call[c] \/ call'[c] = Bare("ended")
    BY <1>8 DEF Restart
  <2>2. Bare("ended").step = "ended"
    BY BareIsACall DEF Steps
  <2>3. Chaining' \subseteq Chaining /\ UNCHANGED <<chained, closed>>
    BY <1>8, <2>1, <2>2 DEF Chaining, ChainSteps, Restart, epic, Calls, Writes
  <2>4. Cardinality(Chaining') <= Cardinality(Chaining) /\ Cardinality(Chaining') \in Nat
    BY <2>3, ChainingCounted, FS_Subset, FS_CardinalityType
  <2>5. \A d \in Calls : call'[d].step \in {"kill", "chain"} => d \in Closes
    BY <2>1, <2>2 DEF ChainInv, At
  <2> QED
    BY <2>3, <2>4, <2>5, ChainingCounted DEF ChainInv, TypeOK
<1>9. \/ \E c \in Calls : BeginExit(c) \/ BeginMark(c) \/ BeginSet(c) \/ BeginDelete(c) \/ Step(c)
      \/ Restart \/ UNCHANGED <<call, chained, closed>>
  BY DEF Next, vars, WrapUp, RebaseFails, IssueExitToken, SubscribeRead, SubscribeInsert,
     Unsubscribe, ResumeLaunch, ResumePersist, epic
<1> QED
  BY <1>1, <1>2, <1>3, <1>4, <1>5, <1>6, <1>7, <1>8, <1>9, <1>10 DEF Step

(* No more subtasks are chained than closes were written, whatever fails   *)
(* or crashes between the write and the chain (auto_dispatch_next).        *)
THEOREM ChainsFollowCloses == Spec => []ChainFollowsAClose
<1>1. Init => ChainInv
  <2> SUFFICES ASSUME Init PROVE ChainInv
    OBVIOUS
  <2>1. \A c \in Calls : call[c].step = "idle"
    BY BareIsACall DEF Init, Steps
  <2>2. Chaining = {}
    BY <2>1 DEF Chaining, ChainSteps, Calls, Writes
  <2>3. Cardinality(Chaining) = 0
    BY <2>2, FS_EmptySet
  <2> QED
    BY <2>1, <2>3 DEF ChainInv, Init, At
<1>2. TypeOK /\ ChainInv => ChainFollowsAClose
  BY ChainingCounted DEF ChainInv, ChainFollowsAClose, TypeOK
<1> QED
  BY <1>1, <1>2, ChainInvKept, TypesHold, PTL DEF Spec

-----------------------------------------------------------------------------
(* Follow-ups that do not overlap.                                         *)

FollowUpSteps == {"list", "deliver", "clear", "flag", "respawn"}

(* As long as no two follow-ups have overlapped, one call at most is       *)
(* following up.                                                           *)
OneFollower ==
    ~overlap => \A c, d \in Calls : FollowingUp(c) /\ FollowingUp(d) => c = d

(* A write or a delete that does not overlap finds no one following up.    *)
LEMMA NewFollower ==
    ASSUME TypeOK, NEW c \in Calls, NEW step, Moved(c, step), ~FollowingUp(c),
           overlap' = (overlap \/ \E d \in Calls \ {c} : FollowingUp(d))
    PROVE  /\ OneFollower'
           /\ ~overlap' => ~overlap /\ \A d \in Calls : ~FollowingUp(d)
           /\ ~overlap' => \A d \in Calls \ {c} : ~FollowingUp(d)'
BY DEF OneFollower, Moved, FollowingUp

(* The steps of the calls, as far as follow-ups go: a call becomes a       *)
(* follower by writing or by beginning a delete, both of which look for    *)
(* another one; every other step only leaves or carries on.                *)
LEMMA FollowerSteps ==
    ASSUME TypeOK, [Next]_vars
    PROVE  \/ UNCHANGED <<call, overlap>>
           \/ Restart
           \/ \E c \in Calls : Patch(c) \/ BeginDelete(c)
           \/ \E c \in Calls, step \in Steps :
                /\ Moved(c, step) /\ UNCHANGED overlap
                /\ step \in FollowUpSteps => FollowingUp(c)
<1>1. ASSUME NEW c \in Calls,
             \/ BeginExit(c) \/ BeginMark(c) \/ BeginSet(c) \/ Consume(c) \/ Refuse(c)
             \/ ReadPrior(c) \/ PatchFails(c) \/ Kill(c) \/ Chain(c) \/ Unpoint(c) \/ Delete(c)
             \/ DeleteFails(c)
      PROVE  \E step \in Steps \ FollowUpSteps : Moved(c, step) /\ UNCHANGED overlap
  <2>1. UNCHANGED overlap
    BY <1>1 DEF BeginExit, BeginMark, BeginSet, Consume, Refuse, ReadPrior, PatchFails, Kill,
       Chain, Unpoint, Delete, DeleteFails, history
  <2>2. /\ "chain" \in Steps \ FollowUpSteps /\ "consume" \in Steps \ FollowUpSteps /\ "read" \in Steps \ FollowUpSteps
        /\ "patch" \in Steps \ FollowUpSteps /\ "ended" \in Steps \ FollowUpSteps
    BY DEF Steps, FollowUpSteps
  <2> QED
    BY <1>1, <2>1, <2>2, CallMoves
<1>2. ASSUME NEW c \in Calls,
             \/ ListWatchers(c) \/ ListFails(c) \/ ClearWatches(c) \/ ClearFails(c)
             \/ TestFlag(c) \/ Respawn(c) \/ RespawnFails(c)
      PROVE  FollowingUp(c) /\ \E step \in Steps : Moved(c, step) /\ UNCHANGED overlap
  <2>1. UNCHANGED overlap /\ FollowingUp(c)
    BY <1>2 DEF ListWatchers, ListFails, ClearWatches, ClearFails, TestFlag, Respawn,
       RespawnFails, history, At, FollowingUp
  <2>2. /\ AfterRespawn(c) \in Steps /\ AfterNotices(c) \in Steps /\ "respawn" \in Steps
        /\ "deliver" \in Steps /\ "clear" \in Steps /\ "flag" \in Steps
    BY DEF Steps, AfterRespawn, AfterNotices
  <2> QED
    BY <1>2, <2>1, <2>2, CallMoves
<1>3. ASSUME NEW c \in Calls, Deliver(c)
      PROVE  FollowingUp(c) /\ \E step \in Steps : Moved(c, step) /\ UNCHANGED overlap
  <2>1. UNCHANGED overlap /\ FollowingUp(c)
    BY <1>3 DEF Deliver, history, At, FollowingUp
  <2>2. Moved(c, "clear") \/ Moved(c, "deliver")
    BY <1>3, DeliveryMoves
  <2> QED
    BY <2>1, <2>2 DEF Steps
<1>4. \/ \E c \in Calls : BeginExit(c) \/ BeginMark(c) \/ BeginSet(c) \/ BeginDelete(c) \/ Step(c)
      \/ Restart \/ UNCHANGED <<call, overlap>>
  BY DEF Next, vars, WrapUp, RebaseFails, IssueExitToken, SubscribeRead, SubscribeInsert,
     Unsubscribe, ResumeLaunch, ResumePersist, history
<1> QED
  BY <1>1, <1>2, <1>3, <1>4 DEF Step

(* Every step keeps the followers to one.                                  *)
LEMMA OneFollowerKept == TypeOK /\ OneFollower /\ [Next]_vars => OneFollower'
<1> SUFFICES ASSUME TypeOK, OneFollower, [Next]_vars PROVE OneFollower'
  OBVIOUS
<1>1. CASE UNCHANGED <<call, overlap>>
  BY <1>1 DEF OneFollower, FollowingUp
<1>2. CASE Restart
  <2>1. \A c \in Calls : ~FollowingUp(c)'
    BY <1>2, BareIsACall DEF Restart, FollowingUp, At, Steps
  <2> QED
    BY <2>1 DEF OneFollower
<1>3. ASSUME NEW c \in Calls, Patch(c) \/ BeginDelete(c) PROVE OneFollower'
  <2>1. \E step : Moved(c, step)
    BY <1>3, CallMoves
  <2>2. ~FollowingUp(c)
    BY <1>3 DEF Patch, BeginDelete, Begin, At, FollowingUp
  <2>3. overlap' = (overlap \/ \E d \in Calls \ {c} : FollowingUp(d))
    BY <1>3 DEF Patch, BeginDelete
  <2> QED
    BY <2>1, <2>2, <2>3, NewFollower
<1>4. ASSUME NEW c \in Calls, NEW step \in Steps, Moved(c, step), UNCHANGED overlap,
             step \in FollowUpSteps => FollowingUp(c)
      PROVE  OneFollower'
  BY <1>4 DEF OneFollower, Moved, FollowingUp, FollowUpSteps
<1> QED
  BY <1>1, <1>2, <1>3, <1>4, FollowerSteps

(* Without overlap one handler at most follows up.                       *)
LEMMA OneFollowerHolds == Spec => [](TypeOK /\ OneFollower)
<1>1. Init => OneFollower
  BY BareIsACall DEF Init, OneFollower, FollowingUp, Steps
<1> QED
  BY <1>1, OneFollowerKept, TypesHold, PTL DEF Spec

-----------------------------------------------------------------------------
(* The successor.                                                          *)

(* The follower that is about to respawn found the flag, so no successor   *)
(* exists; after its respawn no other call stands where it stood.          *)
SuccessorInv ==
    ~overlap => copies <= 1 /\ \A c \in Calls : At(c, "respawn") => copies = 0

(* Every step keeps the successors of calls that do not overlap to one.    *)
LEMMA SuccessorInvKept ==
    FlagIsTheReceipt /\ OneFollower /\ SuccessorInv /\ [Next]_vars => SuccessorInv'
<1> SUFFICES ASSUME FlagIsTheReceipt, OneFollower, SuccessorInv, [Next]_vars
             PROVE  SuccessorInv'
  OBVIOUS
<1> USE DEF FlagIsTheReceipt
<1>1. CASE UNCHANGED <<call, copies, overlap>>
  BY <1>1 DEF SuccessorInv, At
<1>2. CASE Restart
  <2>1. \A c \in Calls : ~At(c, "respawn")'
    BY <1>2, BareIsACall DEF Restart, At, Steps
  <2> QED
    BY <1>2, <2>1 DEF SuccessorInv, Restart, epic
<1>3. ASSUME NEW c \in Calls, Patch(c) \/ BeginDelete(c) PROVE SuccessorInv'
  <2>1. /\ ~At(c, "respawn")'
        /\ \A d \in Calls \ {c} : call'[d] = call[d]
    BY <1>3, CallMoves DEF Moved, At
  <2>2. UNCHANGED copies /\ (~overlap' => ~overlap)
    BY <1>3 DEF Patch, BeginDelete, epic
  <2> QED
    BY <2>1, <2>2 DEF SuccessorInv, At
<1>4. ASSUME NEW c \in Calls, Respawn(c) PROVE SuccessorInv'
  <2>1. SUFFICES ASSUME ~overlap
                 PROVE  copies' <= 1 /\ \A d \in Calls : ~At(d, "respawn")'
    BY <1>4, <2>1 DEF SuccessorInv, Respawn, history
  <2>2. copies = 0
    BY <1>4, <2>1 DEF SuccessorInv, Respawn
  <2>3. copies' = copies + (IF status = "gone" THEN 0 ELSE 1)
    BY <1>4 DEF Respawn
  <2>4. copies' <= 1
    BY <2>2, <2>3
  <2>5. ~At(c, "respawn")' /\ \A d \in Calls \ {c} : call'[d] = call[d]
    BY <1>4, CallMoves DEF Moved, At, AfterRespawn
  <2>6. \A d \in Calls \ {c} : ~At(d, "respawn")
    BY <1>4, <2>1 DEF OneFollower, FollowingUp, Respawn, At
  <2> QED
    BY <2>4, <2>5, <2>6 DEF At
<1>5. ASSUME NEW c \in Calls, TestFlag(c) PROVE SuccessorInv'
  <2>1. /\ \A d \in Calls \ {c} : call'[d] = call[d]
        /\ ~At(c, "respawn")' \/ phoenix
    BY <1>5, CallMoves DEF Moved, At, AfterRespawn
  <2>2. phoenix => copies = 0
    BY DEF TypeOK
  <2>3. UNCHANGED <<copies, overlap>>
    BY <1>5 DEF TestFlag, epic, history
  <2> QED
    BY <2>1, <2>2, <2>3 DEF SuccessorInv, At
<1>6. ASSUME NEW c \in Calls, \/ BeginExit(c) \/ BeginMark(c) \/ BeginSet(c) \/ Consume(c)
                              \/ Refuse(c) \/ ReadPrior(c) \/ PatchFails(c) \/ ListWatchers(c)
                              \/ ListFails(c) \/ ClearWatches(c) \/ ClearFails(c)
                              \/ RespawnFails(c) \/ Kill(c) \/ Chain(c) \/ Unpoint(c)
                              \/ Delete(c) \/ DeleteFails(c) \/ Deliver(c)
      PROVE  SuccessorInv'
  <2>1. ~At(c, "respawn")' /\ \A d \in Calls \ {c} : call'[d] = call[d]
    BY <1>6, CallMoves, DeliveryMoves DEF Moved, At, AfterRespawn, AfterNotices
  <2>2. UNCHANGED <<copies, overlap>>
    BY <1>6 DEF BeginExit, BeginMark, BeginSet, Consume, Refuse, ReadPrior, PatchFails,
       ListWatchers, ListFails, ClearWatches, ClearFails, RespawnFails, Kill, Chain, Unpoint,
       Delete, DeleteFails, Deliver, epic, history
  <2> QED
    BY <2>1, <2>2 DEF SuccessorInv, At
<1>7. \/ \E c \in Calls : BeginExit(c) \/ BeginMark(c) \/ BeginSet(c) \/ BeginDelete(c) \/ Step(c)
      \/ Restart \/ UNCHANGED <<call, copies, overlap>>
  BY DEF Next, vars, WrapUp, RebaseFails, IssueExitToken, SubscribeRead, SubscribeInsert,
     Unsubscribe, ResumeLaunch, ResumePersist, history, epic
<1> QED
  BY <1>1, <1>2, <1>3, <1>4, <1>5, <1>6, <1>7 DEF Step

(* Two successors of a phoenix task need two calls whose follow-ups        *)
(* overlap (respawn_phoenix, respawn_phoenix_successor).                   *)
THEOREM TwoSuccessorsNeedOverlap == Spec => []OneSuccessorUnlessOverlapped
<1>1. Init => SuccessorInv
  BY DEF Init, SuccessorInv
<1>2. SuccessorInv => OneSuccessorUnlessOverlapped
  BY DEF SuccessorInv, OneSuccessorUnlessOverlapped
<1> QED
  BY <1>1, <1>2, SuccessorInvKept, OneFollowerHolds, ReceiptCorrect, PTL DEF Spec

-----------------------------------------------------------------------------
(* The watchers.                                                           *)

(* A row or an owed notice stands for a subscription made, a subscription  *)
(* in flight for one not yet made.                                         *)
Subscribed ==
    /\ \A w \in subscribing : asked[w] = 0
    /\ \A w \in rows \cup owed : asked[w] > 0

(* How often a watcher may have been addressed by now.                     *)
Due(w) == asked[w] + kept[w]

Noticing == \E c \in Calls : call[c].step \in {"list", "deliver", "clear"}

(* What holds of the rows and of the one call that delivers to them while  *)
(* no follow-ups overlap and no restart has cut one short: who was told    *)
(* keeps a row only until the rows are cleared, or not cleared, and at the *)
(* clearing whoever was owed a notice has had it, or could not be listed.  *)
Served ==
    /\ \A w \in Watchers : told[w] <= Due(w)
    /\ \A w \in owed : w \in rows \/ told[w] > 0 \/ w \in missed
    /\ \A w \in rows : told[w] < Due(w) \/ \E c \in Calls : call[c].step \in {"deliver", "clear"}
    /\ \A c \in Calls : At(c, "deliver") =>
         /\ \A w \in call[c].list : told[w] < Due(w)
         /\ \A w \in owed \cap rows : w \in call[c].list \/ told[w] > 0 \/ w \in missed
    /\ \A c \in Calls : At(c, "clear") => \A w \in owed \cap rows : told[w] > 0 \/ w \in missed
    /\ ~Noticing => \A w \in owed \cap rows : w \in missed \/ (told[w] > 0 /\ kept[w] > 0)

WatchInv == Subscribed /\ (~overlap /\ ~crashed => Served)

(* A call that takes no part in the notices, before or after its step.     *)
LEMMA NoticesUntouched ==
    ASSUME WatchInv, TypeOK, NEW c \in Calls, NEW step, Moved(c, step),
           UNCHANGED <<watches, owed, overlap, crashed>>,
           step \notin {"list", "deliver", "clear"},
           call[c].step \notin {"list", "deliver", "clear"}
    PROVE  WatchInv'
<1>1. /\ \A d \in Calls : At(d, "deliver")' <=> At(d, "deliver")
      /\ \A d \in Calls : At(d, "clear")' <=> At(d, "clear")
      /\ \A d \in Calls : At(d, "deliver") => call'[d] = call[d]
      /\ Noticing' <=> Noticing
      /\ (\E d \in Calls : call'[d].step \in {"deliver", "clear"})
           <=> (\E d \in Calls : call[d].step \in {"deliver", "clear"})
  BY DEF Moved, At, Noticing
<1> QED
  BY <1>1 DEF WatchInv, Subscribed, Served, Due, watches, At

(* Every step keeps what the watchers are promised.                        *)
LEMMA WatchInvKept ==
    TypeOK /\ OneFollower /\ WatchInv /\ [Next]_vars => WatchInv'
<1> SUFFICES ASSUME TypeOK, OneFollower, WatchInv, [Next]_vars PROVE WatchInv'
  OBVIOUS
<1>1. CASE UNCHANGED <<call, watches, owed, overlap, crashed>>
  BY <1>1 DEF WatchInv, Subscribed, Served, Due, Noticing, watches, At
<1>2. ASSUME NEW c \in Calls, \/ BeginExit(c) \/ BeginMark(c) \/ BeginSet(c) \/ Consume(c)
                              \/ Refuse(c) \/ ReadPrior(c) \/ PatchFails(c) \/ TestFlag(c)
                              \/ Respawn(c) \/ RespawnFails(c) \/ Kill(c) \/ Chain(c)
                              \/ Unpoint(c) \/ DeleteFails(c)
      PROVE  WatchInv'
  <2>1. \E step : Moved(c, step) /\ step \notin {"list", "deliver", "clear"}
    BY <1>2, CallMoves DEF AfterRespawn
  <2>2. /\ UNCHANGED <<watches, owed, overlap, crashed>>
        /\ call[c].step \notin {"list", "deliver", "clear"}
    BY <1>2 DEF BeginExit, BeginMark, BeginSet, Consume, Refuse, ReadPrior, PatchFails, TestFlag,
       Respawn, RespawnFails, Kill, Chain, Unpoint, DeleteFails, history, At, Begin
  <2> QED
    BY <2>1, <2>2, NoticesUntouched
<1>3. ASSUME NEW c \in Calls, Delete(c) PROVE WatchInv'
  BY <1>3, CallMoves, NoticesUntouched DEF Delete, At
<1>4. ASSUME NEW c \in Calls, Patch(c) PROVE WatchInv'
  <2>1. /\ Moved(c, IF Entering(c) THEN "list" ELSE "flag")
        /\ UNCHANGED <<rows, subscribing, asked, told, missed, kept, crashed>>
        /\ owed' = owed \cup (IF Entering(c) THEN rows ELSE {})
        /\ overlap' = (overlap \/ \E d \in Calls \ {c} : FollowingUp(d))
        /\ At(c, "patch")
    BY <1>4, CallMoves DEF Patch, watches
  <2>2. Subscribed'
    BY <2>1 DEF WatchInv, Subscribed
  <2>3. SUFFICES ASSUME ~overlap', ~crashed' PROVE Served'
    BY <2>2, <2>3 DEF WatchInv
  <2>4. ~overlap /\ ~crashed /\ \A d \in Calls : ~FollowingUp(d)
    BY <2>1, <2>3 DEF At, FollowingUp
  <2>5. /\ Served /\ ~Noticing /\ \A w \in rows : told[w] < Due(w)
        /\ \A w \in owed \cap rows : w \in missed \/ (told[w] > 0 /\ kept[w] > 0)
    BY <2>4 DEF WatchInv, Served, Noticing, FollowingUp
  <2>6. \A d \in Calls : call'[d].step \notin {"deliver", "clear"}
    BY <2>1, <2>4 DEF Moved, FollowingUp
  <2>7. ~Noticing' => \A w \in owed' \cap rows' :
                         w \in missed' \/ (told'[w] > 0 /\ kept'[w] > 0)
    <3>1. CASE Entering(c)
      BY <2>1, <3>1 DEF Moved, Noticing
    <3>2. CASE ~Entering(c)
      BY <2>1, <2>5, <3>2
    <3> QED
      BY <3>1, <3>2
  <2>8. \A w \in owed' : w \in rows' \/ told'[w] > 0 \/ w \in missed'
    BY <2>1, <2>5 DEF Served
  <2> QED
    BY <2>1, <2>5, <2>6, <2>7, <2>8 DEF Served, Due, At
<1>5. ASSUME NEW c \in Calls, BeginDelete(c) PROVE WatchInv'
  <2>1. /\ Moved(c, IF status \in Finished THEN "clear" ELSE "list")
        /\ UNCHANGED <<rows, subscribing, asked, told, missed, kept, crashed>>
        /\ owed' = owed \cup (IF status \in Finished THEN {} ELSE rows)
        /\ overlap' = (overlap \/ \E d \in Calls \ {c} : FollowingUp(d))
        /\ At(c, "idle")
    BY <1>5, CallMoves DEF BeginDelete, watches, Begin
  <2>2. Subscribed'
    BY <2>1 DEF WatchInv, Subscribed
  <2>3. SUFFICES ASSUME ~overlap', ~crashed' PROVE Served'
    BY <2>2, <2>3 DEF WatchInv
  <2>4. ~overlap /\ ~crashed /\ \A d \in Calls : ~FollowingUp(d)
    BY <2>1, <2>3 DEF At, FollowingUp
  <2>5. /\ Served /\ ~Noticing /\ \A w \in rows : told[w] < Due(w)
        /\ \A w \in owed \cap rows : w \in missed \/ (told[w] > 0 /\ kept[w] > 0)
    BY <2>4 DEF WatchInv, Served, Noticing, FollowingUp
  <2>6. \A d \in Calls : call'[d].step # "deliver"
    BY <2>1, <2>4 DEF Moved, FollowingUp
  <2>7. \A d \in Calls : call'[d].step = "clear" =>
           \A w \in owed' \cap rows' : told'[w] > 0 \/ w \in missed'
    BY <2>1, <2>4, <2>5 DEF Moved, FollowingUp
  <2>8. Noticing'
    BY <2>1 DEF Moved, Noticing
  <2>9. \A w \in owed' : w \in rows' \/ told'[w] > 0 \/ w \in missed'
    BY <2>1, <2>5 DEF Served
  <2> QED
    BY <2>1, <2>5, <2>6, <2>7, <2>8, <2>9 DEF Served, Due, At
<1>6. ASSUME NEW c \in Calls, ListWatchers(c) PROVE WatchInv'
  <2>1. /\ call'[c].list = rows
        /\ Moved(c, IF rows # {} THEN "deliver" ELSE IF c \in Deletes THEN "clear" ELSE "flag")
        /\ UNCHANGED <<rows, subscribing, asked, told, missed, kept, owed, overlap, crashed>>
        /\ At(c, "list")
    BY <1>6, CallMoves DEF ListWatchers, watches, history
  <2>2. Subscribed'
    BY <2>1 DEF WatchInv, Subscribed
  <2>3. SUFFICES ASSUME ~overlap, ~crashed PROVE Served'
    BY <2>1, <2>2, <2>3 DEF WatchInv
  <2>4. \A d \in Calls \ {c} : ~FollowingUp(d)
    BY <2>1, <2>3 DEF OneFollower, FollowingUp, At
  <2>5. Served /\ \A w \in rows : told[w] < Due(w)
    BY <2>1, <2>3, <2>4 DEF WatchInv, Served, FollowingUp, At
  <2>6. \A d \in Calls : call'[d].step = "deliver" => d = c
    BY <2>1, <2>4 DEF Moved, FollowingUp
  <2>7. \A d \in Calls : call'[d].step = "clear" => rows = {}
    BY <2>1, <2>4 DEF Moved, FollowingUp
  <2>8. ~Noticing' => rows = {}
    BY <2>1 DEF Moved, Noticing
  <2> QED
    BY <2>1, <2>5, <2>6, <2>7, <2>8 DEF Served, Due, At
<1>14. ASSUME NEW c \in Calls, ListFails(c) PROVE WatchInv'
  <2>1. /\ Moved(c, IF c \in Deletes THEN "clear" ELSE "flag")
        /\ missed' = missed \cup rows
        /\ UNCHANGED <<rows, subscribing, asked, told, kept, owed, overlap, crashed>>
        /\ At(c, "list")
    BY <1>14, CallMoves DEF ListFails, history
  <2>2. Subscribed'
    BY <2>1 DEF WatchInv, Subscribed
  <2>3. SUFFICES ASSUME ~overlap, ~crashed PROVE Served'
    BY <2>1, <2>2, <2>3 DEF WatchInv
  <2>4. \A d \in Calls \ {c} : ~FollowingUp(d)
    BY <2>1, <2>3 DEF OneFollower, FollowingUp, At
  <2>5. Served /\ \A w \in rows : told[w] < Due(w)
    BY <2>1, <2>3, <2>4 DEF WatchInv, Served, FollowingUp, At
  <2>6. \A d \in Calls : call'[d].step # "deliver"
    BY <2>1, <2>4 DEF Moved, FollowingUp
  <2> QED
    BY <2>1, <2>5, <2>6 DEF Served, Due, At
<1>7. ASSUME NEW c \in Calls, Deliver(c) PROVE WatchInv'
  <2>1. /\ UNCHANGED <<rows, subscribing, asked, kept, owed, overlap, crashed>>
        /\ At(c, "deliver")
    BY <1>7 DEF Deliver, history
  <2>2. PICK w \in call[c].list :
          /\ told' = [told EXCEPT ![w] = @ + 1] /\ missed' = missed \ {w}
          /\ call'[c].list = call[c].list \ {w}
          /\ Moved(c, IF call[c].list = {w} THEN "clear" ELSE "deliver")
    BY <1>7, DeliveryMoves
  <2>3. Subscribed'
    BY <2>1 DEF WatchInv, Subscribed
  <2>4. SUFFICES ASSUME ~overlap, ~crashed PROVE Served'
    BY <2>1, <2>3, <2>4 DEF WatchInv
  <2>5. \A d \in Calls \ {c} : ~FollowingUp(d)
    BY <2>1, <2>4 DEF OneFollower, FollowingUp, At
  <2>6. Served
    BY <2>4 DEF WatchInv
  <2>7. w \in Watchers /\ told[w] < Due(w) /\ told[w] \in Nat /\ \A v \in Watchers : Due(v) \in Nat
    BY <2>1, <2>2, <2>6 DEF Served, TypeOK, CallStates, Due
  <2>17. \A v \in Watchers : Due(v)' = Due(v)
    BY <2>1 DEF Due
  <2>8. /\ told'[w] = told[w] + 1 /\ told'[w] > 0 /\ \A v \in Watchers \ {w} : told'[v] = told[v]
        /\ told' \in [Watchers -> Nat]
    BY <2>2, <2>7 DEF TypeOK
  <2>9. \A v \in Watchers : told'[v] <= Due(v)'
    BY <2>6, <2>7, <2>8, <2>17 DEF Served, TypeOK
  <2>10. owed \subseteq Watchers /\ rows \subseteq Watchers /\ call[c].list \subseteq Watchers
    BY DEF TypeOK, CallStates
  <2>11. \A v \in owed' : v \in rows' \/ told'[v] > 0 \/ v \in missed'
    BY <2>1, <2>2, <2>6, <2>8, <2>10 DEF Served, TypeOK
  <2>12. call'[c].step \in {"deliver", "clear"}
    BY <2>2 DEF Moved
  <2>13. \A d \in Calls : call'[d].step \in {"deliver", "clear"} => d = c
    BY <2>2, <2>5 DEF Moved, FollowingUp
  <2>14. call'[c].step = "deliver" =>
           /\ \A v \in call'[c].list : told'[v] < Due(v)'
           /\ \A v \in owed' \cap rows' :
                v \in call'[c].list \/ told'[v] > 0 \/ v \in missed'
    BY <2>1, <2>2, <2>6, <2>8, <2>10, <2>17 DEF Served
  <2>15. call'[c].step = "clear" =>
           \A v \in owed' \cap rows' : told'[v] > 0 \/ v \in missed'
    <3>1. call'[c].step = "clear" => call[c].list = {w}
      BY <2>2 DEF Moved
    <3> QED
      BY <2>1, <2>2, <2>6, <2>8, <2>10, <3>1 DEF Served
  <2>16. Noticing'
    BY <2>12 DEF Noticing
  <2> QED
    BY <2>9, <2>11, <2>12, <2>13, <2>14, <2>15, <2>16 DEF Served, At
<1>8. ASSUME NEW c \in Calls, ClearWatches(c) PROVE WatchInv'
  <2>1. /\ Moved(c, AfterNotices(c)) /\ rows' = {} /\ At(c, "clear")
        /\ UNCHANGED <<subscribing, asked, told, missed, kept, owed, overlap, crashed>>
    BY <1>8, CallMoves DEF ClearWatches, history
  <2>2. Subscribed'
    BY <2>1 DEF WatchInv, Subscribed
  <2>3. SUFFICES ASSUME ~overlap, ~crashed PROVE Served'
    BY <2>1, <2>2, <2>3 DEF WatchInv
  <2>4. \A d \in Calls \ {c} : ~FollowingUp(d)
    BY <2>1, <2>3 DEF OneFollower, FollowingUp, At
  <2>5. Served
    BY <2>3 DEF WatchInv
  <2>6. \A d \in Calls : call'[d].step \notin {"deliver", "clear"}
    BY <2>1, <2>4 DEF Moved, FollowingUp, AfterNotices
  <2>7. \A w \in owed : told[w] > 0 \/ w \in missed
    BY <2>1, <2>5 DEF Served
  <2> QED
    BY <2>1, <2>5, <2>6, <2>7 DEF Served, Due, At
<1>15. ASSUME NEW c \in Calls, ClearFails(c) PROVE WatchInv'
  <2>1. /\ Moved(c, AfterNotices(c)) /\ At(c, "clear")
        /\ kept' = [w \in Watchers |-> kept[w] + (IF w \in rows THEN 1 ELSE 0)]
        /\ UNCHANGED <<rows, subscribing, asked, told, missed, owed, overlap, crashed>>
    BY <1>15, CallMoves DEF ClearFails, history
  <2>2. Subscribed'
    BY <2>1 DEF WatchInv, Subscribed
  <2>3. SUFFICES ASSUME ~overlap, ~crashed PROVE Served'
    BY <2>1, <2>2, <2>3 DEF WatchInv
  <2>4. \A d \in Calls \ {c} : ~FollowingUp(d)
    BY <2>1, <2>3 DEF OneFollower, FollowingUp, At
  <2>5. Served
    BY <2>3 DEF WatchInv
  <2>6. \A d \in Calls : call'[d].step \notin {"deliver", "clear"}
    BY <2>1, <2>4 DEF Moved, FollowingUp, AfterNotices
  <2>7. /\ \A w \in rows : kept'[w] = kept[w] + 1
        /\ \A w \in Watchers \ rows : kept'[w] = kept[w]
        /\ rows \subseteq Watchers /\ \A w \in Watchers : kept[w] \in Nat
    BY <2>1 DEF TypeOK
  <2>8. /\ \A w \in rows : Due(w)' = Due(w) + 1 /\ kept'[w] > 0
        /\ \A w \in Watchers : Due(w)' >= Due(w) /\ Due(w) \in Nat /\ told[w] \in Nat
    BY <2>1, <2>7 DEF Due, TypeOK
  <2>9. \A w \in Watchers : told'[w] <= Due(w)'
    BY <2>1, <2>5, <2>7, <2>8 DEF Served, Due, TypeOK
  <2>10. \A w \in rows' : told'[w] < Due(w)'
    BY <2>1, <2>5, <2>7, <2>8 DEF Served
  <2>11. \A w \in owed \cap rows : w \in missed \/ (told[w] > 0 /\ kept'[w] > 0)
    BY <2>1, <2>5, <2>8 DEF Served
  <2> QED
    BY <2>1, <2>5, <2>6, <2>9, <2>10, <2>11 DEF Served, At
<1>9. ASSUME NEW w \in Watchers, SubscribeRead(w) PROVE WatchInv'
  BY <1>9 DEF SubscribeRead, history, WatchInv, Subscribed, Served, Due, Noticing, At
<1>10. ASSUME NEW w \in Watchers, SubscribeInsert(w) PROVE WatchInv'
  <2>1. /\ w \in subscribing /\ subscribing' = subscribing \ {w} /\ rows' = rows \cup {w}
        /\ asked' = [asked EXCEPT ![w] = @ + 1]
        /\ UNCHANGED <<told, missed, kept, call, owed, overlap, crashed>>
    BY <1>10 DEF SubscribeInsert, history
  <2>2. asked[w] = 0 /\ w \notin owed
    BY <2>1 DEF WatchInv, Subscribed
  <2>3. asked'[w] = 1 /\ \A v \in Watchers \ {w} : asked'[v] = asked[v]
    BY <2>1, <2>2 DEF TypeOK
  <2>4. Subscribed'
    BY <2>1, <2>2, <2>3 DEF WatchInv, Subscribed, TypeOK
  <2>5. SUFFICES ASSUME ~overlap, ~crashed PROVE Served'
    BY <2>1, <2>4, <2>5 DEF WatchInv
  <2>6. Served
    BY <2>5 DEF WatchInv
  <2>7. /\ Due(w)' = Due(w) + 1 /\ \A v \in Watchers \ {w} : Due(v)' = Due(v)
        /\ \A v \in Watchers : Due(v) \in Nat /\ told[v] \in Nat
    BY <2>1, <2>2, <2>3 DEF Due, TypeOK
  <2>8. owed' \cap rows' = owed \cap rows /\ rows \subseteq Watchers
    BY <2>1, <2>2 DEF TypeOK
  <2>9. \A v \in Watchers : told'[v] <= Due(v)'
    BY <2>1, <2>6, <2>7 DEF Served
  <2>10. \A c \in Calls : At(c, "deliver") => \A v \in call[c].list : v \in Watchers
    BY DEF TypeOK, CallStates
  <2>11. \A c \in Calls : At(c, "deliver")' =>
           /\ \A v \in call'[c].list : told'[v] < Due(v)'
           /\ \A v \in owed' \cap rows' :
                v \in call'[c].list \/ told'[v] > 0 \/ v \in missed'
    <3>1. \A v \in Watchers : told[v] < Due(v) => told'[v] < Due(v)'
      BY <2>1, <2>7
    <3> QED
      BY <2>1, <2>6, <2>8, <2>10, <3>1 DEF Served, At
  <2>12. \A v \in rows' :
           told'[v] < Due(v)' \/ \E c \in Calls : call'[c].step \in {"deliver", "clear"}
    <3>1. told'[w] < Due(w)'
      BY <2>1, <2>6, <2>7 DEF Served
    <3> QED
      BY <2>1, <2>6, <2>7, <2>8, <3>1 DEF Served
  <2>13. /\ \A v \in owed' : v \in rows' \/ told'[v] > 0 \/ v \in missed'
         /\ \A c \in Calls : At(c, "clear")' =>
              \A v \in owed' \cap rows' : told'[v] > 0 \/ v \in missed'
         /\ ~Noticing' => \A v \in owed' \cap rows' :
                             v \in missed' \/ (told'[v] > 0 /\ kept'[v] > 0)
    BY <2>1, <2>6, <2>8 DEF Served, At, Noticing
  <2> QED
    BY <2>9, <2>11, <2>12, <2>13 DEF Served
<1>11. ASSUME NEW w \in Watchers, Unsubscribe(w) PROVE WatchInv'
  BY <1>11 DEF Unsubscribe, WatchInv, Subscribed, Served, Due, Noticing, At
<1>12. CASE Restart
  BY <1>12 DEF Restart, WatchInv, Subscribed
<1>13. \/ \E c \in Calls : BeginExit(c) \/ BeginMark(c) \/ BeginSet(c) \/ BeginDelete(c) \/ Step(c)
       \/ \E w \in Watchers : SubscribeRead(w) \/ SubscribeInsert(w) \/ Unsubscribe(w)
       \/ Restart \/ UNCHANGED <<call, watches, owed, overlap, crashed>>
  BY DEF Next, vars, WrapUp, RebaseFails, IssueExitToken, ResumeLaunch, ResumePersist, history
<1> QED
  BY <1>1, <1>2, <1>3, <1>4, <1>5, <1>6, <1>7, <1>8, <1>9, <1>10, <1>11, <1>12, <1>13,
     <1>14, <1>15 DEF Step

(* A subscription made in time is told unless the list failed, its row     *)
(* goes with the notice unless the list or the clearing failed, and it is  *)
(* told once, and once more for each clearing that failed; all this unless *)
(* follow-ups overlapped or a restart cut one short                        *)
(* (notify_watchers_if_finished, subscribe_to_task).                       *)
THEOREM WatchersServed == Spec => []WatchersAreServed
<1>1. Init => WatchInv
  BY DEF Init, WatchInv, Subscribed, Served, Due, At, Bare
<1>2. TypeOK /\ WatchInv => WatchersAreServed
  BY DEF WatchInv, Served, Due, WatchersAreServed, OwedAreTold, NoOwedRowAtRest, ToldOnce, Noticing,
     FollowingUp
<1> QED
  BY <1>1, <1>2, WatchInvKept, OneFollowerHolds, PTL DEF Spec
=============================================================================
