--------------------------- MODULE FeedSyncProofs ---------------------------
(***************************************************************************)
(* What FeedSync keeps for any number of items, of requests for a cycle    *)
(* and of acts of the user.                                                *)
(***************************************************************************)
EXTENDS FeedSync, FiniteSetTheorems, TLAPS

CycleStates ==
    [step : Steps, how : {"flat", "grouped", "routed"},
     items : SUBSET Items, to : [Items -> Subs], additive : BOOLEAN, clean : BOOLEAN,
     moves : SUBSET (Rows \X Epics), upserts : SUBSET Epics,
     absent : SUBSET Epics, removed : SUBSET Rows]

(* What a cycle carries at each of its steps: it has removed nothing       *)
(* before its deletes, and the flat one writes the parent and no more.     *)
Shape(q) ==
    /\ q.step \in {"fetch", "moves"} \cup Over => q.removed = {}
    /\ q.step \in {"fetch", "moves", "upserts"} /\ q.how = "flat" =>
         q.upserts \subseteq {Parent} /\ (q.upserts # {} => q.removed = {})
    /\ Parent \in q.upserts => q.how = "flat"
    /\ q.step = "fetch" => q.upserts = {}
CycleShape == \A c \in Cycles : Shape(cyc[c])

(* Rows are never given out twice, so a deleted row stays deleted: with    *)
(* these TypeOK is inductive.                                              *)
RowsAreNew ==
    /\ \A r \in Rows : at[r] # None => r \in used
    /\ \A c \in Cycles : \A r \in cyc[c].removed : r \in used /\ at[r] = None

(* A live row's worktree is recorded, or its dispatch is still under way;  *)
(* a dispatch whose row is gone was crossed by the delete.                 *)
AgentsAccounted ==
    /\ tree \cup claimed \subseteq used
    /\ \A r \in tree : at[r] # None => r \in recorded \cup claimed
    /\ \A r \in claimed : at[r] # None \/ r \in crossed

IInv == GuardIsHeld /\ CycleShape /\ RowsAreNew /\ AgentsAccounted /\ NoOrphanWorktree

-----------------------------------------------------------------------------
(* The guard.                                                              *)

Guard ==
    /\ \A c, d \in Cycles : cyc[c].step \notin Over /\ cyc[d].step \notin Over => c = d
    /\ inflight = \E c \in Cycles : cyc[c].step \notin Over

(* Putting one cycle's record leaves the others alone.                     *)
LEMMA PutOneCycle ==
    ASSUME cyc \in [Cycles -> CycleStates], NEW c \in Cycles, NEW q \in CycleStates, Put(c, q)
    PROVE  /\ cyc' \in [Cycles -> CycleStates] /\ cyc'[c] = q
           /\ \A d \in Cycles \ {c} : cyc'[d] = cyc[d]
BY DEF Put

(* A cycle at work stays the only one, and the guard stays taken.          *)
LEMMA StillWorking ==
    ASSUME Guard, cyc \in [Cycles -> CycleStates], NEW c \in Cycles, NEW q \in CycleStates,
           Put(c, q), cyc[c].step \notin Over, q.step \notin Over, UNCHANGED inflight
    PROVE  Guard'
<1>1. cyc'[c] = q /\ \A d \in Cycles \ {c} : cyc'[d] = cyc[d]
  BY PutOneCycle
<1>2. inflight = TRUE
  BY Zenon DEF Guard
<1>3. \A d \in Cycles : cyc'[d].step \notin Over <=> cyc[d].step \notin Over
  BY <1>1
<1> QED
  BY <1>1, <1>2, <1>3, Zenon DEF Guard

(* A cycle that ends frees the guard, and was the last at work.            *)
LEMMA WorkEnds ==
    ASSUME Guard, cyc \in [Cycles -> CycleStates], NEW c \in Cycles, NEW q \in CycleStates,
           Put(c, q), cyc[c].step \notin Over, q.step \in Over, inflight' = FALSE
    PROVE  Guard'
<1>1. cyc'[c] = q /\ \A d \in Cycles \ {c} : cyc'[d] = cyc[d]
  BY PutOneCycle
<1>2. \A d \in Cycles : cyc'[d].step \in Over
  BY <1>1 DEF Guard
<1> QED
  BY <1>2, Zenon DEF Guard

(* A cycle that is refused was not at work and does not begin.             *)
LEMMA NeverStarts ==
    ASSUME Guard, cyc \in [Cycles -> CycleStates], NEW c \in Cycles, NEW q \in CycleStates,
           Put(c, q), cyc[c].step \in Over, q.step \in Over, UNCHANGED inflight
    PROVE  Guard'
<1>1. cyc'[c] = q /\ \A d \in Cycles \ {c} : cyc'[d] = cyc[d]
  BY PutOneCycle
<1>2. \A d \in Cycles : cyc'[d].step \notin Over <=> cyc[d].step \notin Over
  BY <1>1
<1> QED
  BY <1>2, Zenon DEF Guard

(* A cycle that claims the free guard is the only one at work.             *)
LEMMA WorkBegins ==
    ASSUME Guard, cyc \in [Cycles -> CycleStates], NEW c \in Cycles, NEW q \in CycleStates,
           Put(c, q), ~inflight, q.step \notin Over, inflight' = TRUE
    PROVE  Guard'
<1>1. cyc'[c] = q /\ \A d \in Cycles \ {c} : cyc'[d] = cyc[d]
  BY PutOneCycle
<1>2. \A d \in Cycles : cyc[d].step \in Over
  BY Zenon DEF Guard
<1>3. \A d \in Cycles : cyc'[d].step \notin Over <=> d = c
  BY <1>1, <1>2
<1> QED
  BY <1>3, Zenon DEF Guard

-----------------------------------------------------------------------------
(* Steps that leave the rows and the agents alone.                         *)

Fields == <<rowVars, agents, crossed>>

(* What is left to show of a step that only moves a cycle: that the record *)
(* is a cycle's, that it forgets no removal, and what the guard does.      *)
LEMMA CycleMoves ==
    ASSUME IInv, NEW c \in Cycles, NEW q \in CycleStates, Put(c, q), Shape(q),
           UNCHANGED Fields, q.removed = cyc[c].removed
    PROVE  CycleShape' /\ RowsAreNew' /\ AgentsAccounted' /\ NoOrphanWorktree'
<1>1. cyc'[c] = q /\ \A d \in Cycles \ {c} : cyc'[d] = cyc[d]
  BY PutOneCycle DEF IInv, GuardIsHeld, TypeOK, CycleStates
<1>2. \A d \in Cycles : cyc'[d].removed = cyc[d].removed
  BY <1>1
<1>3. CycleShape'
  BY <1>1 DEF IInv, CycleShape
<1>4. RowsAreNew'
  BY <1>2 DEF IInv, RowsAreNew, Fields, rowVars
<1>5. AgentsAccounted'
  BY DEF IInv, AgentsAccounted, Fields, rowVars, agents
<1>6. NoOrphanWorktree'
  BY <1>2 DEF IInv, NoOrphanWorktree, Fields, rowVars, agents
<1> QED
  BY <1>3, <1>4, <1>5, <1>6

(* A cycle that is over or has just begun has an empty record.             *)
LEMMA BareIsACycle ==
    ASSUME TypeOK, NEW step \in Steps
    PROVE  /\ Bare(step) \in CycleStates /\ Bare(step).step = step
           /\ Bare(step).removed = {} /\ Bare(step).upserts = {}
BY DEF TypeOK, Bare, CycleStates

(* What the step names and the epics are to one another.                 *)
LEMMA Constants ==
    /\ Over \subseteq Steps /\ {"fetch", "moves", "upserts", "absent", "stale", "clear", "teardown"}
                                  \subseteq Steps \ Over
    /\ None \notin Epics /\ Parent \in Epics /\ Parent \notin Subs /\ Subs \subseteq Epics
BY FeedAssumption DEF Over, Steps, Epics, Subtree, Subs

(* The invariant, from the parts that a step is shown to keep.             *)
LEMMA IInvKept ==
    ASSUME TypeOK', Guard', CycleShape', RowsAreNew', AgentsAccounted', NoOrphanWorktree'
    PROVE  IInv'
BY DEF IInv, GuardIsHeld, Guard

(* What the invariant says of the cycle that takes a step.                 *)
LEMMA OfACycle ==
    ASSUME IInv, NEW c \in Cycles
    PROVE  /\ TypeOK /\ Guard /\ Shape(cyc[c]) /\ cyc[c] \in CycleStates
           /\ cyc \in [Cycles -> CycleStates]
BY DEF IInv, GuardIsHeld, Guard, CycleShape, TypeOK, CycleStates

(* A cycle that ends, with the rows as they are.                           *)
LEMMA CycleEnds ==
    ASSUME IInv, NEW c \in Cycles, NEW step \in Over, End(c, step), UNCHANGED Fields,
           cyc[c].step \notin Over, cyc[c].removed = {}, UNCHANGED <<epicRow, touched, ungrouped, acts>>,
           synced' \in [clean : BOOLEAN, additive : BOOLEAN, items : SUBSET Items]
    PROVE  IInv'
<1>1. /\ Bare(step) \in CycleStates /\ Bare(step).step = step
      /\ Bare(step).removed = {} /\ Bare(step).upserts = {}
  BY OfACycle, BareIsACycle, Constants
<1>2. Shape(Bare(step))
  BY <1>1, Constants DEF Shape
<1>3. Put(c, Bare(step)) /\ inflight' = FALSE
  BY DEF End
<1>4. CycleShape' /\ RowsAreNew' /\ AgentsAccounted' /\ NoOrphanWorktree'
  BY <1>1, <1>2, <1>3, CycleMoves
<1>5. Guard'
  BY <1>1, <1>3, OfACycle, WorkEnds
<1>6. cyc' \in [Cycles -> CycleStates]
  BY <1>1, <1>3, OfACycle, PutOneCycle
<1>7. TypeOK'
  BY <1>3, <1>6, OfACycle DEF TypeOK, CycleStates, Fields, rowVars, agents, epicRow
<1> QED
  BY <1>4, <1>5, <1>7, IInvKept

(* A cycle that goes on, with the rows as they are.                        *)
LEMMA CycleGoesOn ==
    ASSUME IInv, NEW c \in Cycles, NEW q \in CycleStates, Put(c, q), Shape(q), UNCHANGED Fields,
           q.removed = cyc[c].removed, cyc[c].step \notin Over, q.step \notin Over,
           UNCHANGED <<inflight, epicRow, touched, ungrouped, acts, synced>>
    PROVE  IInv'
<1>1. CycleShape' /\ RowsAreNew' /\ AgentsAccounted' /\ NoOrphanWorktree'
  BY CycleMoves
<1>2. Guard'
  BY OfACycle, StillWorking
<1>3. cyc' \in [Cycles -> CycleStates]
  BY OfACycle, PutOneCycle
<1>4. TypeOK'
  BY <1>3, OfACycle DEF TypeOK, CycleStates, Fields, rowVars, agents, epicRow
<1> QED
  BY <1>1, <1>2, <1>4, IInvKept

(* try_claim, won and lost.                                                *)
LEMMA Claims ==
    ASSUME IInv, NEW c \in Cycles, Claim(c) \/ Busy(c)
    PROVE  IInv'
<1> DEFINE how == IF role = "reviews_parent" THEN "routed" ELSE IF grouped THEN "grouped" ELSE "flat"
           q == [Bare("fetch") EXCEPT !.how = how]
<1>1. TypeOK /\ Guard /\ cyc \in [Cycles -> CycleStates] /\ Shape(cyc[c])
  BY OfACycle
<1>2. cyc[c].step = "idle" /\ cyc[c].removed = {}
  BY <1>1 DEF Claim, Busy, At, Shape, Over
<1>3. ASSUME Busy(c) PROVE IInv'
  <2>1. /\ Bare("ended") \in CycleStates /\ Bare("ended").step = "ended"
        /\ Bare("ended").removed = {} /\ Bare("ended").upserts = {}
    BY <1>1, BareIsACycle DEF Steps
  <2>2. Shape(Bare("ended"))
    BY <2>1 DEF Shape
  <2>3. CycleShape' /\ RowsAreNew' /\ AgentsAccounted' /\ NoOrphanWorktree'
    BY <1>2, <1>3, <2>1, <2>2, CycleMoves DEF Busy, Fields, history
  <2>4. Guard'
    BY <1>1, <1>2, <1>3, <2>1, NeverStarts DEF Busy, Over
  <2>5. cyc' \in [Cycles -> CycleStates]
    BY <1>1, <1>3, <2>1, PutOneCycle DEF Busy
  <2>6. TypeOK'
    BY <1>1, <1>3, <2>5 DEF Busy, TypeOK, CycleStates, rowVars, agents, epicRow, history
  <2> QED
    BY <2>3, <2>4, <2>6, IInvKept
<1>4. ASSUME Claim(c) PROVE IInv'
  <2>1. /\ Bare("fetch") \in CycleStates /\ Bare("fetch").step = "fetch"
        /\ Bare("fetch").removed = {} /\ Bare("fetch").upserts = {}
    BY <1>1, BareIsACycle DEF Steps
  <2>2. how \in {"flat", "grouped", "routed"}
    OBVIOUS
  <2>3. Put(c, q)
    BY <1>4 DEF Claim
  <2> HIDE DEF how
  <2>4. q \in CycleStates /\ q.step = "fetch" /\ q.removed = {} /\ q.upserts = {}
    BY <2>1, <2>2 DEF CycleStates
  <2> HIDE DEF q
  <2>5. Shape(q)
    BY <2>4 DEF Shape
  <2>6. CycleShape' /\ RowsAreNew' /\ AgentsAccounted' /\ NoOrphanWorktree'
    BY <1>2, <1>4, <2>3, <2>4, <2>5, CycleMoves DEF Claim, Fields, history
  <2>7. Guard'
    BY <1>1, <1>4, <2>3, <2>4, WorkBegins DEF Claim, Over
  <2>8. cyc' \in [Cycles -> CycleStates]
    BY <1>1, <2>3, <2>4, PutOneCycle
  <2>9. synced' \in [clean : BOOLEAN, additive : BOOLEAN, items : SUBSET Items]
    BY <1>4 DEF Claim, NoSync
  <2>10. TypeOK'
    BY <1>1, <1>4, <2>8, <2>9 DEF Claim, TypeOK, CycleStates, rowVars, agents, epicRow, history
  <2> QED
    BY <2>6, <2>7, <2>10, IInvKept
<1> QED
  BY <1>3, <1>4

(* The steps before the writes, and the one that a failed write is.        *)
LEMMA Fetches ==
    ASSUME IInv, NEW c \in Cycles, FetchFails(c) \/ Fetch(c)
    PROVE  IInv'
<1>1. TypeOK /\ Shape(cyc[c]) /\ cyc[c] \in CycleStates
  BY OfACycle
<1>2. cyc[c].step = "fetch" /\ cyc[c].removed = {} /\ cyc[c].step \notin Over
  BY <1>1 DEF FetchFails, Fetch, At, Shape, Over
<1>3. ASSUME FetchFails(c) PROVE IInv'
  BY <1>1, <1>2, <1>3, CycleEnds DEF FetchFails, Fields, history, Over, TypeOK
<1>4. ASSUME Fetch(c) PROVE IInv'
  <2>1. PICK items \in SUBSET Items, additive \in BOOLEAN,
             to \in (IF At(c, "fetch") /\ cyc[c].how = "routed" THEN [Items -> Subs] ELSE {repoOf}) :
          /\ additive => items # {}
          /\ Put(c, [cyc[c] EXCEPT !.step = "moves", !.items = items, !.additive = additive,
               !.to = to,
               !.moves = IF cyc[c].how # "routed" THEN {}
                         ELSE {m \in Rows \X Subs :
                                 /\ Item(m[1]) \in items /\ m[1] \in Indexed(Item(m[1]))
                                 /\ m[2] = to[Item(m[1])] /\ at[m[1]] # m[2]},
               !.upserts = IF cyc[c].how = "flat" THEN {Parent} ELSE {to[i] : i \in items},
               !.absent = IF cyc[c].how = "grouped" /\ ~additive
                            THEN Subs \ {to[i] : i \in items} ELSE {}])
    BY <1>4 DEF Fetch
  <2> DEFINE moves == IF cyc[c].how # "routed" THEN {}
                      ELSE {m \in Rows \X Subs :
                              /\ Item(m[1]) \in items /\ m[1] \in Indexed(Item(m[1]))
                              /\ m[2] = to[Item(m[1])] /\ at[m[1]] # m[2]}
             upserts == IF cyc[c].how = "flat" THEN {Parent} ELSE {to[i] : i \in items}
             absent == IF cyc[c].how = "grouped" /\ ~additive
                         THEN Subs \ {to[i] : i \in items} ELSE {}
             q == [cyc[c] EXCEPT !.step = "moves", !.items = items, !.additive = additive,
                     !.to = to, !.moves = moves, !.upserts = upserts, !.absent = absent]
  <2>2. to \in [Items -> Subs]
    BY <1>1, <2>1 DEF TypeOK
  <2>3. moves \subseteq Rows \X Epics
    BY Constants
  <2>4. /\ upserts \subseteq Epics
        /\ cyc[c].how = "flat" => upserts = {Parent}
        /\ cyc[c].how # "flat" => Parent \notin upserts
    BY <2>2, Constants
  <2>5. absent \subseteq Epics
    BY Constants
  <2>6. Put(c, q)
    BY <2>1
  <2> HIDE DEF moves, upserts, absent
  <2>7. /\ q \in CycleStates /\ q.step = "moves" /\ q.removed = cyc[c].removed
        /\ q.how = cyc[c].how /\ q.upserts = upserts
    BY <1>1, <2>2, <2>3, <2>4, <2>5 DEF CycleStates, Steps
  <2> HIDE DEF q
  <2>8. Shape(q)
    BY <1>2, <2>4, <2>7 DEF Shape
  <2> QED
    BY <1>2, <1>4, <2>6, <2>7, <2>8, CycleGoesOn DEF Fetch, Fields, history, Over
<1> QED
  BY <1>3, <1>4

(* The end of the moves, of the upserts, and an upsert that fails.         *)
LEMMA PassesOn ==
    ASSUME IInv, NEW c \in Cycles, Routed(c) \/ Upserted(c) \/ UpsertFails(c)
    PROVE  IInv'
<1>1. TypeOK /\ Shape(cyc[c]) /\ cyc[c] \in CycleStates
  BY OfACycle
<1>2. ASSUME Routed(c) PROVE IInv'
  <2> DEFINE q == [cyc[c] EXCEPT !.step = "upserts"]
  <2>1. /\ q \in CycleStates /\ q.step = "upserts" /\ q.removed = cyc[c].removed
        /\ q.how = cyc[c].how /\ q.upserts = cyc[c].upserts
    BY <1>1 DEF CycleStates, Steps
  <2>2. Put(c, q) /\ cyc[c].step = "moves"
    BY <1>2 DEF Routed, At
  <2> HIDE DEF q
  <2>3. Shape(q)
    BY <1>1, <2>1, <2>2 DEF Shape, Over
  <2> QED
    BY <1>2, <2>1, <2>2, <2>3, CycleGoesOn DEF Routed, Fields, history, Over
<1>3. ASSUME Upserted(c) PROVE IInv'
  <2> DEFINE q == [cyc[c] EXCEPT !.step = AfterUpserts(c)]
  <2>1. AfterUpserts(c) \in {"absent", "stale", "teardown"}
    BY DEF AfterUpserts
  <2>2. /\ q \in CycleStates /\ q.step \in {"absent", "stale", "teardown"}
        /\ q.removed = cyc[c].removed /\ q.upserts = {}
    BY <1>1, <1>3, <2>1 DEF CycleStates, Steps, Upserted
  <2>3. Put(c, q) /\ cyc[c].step = "upserts"
    BY <1>3 DEF Upserted, At
  <2> HIDE DEF q
  <2>4. Shape(q)
    BY <2>2 DEF Shape, Over
  <2> QED
    BY <1>3, <2>2, <2>3, <2>4, CycleGoesOn DEF Upserted, Fields, history, Over
<1>4. ASSUME UpsertFails(c) PROVE IInv'
  <2>1. PICK e \in cyc[c].upserts :
          IF cyc[c].how = "flat" THEN End(c, "ended")
          ELSE /\ Put(c, [cyc[c] EXCEPT !.upserts = @ \ {e}, !.clean = FALSE])
               /\ UNCHANGED inflight
    BY <1>4 DEF UpsertFails
  <2>2. cyc[c].step = "upserts"
    BY <1>4 DEF UpsertFails, At
  <2>3. CASE cyc[c].how = "flat"
    <3>1. cyc[c].removed = {}
      BY <1>1, <2>1, <2>2, <2>3 DEF Shape
    <3> QED
      BY <1>1, <1>4, <2>1, <2>2, <2>3, <3>1, CycleEnds DEF UpsertFails, Fields, history, Over, TypeOK
  <2>4. CASE cyc[c].how # "flat"
    <3> DEFINE q == [cyc[c] EXCEPT !.upserts = @ \ {e}, !.clean = FALSE]
    <3>1. /\ q \in CycleStates /\ q.step = "upserts" /\ q.removed = cyc[c].removed
          /\ q.how = cyc[c].how /\ q.upserts \subseteq cyc[c].upserts
      BY <1>1, <2>2 DEF CycleStates
    <3>2. Put(c, q) /\ UNCHANGED inflight
      BY <2>1, <2>4
    <3> HIDE DEF q
    <3>3. Shape(q)
      BY <1>1, <2>4, <3>1 DEF Shape, Over
    <3> QED
      BY <1>4, <2>2, <3>1, <3>2, <3>3, CycleGoesOn DEF UpsertFails, Fields, history, Over
  <2> QED
    BY <2>3, <2>4
<1> QED
  BY <1>2, <1>3, <1>4

(* A move of a row that is live leaves it live.                            *)
LEMMA Moves ==
    ASSUME IInv, NEW c \in Cycles, ApplyMove(c)
    PROVE  IInv'
<1>1. TypeOK /\ Guard /\ Shape(cyc[c]) /\ cyc[c] \in CycleStates /\ cyc \in [Cycles -> CycleStates]
  BY OfACycle
<1>2. cyc[c].step = "moves" /\ cyc[c].removed = {} /\ cyc[c].step \notin Over
  BY <1>1 DEF ApplyMove, At, Shape, Over
<1>3. PICK m \in cyc[c].moves :
        IF at[m[1]] = None \/ Holds(m[2], Item(m[1]))
          THEN End(c, "collided") /\ UNCHANGED at
          ELSE /\ at' = [at EXCEPT ![m[1]] = m[2]]
               /\ Put(c, [cyc[c] EXCEPT !.moves = @ \ {m}]) /\ UNCHANGED inflight
  BY DEF ApplyMove
<1>4. UNCHANGED <<epicRow, used, agents, synced, history>>
  BY DEF ApplyMove
<1>5. CASE at[m[1]] = None \/ Holds(m[2], Item(m[1]))
  BY <1>1, <1>2, <1>3, <1>4, <1>5, CycleEnds DEF Fields, rowVars, history, Over, TypeOK
<1>6. CASE ~(at[m[1]] = None \/ Holds(m[2], Item(m[1])))
  <2> DEFINE q == [cyc[c] EXCEPT !.moves = @ \ {m}]
  <2>1. m[1] \in Rows /\ m[2] \in Epics
    BY <1>1 DEF CycleStates
  <2>2. /\ at' = [at EXCEPT ![m[1]] = m[2]] /\ Put(c, q) /\ UNCHANGED inflight
        /\ at[m[1]] # None
    BY <1>3, <1>6
  <2>3. /\ q \in CycleStates /\ q.step = "moves" /\ q.removed = {}
        /\ q.how = cyc[c].how /\ q.upserts = cyc[c].upserts
    BY <1>1, <1>2 DEF CycleStates
  <2> HIDE DEF q
  <2>4. Shape(q)
    BY <1>1, <1>2, <2>3 DEF Shape, Over
  <2>5. Guard'
    BY <1>1, <1>2, <2>2, <2>3, <2>4, StillWorking DEF Over
  <2>6. cyc' \in [Cycles -> CycleStates] /\ cyc'[c] = q /\ \A d \in Cycles \ {c} : cyc'[d] = cyc[d]
    BY <1>1, <2>2, <2>3, PutOneCycle
  <2>7. /\ at' \in [Rows -> Epics \cup {None}]
        /\ \A r \in Rows : at'[r] = None <=> at[r] = None
    BY <1>1, <2>1, <2>2, Constants DEF TypeOK
  <2>8. CycleShape'
    BY <2>4, <2>6 DEF IInv, CycleShape
  <2>9. RowsAreNew'
    BY <1>1, <1>2, <1>4, <2>3, <2>6, <2>7 DEF IInv, RowsAreNew, TypeOK, CycleStates
  <2>10. tree \subseteq Rows /\ claimed \subseteq Rows /\ recorded \subseteq Rows
    BY <1>1 DEF TypeOK
  <2>11. AgentsAccounted'
    BY <1>4, <2>7, <2>10 DEF IInv, AgentsAccounted, agents, history
  <2>12. NoOrphanWorktree'
    BY <1>2, <1>4, <2>3, <2>6, <2>7, <2>10 DEF IInv, NoOrphanWorktree, agents, history
  <2>13. recorded' \subseteq {r \in tree' : at'[r] # None}
    BY <1>1, <1>4, <2>7 DEF TypeOK, agents
  <2>14. TypeOK'
    BY <1>1, <1>4, <2>2, <2>6, <2>7, <2>13 DEF TypeOK, CycleStates, agents, epicRow, history
  <2> QED
    BY <2>5, <2>8, <2>9, <2>11, <2>12, <2>14, IInvKept
<1> QED
  BY <1>5, <1>6

-----------------------------------------------------------------------------
(* The deletes.                                                            *)

(* A statement that deletes live rows and makes new ones: what it removes  *)
(* with a recorded worktree is reported, what it removes under a dispatch  *)
(* is crossed, and nothing deleted comes back.                             *)
LEMMA Deletes ==
    ASSUME IInv, NEW c \in Cycles, NEW q \in CycleStates, Put(c, q), Shape(q),
           NEW gone \in SUBSET {r \in Rows : at[r] # None}, NEW born \in SUBSET (Rows \ used),
           NEW where \in Epics \cup {None}, born # {} => where \in Epics,
           Delete(c, gone, born, where), q.removed = Reported(c, gone),
           cyc[c].step \notin Over, q.step \notin Over,
           UNCHANGED <<inflight, epicRow, claimed, tree, synced, touched, ungrouped, acts>>
    PROVE  IInv'
<1>1. TypeOK /\ Guard /\ Shape(cyc[c]) /\ cyc \in [Cycles -> CycleStates]
  BY OfACycle
<1>2. cyc' \in [Cycles -> CycleStates] /\ cyc'[c] = q /\ \A d \in Cycles \ {c} : cyc'[d] = cyc[d]
  BY <1>1, PutOneCycle
<1>3. Guard'
  BY <1>1, StillWorking
<1>4. CycleShape'
  BY <1>2 DEF IInv, CycleShape
<1>5. /\ at' = [r \in Rows |-> IF r \in gone THEN None ELSE IF r \in born THEN where ELSE at[r]]
      /\ used' = used \cup born /\ recorded' = recorded \ gone
      /\ crossed' = crossed \cup (gone \cap claimed)
  BY DEF Delete
<1>6. /\ at' \in [Rows -> Epics \cup {None}]
      /\ \A r \in Rows : at'[r] = None <=> r \in gone \/ (at[r] = None /\ r \notin born)
  <2>1. \A r \in Rows : at[r] \in Epics \cup {None}
    BY <1>1 DEF TypeOK
  <2>2. \A r \in gone : at[r] # None
    OBVIOUS
  <2>3. \A r \in born : r \notin gone
    BY <2>2 DEF IInv, RowsAreNew
  <2>4. \A r \in born : where # None
    BY Constants
  <2>5. at' \in [Rows -> Epics \cup {None}]
    BY <1>5, <2>1
  <2> QED
    BY <1>5, <2>3, <2>4, <2>5
<1>7. /\ used \subseteq Rows /\ claimed \subseteq Rows /\ tree \subseteq Rows /\ crossed \subseteq Rows
      /\ recorded \subseteq tree /\ \A r \in recorded : at[r] # None
  BY <1>1 DEF TypeOK
<1>8. used' \subseteq Rows /\ crossed' \subseteq Rows
  BY <1>5, <1>7
<1>9. recorded' \subseteq {r \in tree' : at'[r] # None}
  BY <1>5, <1>6, <1>7
<1>10. TypeOK'
  BY <1>1, <1>2, <1>6, <1>8, <1>9 DEF TypeOK, CycleStates, epicRow
<1>11. RowsAreNew'
  <2>1. \A r \in Rows : at'[r] # None => r \in used'
    BY <1>5, <1>6 DEF IInv, RowsAreNew
  <2>2. ASSUME NEW d \in Cycles, NEW r \in cyc[d].removed PROVE r \in used' /\ at'[r] = None
    <3>1. r \in used /\ at[r] = None
      BY <2>2 DEF IInv, RowsAreNew
    <3> QED
      BY <1>5, <1>6, <1>7, <3>1
  <2>3. ASSUME NEW r \in gone \cap recorded PROVE r \in used' /\ at'[r] = None
    BY <1>5, <1>6, <1>7, <2>3 DEF IInv, RowsAreNew
  <2>4. ASSUME NEW d \in Cycles, NEW r \in cyc'[d].removed PROVE r \in used' /\ at'[r] = None
    BY <1>2, <2>2, <2>3, <2>4 DEF Reported
  <2> QED
    BY <2>1, <2>4 DEF RowsAreNew
<1>12. AgentsAccounted'
  <2>1. tree' \cup claimed' \subseteq used'
    BY <1>5 DEF IInv, AgentsAccounted
  <2>2. \A r \in tree : r \notin born
    BY DEF IInv, AgentsAccounted
  <2>3. \A r \in tree : at'[r] # None => r \in recorded' \cup claimed'
    BY <1>5, <1>6, <1>7, <2>2 DEF IInv, AgentsAccounted
  <2>4. \A r \in claimed : at'[r] # None \/ r \in crossed'
    BY <1>5, <1>6, <1>7 DEF IInv, AgentsAccounted
  <2> QED
    BY <2>1, <2>3, <2>4 DEF AgentsAccounted
<1>13. NoOrphanWorktree'
  <2> SUFFICES ASSUME NEW r \in tree, at'[r] = None
               PROVE  r \in crossed' \/ \E d \in Cycles : r \in cyc'[d].removed
    BY DEF NoOrphanWorktree
  <2>1. CASE at[r] = None
    <3>1. r \in crossed \/ \E d \in Cycles : r \in cyc[d].removed
      BY <2>1 DEF IInv, NoOrphanWorktree
    <3> QED
      BY <1>2, <1>5, <3>1 DEF Reported
  <2>2. CASE at[r] # None
    <3>1. r \in gone
      BY <1>6, <1>7, <2>2
    <3>2. r \in recorded \cup claimed
      BY <2>2 DEF IInv, AgentsAccounted
    <3> QED
      BY <1>2, <1>5, <3>1, <3>2 DEF Reported
  <2> QED
    BY <2>1, <2>2
<1> QED
  BY <1>3, <1>4, <1>10, <1>11, <1>12, <1>13, IInvKept

(* The rows of an epic are live.                                           *)
LEMMA RowsAtAreLive ==
    ASSUME NEW S \in SUBSET Epics
    PROVE  RowsAt(S) \subseteq {r \in Rows : at[r] # None}
BY Constants DEF RowsAt

(* The row an upsert makes was never given out.                            *)
LEMMA NewRowIsNew ==
    ASSUME NEW i \in Items, \E k \in 1..MaxCopies : <<i, k>> \notin used
    PROVE  NewRow(i) \in Rows \ used
<1>1. \E k \in 1..MaxCopies : <<i, k>> \notin used
  OBVIOUS
<1>2. (CHOOSE k \in 1..MaxCopies : <<i, k>> \notin used) \in 1..MaxCopies
  BY <1>1
<1>3. <<i, CHOOSE k \in 1..MaxCopies : <<i, k>> \notin used>> \notin used
  BY <1>1
<1> QED
  BY <1>2, <1>3 DEF NewRow, Rows

(* The upsert of one epic.                                                 *)
LEMMA Upserts ==
    ASSUME IInv, NEW c \in Cycles, Upsert(c)
    PROVE  IInv'
<1>1. TypeOK /\ Shape(cyc[c]) /\ cyc[c] \in CycleStates
  BY OfACycle
<1>2. cyc[c].step = "upserts" /\ cyc[c].step \notin Over
  BY DEF Upsert, At, Over
<1>3. PICK e \in cyc[c].upserts :
        LET new == {i \in Group(c, e) : ~Holds(e, i)}
            gone == IF cyc[c].additive THEN {}
                    ELSE {r \in RowsAt({e}) : Item(r) \notin Group(c, e)}
        IN  IF Aborts(c, e)
              THEN /\ End(c, "collided") /\ UNCHANGED <<rowVars, recorded, crossed>>
              ELSE /\ \A i \in new : \E k \in 1..MaxCopies : <<i, k>> \notin used
                   /\ Delete(c, gone, {NewRow(i) : i \in new}, e)
                   /\ Put(c, [cyc[c] EXCEPT !.upserts = @ \ {e}, !.removed = Reported(c, gone)])
                   /\ UNCHANGED inflight
  BY DEF Upsert
<1>4. UNCHANGED <<epicRow, claimed, tree, synced, touched, ungrouped, acts>>
  BY DEF Upsert
<1>5. CASE Aborts(c, e)
  <2>1. End(c, "collided") /\ UNCHANGED <<rowVars, recorded, crossed>>
    BY <1>3, <1>5
  <2>2. e = Parent
    BY <1>5 DEF Aborts
  <2>3. cyc[c].removed = {}
    BY <1>1, <1>2, <2>2 DEF Shape
  <2> QED
    BY <1>1, <1>2, <1>4, <2>1, <2>3, CycleEnds DEF Fields, agents, Over, TypeOK
<1>6. CASE ~Aborts(c, e)
  <2> DEFINE new == {i \in Group(c, e) : ~Holds(e, i)}
             gone == IF cyc[c].additive THEN {}
                     ELSE {r \in RowsAt({e}) : Item(r) \notin Group(c, e)}
             born == {NewRow(i) : i \in new}
             q == [cyc[c] EXCEPT !.upserts = @ \ {e}, !.removed = Reported(c, gone)]
  <2>1. /\ \A i \in new : \E k \in 1..MaxCopies : <<i, k>> \notin used
        /\ Delete(c, gone, born, e) /\ Put(c, q) /\ UNCHANGED inflight
    BY <1>3, <1>6
  <2>2. e \in Epics
    BY <1>1 DEF CycleStates
  <2>3. gone \in SUBSET {r \in Rows : at[r] # None}
    BY <2>2, RowsAtAreLive
  <2>4. new \subseteq Items
    BY <1>1 DEF Group, CycleStates
  <2>5. born \in SUBSET (Rows \ used)
    BY <2>1, <2>4, NewRowIsNew
  <2> HIDE DEF new, gone, born
  <2>6. Reported(c, gone) \subseteq Rows
    BY <1>1, <2>3 DEF Reported, CycleStates
  <2>7. /\ q \in CycleStates /\ q.step = "upserts" /\ q.removed = Reported(c, gone)
        /\ q.how = cyc[c].how /\ q.upserts = cyc[c].upserts \ {e}
    BY <1>1, <1>2, <2>6 DEF CycleStates
  <2> HIDE DEF q
  <2>8. Shape(q)
    <3>1. cyc[c].how = "flat" => q.upserts = {}
      BY <1>1, <1>2, <2>7 DEF Shape
    <3> QED
      BY <1>1, <1>2, <2>7, <3>1 DEF Shape, Over
  <2> QED
    BY <1>2, <1>4, <2>1, <2>2, <2>3, <2>5, <2>7, <2>8, Deletes DEF Over
<1> QED
  BY <1>5, <1>6

(* The deletes after the upserts, done or failed.                          *)
LEMMA SweepKept ==
    ASSUME IInv, NEW c \in Cycles, cyc[c].step \in {"absent", "stale", "clear"},
           NEW e \in Epics, NEW next \in {"absent", "clear", "teardown"},
           NEW gone \in SUBSET {r \in Rows : at[r] # None}, Sweep(c, e, gone, next)
    PROVE  IInv'
<1>1. TypeOK /\ Shape(cyc[c]) /\ cyc[c] \in CycleStates
  BY OfACycle
<1>2. cyc[c].step \notin Over
  BY DEF Over
<1>3. UNCHANGED <<epicRow, claimed, tree, inflight, synced, touched, ungrouped, acts>>
  BY DEF Sweep
<1>4. CASE Delete(c, gone, {}, None) /\ Put(c, [Swept(c, e, next) EXCEPT !.removed = Reported(c, gone)])
  <2> DEFINE q == [Swept(c, e, next) EXCEPT !.removed = Reported(c, gone)]
  <2>1. Reported(c, gone) \subseteq Rows
    BY <1>1 DEF Reported, CycleStates
  <2>2. /\ q \in CycleStates /\ q.step = next /\ q.removed = Reported(c, gone)
        /\ q.how = cyc[c].how /\ q.upserts = cyc[c].upserts
    BY <1>1, <2>1 DEF CycleStates, Swept, Steps
  <2>3. Put(c, q) /\ Delete(c, gone, {}, None)
    BY <1>4
  <2> HIDE DEF q
  <2>4. Shape(q)
    BY <1>1, <2>2 DEF Shape, Over
  <2>5. q.step \notin Over
    BY <2>2 DEF Over
  <2> QED
    BY <1>2, <1>3, <2>2, <2>3, <2>4, <2>5, Deletes
<1>5. CASE /\ Put(c, [Swept(c, e, next) EXCEPT !.clean = FALSE])
           /\ UNCHANGED <<rowVars, recorded, crossed>>
  <2> DEFINE q == [Swept(c, e, next) EXCEPT !.clean = FALSE]
  <2>1. /\ q \in CycleStates /\ q.step = next /\ q.removed = cyc[c].removed
        /\ q.how = cyc[c].how /\ q.upserts = cyc[c].upserts
    BY <1>1 DEF CycleStates, Swept, Steps
  <2>2. Put(c, q)
    BY <1>5
  <2> HIDE DEF q
  <2>3. Shape(q) /\ q.step \notin Over
    BY <1>1, <2>1 DEF Shape, Over
  <2> QED
    BY <1>2, <1>3, <1>5, <2>1, <2>2, <2>3, CycleGoesOn DEF Fields, agents
<1> QED
  BY <1>4, <1>5 DEF Sweep

(* A sweep hands the worktrees of the rows it deletes to its cycle.      *)
LEMMA Sweeps ==
    ASSUME IInv, NEW c \in Cycles, ClearAbsent(c) \/ DeleteStale(c) \/ ClearParent(c)
    PROVE  IInv'
<1>1. TypeOK /\ cyc[c] \in CycleStates
  BY OfACycle
<1>2. ASSUME ClearAbsent(c) PROVE IInv'
  <2>1. CASE cyc[c].absent = {}
    BY <1>2, <2>1, Constants, SweepKept DEF ClearAbsent, At
  <2>2. CASE cyc[c].absent # {}
    <3>1. PICK e \in cyc[c].absent : Sweep(c, e, RowsAt({e}), "absent")
      BY <1>2, <2>2 DEF ClearAbsent
    <3>2. e \in Epics
      BY <1>1 DEF CycleStates
    <3> QED
      BY <1>2, <3>1, <3>2, RowsAtAreLive, SweepKept DEF ClearAbsent, At
  <2> QED
    BY <2>1, <2>2
<1>3. ASSUME DeleteStale(c) PROVE IInv'
  <2>1. {r \in RowsAt(Subs) : Item(r) \notin cyc[c].items} \subseteq {r \in Rows : at[r] # None}
    BY RowsAtAreLive, Constants
  <2> QED
    BY <1>3, <2>1, Constants, SweepKept DEF DeleteStale, At
<1>4. ASSUME ClearParent(c) PROVE IInv'
  BY <1>4, RowsAtAreLive, Constants, SweepKept DEF ClearParent, At
<1> QED
  BY <1>2, <1>3, <1>4

(* The teardown: what is not removed is recorded as failed.                *)
LEMMA TearsDown ==
    ASSUME IInv, NEW c \in Cycles, Teardown(c)
    PROVE  IInv'
<1>1. TypeOK /\ Guard /\ Shape(cyc[c]) /\ cyc[c] \in CycleStates /\ cyc \in [Cycles -> CycleStates]
  BY OfACycle
<1>2. PICK failed \in SUBSET cyc[c].removed :
        /\ tree' = tree \ (cyc[c].removed \ failed) /\ crossed' = crossed \cup failed
  BY DEF Teardown
<1>3. /\ Put(c, Bare("ended")) /\ inflight' = FALSE /\ cyc[c].step = "teardown"
      /\ UNCHANGED <<epicRow, rowVars, claimed, recorded, touched, ungrouped, acts>>
  BY DEF Teardown, End, At
<1>4. /\ Bare("ended") \in CycleStates /\ Bare("ended").step = "ended"
      /\ Bare("ended").removed = {} /\ Bare("ended").upserts = {}
  BY <1>1, BareIsACycle DEF Steps
<1>5. /\ cyc' \in [Cycles -> CycleStates] /\ cyc'[c] = Bare("ended")
      /\ \A d \in Cycles \ {c} : cyc'[d] = cyc[d]
  BY <1>1, <1>3, <1>4, PutOneCycle
<1>6. Guard'
  BY <1>1, <1>3, <1>4, WorkEnds DEF Over
<1>7. CycleShape'
  BY <1>4, <1>5 DEF IInv, CycleShape, Shape
<1>8. RowsAreNew'
  BY <1>3, <1>4, <1>5 DEF IInv, RowsAreNew, rowVars
<1>9. AgentsAccounted'
  BY <1>2, <1>3 DEF IInv, AgentsAccounted, rowVars
<1>10. NoOrphanWorktree'
  <2> SUFFICES ASSUME NEW r \in tree', at'[r] = None
               PROVE  r \in crossed' \/ \E d \in Cycles : r \in cyc'[d].removed
    BY DEF NoOrphanWorktree
  <2>1. r \in tree /\ at[r] = None /\ (r \in failed \/ r \notin cyc[c].removed)
    BY <1>2, <1>3 DEF rowVars
  <2>2. r \in crossed \/ \E d \in Cycles : r \in cyc[d].removed
    BY <2>1 DEF IInv, NoOrphanWorktree
  <2> QED
    BY <1>2, <1>5, <2>1, <2>2
<1>11. /\ tree' \subseteq Rows /\ crossed' \subseteq Rows
       /\ recorded' \subseteq {r \in tree' : at'[r] # None}
  <2>1. \A r \in cyc[c].removed : at[r] = None
    BY DEF IInv, RowsAreNew
  <2> QED
    BY <1>1, <1>2, <1>3, <2>1 DEF TypeOK, CycleStates, rowVars
<1>12. synced' \in [clean : BOOLEAN, additive : BOOLEAN, items : SUBSET Items]
  BY <1>1 DEF Teardown, CycleStates
<1>13. TypeOK'
  BY <1>1, <1>3, <1>5, <1>11, <1>12 DEF TypeOK, CycleStates, rowVars, epicRow
<1> QED
  BY <1>6, <1>7, <1>8, <1>9, <1>10, <1>13, IInvKept

-----------------------------------------------------------------------------
(* The user beside the cycles.                                             *)

(* The user's moves and dispatches lose no worktree.                     *)
LEMMA UserActs ==
    ASSUME IInv, \/ \E r \in Rows : \/ \E e \in Epics : UserMoves(r, e)
                                    \/ Dispatch(r) \/ Provision(r) \/ RecordLaunch(r)
                 \/ Toggle
    PROVE  IInv'
<1>1. TypeOK /\ Guard
  BY DEF IInv, GuardIsHeld, Guard
<1>2. UNCHANGED cyc /\ UNCHANGED inflight /\ UNCHANGED used
  BY DEF UserMoves, Dispatch, Provision, RecordLaunch, Toggle, rowVars
<1>3. Guard' /\ CycleShape'
  BY <1>1, <1>2 DEF Guard, IInv, CycleShape
<1>4. \A c \in Cycles : cyc[c].removed \subseteq Rows
  BY <1>1 DEF TypeOK
<1>5. /\ tree \subseteq Rows /\ claimed \subseteq Rows /\ crossed \subseteq Rows
      /\ recorded \subseteq tree /\ \A r \in recorded : at[r] # None
  BY <1>1 DEF TypeOK
<1>6. ASSUME NEW r \in Rows, NEW e \in Epics, UserMoves(r, e) PROVE IInv'
  <2>1. /\ at' = [at EXCEPT ![r] = e] /\ at[r] # None /\ acts' = acts + 1 /\ acts < MaxActs
        /\ touched' = touched \cup {Item(r)} /\ synced' = NoSync
        /\ UNCHANGED <<epicRow, agents, ungrouped, crossed>>
    BY <1>6 DEF UserMoves, Acts
  <2>2. at' \in [Rows -> Epics \cup {None}] /\ \A x \in Rows : at'[x] = None <=> at[x] = None
    BY <1>1, <2>1, Constants DEF TypeOK
  <2>3. RowsAreNew'
    BY <1>2, <1>4, <2>2 DEF IInv, RowsAreNew
  <2>4. AgentsAccounted' /\ NoOrphanWorktree'
    BY <1>2, <1>5, <2>1, <2>2 DEF IInv, AgentsAccounted, NoOrphanWorktree, agents
  <2>5. touched' \subseteq Items
    BY <1>1, <2>1 DEF TypeOK, Rows, Item
  <2>6. acts' \in 0..MaxActs
    BY <1>1, <2>1, FeedAssumption DEF TypeOK
  <2>7. recorded' \subseteq {x \in tree' : at'[x] # None}
    BY <1>5, <2>1, <2>2 DEF agents
  <2>8. TypeOK'
    BY <1>1, <1>2, <2>1, <2>2, <2>5, <2>6, <2>7 DEF TypeOK, NoSync, agents, epicRow
  <2> QED
    BY <1>3, <2>3, <2>4, <2>8, IInvKept
<1>7. ASSUME NEW r \in Rows, Dispatch(r) PROVE IInv'
  <2>1. /\ claimed' = claimed \cup {r} /\ at[r] # None /\ acts' = acts + 1 /\ acts < MaxActs
        /\ UNCHANGED <<epicRow, rowVars, tree, recorded, synced, touched, ungrouped, crossed>>
    BY <1>7 DEF Dispatch, Acts
  <2>2. RowsAreNew' /\ NoOrphanWorktree'
    BY <1>2, <2>1 DEF IInv, RowsAreNew, NoOrphanWorktree, rowVars
  <2>3. AgentsAccounted'
    BY <2>1 DEF IInv, AgentsAccounted, RowsAreNew, rowVars
  <2>4. acts' \in 0..MaxActs
    BY <1>1, <2>1, FeedAssumption DEF TypeOK
  <2>5. TypeOK'
    BY <1>1, <1>2, <2>1, <2>4 DEF TypeOK, rowVars, epicRow
  <2> QED
    BY <1>3, <2>2, <2>3, <2>5, IInvKept
<1>8. ASSUME NEW r \in Rows, Provision(r) PROVE IInv'
  <2>1. /\ tree' = tree \cup {r} /\ r \in claimed
        /\ UNCHANGED <<epicRow, rowVars, claimed, recorded, synced, history>>
    BY <1>8 DEF Provision
  <2>2. RowsAreNew'
    BY <1>2, <2>1 DEF IInv, RowsAreNew, rowVars
  <2>3. AgentsAccounted' /\ NoOrphanWorktree'
    BY <1>2, <2>1 DEF IInv, AgentsAccounted, NoOrphanWorktree, rowVars, history
  <2>4. TypeOK'
    BY <1>1, <1>2, <1>5, <2>1 DEF TypeOK, rowVars, epicRow, history
  <2> QED
    BY <1>3, <2>2, <2>3, <2>4, IInvKept
<1>9. ASSUME NEW r \in Rows, RecordLaunch(r) PROVE IInv'
  <2>1. /\ claimed' = claimed \ {r} /\ r \in claimed /\ r \in tree
        /\ recorded' = recorded \cup {x \in {r} : at[x] # None}
        /\ UNCHANGED <<epicRow, rowVars, tree, synced, history>>
    BY <1>9 DEF RecordLaunch
  <2>2. RowsAreNew' /\ NoOrphanWorktree'
    BY <1>2, <2>1 DEF IInv, RowsAreNew, NoOrphanWorktree, rowVars, history
  <2>3. AgentsAccounted'
    BY <2>1 DEF IInv, AgentsAccounted, rowVars, history
  <2>4. TypeOK'
    BY <1>1, <1>2, <1>5, <2>1 DEF TypeOK, rowVars, epicRow, history
  <2> QED
    BY <1>3, <2>2, <2>3, <2>4, IInvKept
<1>10. ASSUME Toggle PROVE IInv'
  <2>1. /\ grouped' = ~grouped /\ ungrouped' = (ungrouped \/ grouped) /\ synced' = NoSync
        /\ acts' = acts + 1 /\ acts < MaxActs
        /\ UNCHANGED <<role, repoOf, rowVars, agents, touched, crossed>>
    BY <1>10 DEF Toggle, Acts
  <2>2. RowsAreNew' /\ NoOrphanWorktree' /\ AgentsAccounted'
    BY <1>2, <2>1 DEF IInv, RowsAreNew, NoOrphanWorktree, AgentsAccounted, rowVars, agents
  <2>3. acts' \in 0..MaxActs
    BY <1>1, <2>1, FeedAssumption DEF TypeOK
  <2>4. grouped' \in BOOLEAN /\ ungrouped' \in BOOLEAN
    BY <2>1, Zenon
  <2>5. TypeOK'
    BY <1>1, <1>2, <2>1, <2>3, <2>4 DEF TypeOK, NoSync, rowVars, agents
  <2> QED
    BY <1>3, <2>2, <2>5, IInvKept
<1> QED
  BY <1>6, <1>7, <1>8, <1>9, <1>10

-----------------------------------------------------------------------------
(* The theorems.                                                           *)

(* A settled epic satisfies the invariant.                                 *)
LEMMA InitIInv == Init => IInv
<1> SUFFICES ASSUME Init PROVE IInv
  OBVIOUS
<1>1. repoOf \in [Items -> Subs]
  BY DEF Init
<1>2. /\ Bare("idle") \in CycleStates /\ Bare("idle").step = "idle"
      /\ Bare("idle").removed = {} /\ Bare("idle").upserts = {}
  BY <1>1 DEF Bare, CycleStates, Steps
<1>3. cyc \in [Cycles -> CycleStates] /\ \A c \in Cycles : cyc[c] = Bare("idle")
  BY <1>2 DEF Init
<1>4. inflight = FALSE /\ \A c \in Cycles : cyc[c].step \in Over
  BY <1>2, <1>3 DEF Init, Over
<1>5. Guard
  BY <1>4, Zenon DEF Guard
<1>6. PICK where \in [Items -> Subtree \cup {None}] :
        /\ at = [r \in Rows |-> IF r[2] = 1 THEN where[Item(r)] ELSE None]
        /\ used = {r \in Rows : r[2] = 1 /\ where[Item(r)] # None}
  BY DEF Init
<1>7. at \in [Rows -> Epics \cup {None}] /\ used \subseteq Rows
  <2>1. \A r \in Rows : where[Item(r)] \in Epics \cup {None}
    BY <1>6 DEF Rows, Item, Epics
  <2> QED
    BY <1>6, <2>1
<1>8. RowsAreNew
  BY <1>2, <1>3, <1>6 DEF RowsAreNew
<1>9. CycleShape
  BY <1>2, <1>3 DEF CycleShape, Shape
<1>10. AgentsAccounted /\ NoOrphanWorktree
  BY DEF Init, AgentsAccounted, NoOrphanWorktree
<1>11. TypeOK
  <2>1. claimed = {} /\ tree = {} /\ recorded = {} /\ touched = {} /\ crossed = {} /\ acts = 0
    BY DEF Init
  <2>2. acts \in 0..MaxActs
    BY <2>1, FeedAssumption
  <2>3. role \in Roles /\ grouped \in BOOLEAN /\ inflight \in BOOLEAN /\ ungrouped \in BOOLEAN
    BY DEF Init
  <2>4. synced \in [clean : BOOLEAN, additive : BOOLEAN, items : SUBSET Items]
    BY DEF Init, NoSync
  <2> QED
    BY <1>1, <1>3, <1>7, <2>1, <2>2, <2>3, <2>4 DEF TypeOK, CycleStates
<1> QED
  BY <1>5, <1>8, <1>9, <1>10, <1>11 DEF IInv, GuardIsHeld, Guard

(* Every step keeps the invariant.                                         *)
LEMMA NextIInv == IInv /\ [Next]_vars => IInv'
<1> SUFFICES ASSUME IInv, [Next]_vars PROVE IInv'
  OBVIOUS
<1>1. CASE UNCHANGED vars
  BY <1>1 DEF vars, epicRow, rowVars, agents, history, IInv, GuardIsHeld, TypeOK, CycleShape,
     RowsAreNew, AgentsAccounted, NoOrphanWorktree
<1>2. ASSUME NEW c \in Cycles, Claim(c) \/ Busy(c) \/ Work(c) PROVE IInv'
  BY <1>2, Claims, Fetches, PassesOn, Moves, Upserts, Sweeps, TearsDown DEF Work
<1>3. CASE \/ \E r \in Rows : \/ \E e \in Epics : UserMoves(r, e)
                              \/ Dispatch(r) \/ Provision(r) \/ RecordLaunch(r)
           \/ Toggle
  BY <1>3, UserActs
<1> QED
  BY <1>1, <1>2, <1>3 DEF Next

(* The invariant holds of every behaviour.                               *)
LEMMA IInvHolds == Spec => []IInv
BY InitIInv, NextIInv, PTL DEF Spec

(* The state is well formed, at most one cycle of the epic is past its     *)
(* claim, and the guard is free whenever none is, whichever way the last   *)
(* one ended (FeedSyncGuard, run_feed_cycle).                              *)
THEOREM GuardCorrect == Spec => []GuardIsHeld
<1>1. IInv => GuardIsHeld
  BY DEF IInv
<1> QED
  BY <1>1, IInvHolds, PTL

(* Every worktree has a live row, is about to be torn down, or was crossed *)
(* by a delete under its dispatch or a teardown that failed, whatever the  *)
(* cycles delete (cleanup_removed_feed_tasks).                             *)
THEOREM NoWorktreeOrphaned == Spec => []NoOrphanWorktree
<1>1. IInv => NoOrphanWorktree
  BY DEF IInv
<1> QED
  BY <1>1, IInvHolds, PTL

-----------------------------------------------------------------------------
(* The mirror.  What holds while a cycle works is stated per stage: the    *)
(* course it set when it fetched, and how much of the board is already as  *)
(* the emission says.                                                      *)

Reviews == role = "reviews_parent"
Live(r) == at[r] # None
Calm(r) == Item(r) \notin touched
Working(c) == cyc[c].step \notin Over

(* The unique index: one row of an item in an epic.                        *)
Unique == \A r, s \in Rows : Live(r) /\ Item(r) = Item(s) /\ at[r] = at[s] => r = s

(* Where a row the user never moved may be.                                *)
PlacedRow(r) ==
    /\ Reviews => at[r] \in Subtree /\ \A s \in Rows : Live(s) /\ Item(s) = Item(r) => s = r
    /\ ~Reviews => at[r] \in {Parent, repoOf[Item(r)]} /\ (at[r] \in Subs => grouped)
Placed == ~ungrouped => \A r \in Rows : Live(r) /\ Calm(r) => PlacedRow(r)

(* The epic in which the cycle leaves the item.                            *)
Target(q, i) == IF q.how = "flat" THEN Parent ELSE q.to[i]

(* What the cycle means to do, whatever the board becomes.                 *)
Strategy(q) ==
    /\ q.how = "routed" <=> Reviews
    /\ q.how # "routed" => q.to = repoOf /\ q.moves = {}
    /\ q.how = "grouped" => grouped \/ ungrouped
WritesTargets(q) ==
    /\ \A e \in q.upserts : (q.how = "flat" /\ e = Parent) \/ \E i \in q.items : e = Target(q, i)
    /\ q.step = "moves" => \A i \in q.items : Target(q, i) \in q.upserts
    /\ q.step = "moves" /\ q.how = "flat" => Parent \in q.upserts
    /\ \A m \in q.moves : Item(m[1]) \in q.items /\ m[2] = q.to[Item(m[1])]
ClearsTheRest(q) ==
    /\ q.absent \subseteq Subs /\ \A i \in q.items : q.to[i] \notin q.absent
    /\ q.additive \/ q.how # "grouped" => q.absent = {}
    /\ q.step = "moves" /\ q.how = "grouped" /\ ~q.additive => Subs \subseteq q.upserts \cup q.absent
Stage(q) ==
    /\ q.step \in {"absent", "stale", "clear", "teardown"} => q.upserts = {}
    /\ q.step = "absent" => q.how = "grouped" /\ ~q.additive
    /\ q.step = "stale" => q.how = "routed" /\ ~q.additive
    /\ q.step = "clear" => q.how # "flat" /\ ~q.additive
    /\ q.step \in {"clear", "teardown"} => q.absent = {}
Course(q) == Strategy(q) /\ WritesTargets(q) /\ ClearsTheRest(q) /\ Stage(q)

(* What the board already shows of the emission, for untouched items.      *)
AllAtParent == \A r \in Rows : Live(r) /\ Calm(r) => at[r] = Parent
Moving(q) ==
    /\ \A r \in Rows : Live(r) /\ Calm(r) /\ Item(r) \in q.items /\ at[r] # q.to[Item(r)] =>
         <<r, q.to[Item(r)]>> \in q.moves
    /\ \A m \in q.moves : Calm(m[1]) => at[m[1]] \notin {None, m[2]}
Moved(q) == \A r \in Rows : Live(r) /\ Calm(r) /\ Item(r) \in q.items => at[r] = q.to[Item(r)]
Written(q) == \A i \in q.items \ touched : Target(q, i) \notin q.upserts => Holds(Target(q, i), i)
Untold(q, r) == Live(r) /\ Calm(r) /\ Item(r) \notin q.items
Pruned(q) ==
    /\ \A r \in Rows : Untold(q, r) =>
         /\ q.how = "flat" => Parent \in q.upserts
         /\ q.how = "grouped" => at[r] \in q.upserts \cup q.absent \cup {Parent}
         /\ q.how = "routed" /\ q.step \in {"clear", "teardown"} => at[r] \notin Subs
    /\ q.step = "teardown" /\ q.how # "flat" => \A r \in Rows : Calm(r) => at[r] # Parent
Progress(q) ==
    /\ q.how = "flat" => AllAtParent
    /\ q.how = "routed" /\ q.step = "moves" => Moving(q)
    /\ q.how = "routed" /\ q.step \notin {"fetch", "moves"} => Moved(q)
    /\ q.step \notin {"fetch", "moves"} /\ q.clean => Written(q) /\ (q.additive \/ Pruned(q))

(* FeedIsMirrored for one item, in terms of its rows.                      *)
ItsRow(i, r) == r \in RowsAt(Subtree) /\ Item(r) = i
Settled(i) ==
    IF i \in synced.items
      THEN \E r \in Rows : /\ ItsRow(i, r)
                           /\ synced.additive \/ \A s \in Rows : ItsRow(i, s) => s = r
      ELSE synced.additive \/ \A r \in Rows : ~ItsRow(i, r)

OnCourse(c) == Course(cyc[c]) /\ (ungrouped \/ Progress(cyc[c])) /\ synced = NoSync
BoardSettled == synced.clean /\ ~ungrouped => \A i \in Items \ touched : Settled(i)
MirrorInv ==
    /\ Reviews => ~ungrouped
    /\ Unique /\ Placed
    /\ \A c \in Cycles : Working(c) => OnCourse(c)
    /\ BoardSettled
    /\ CollisionNeedsAUser

(* What a step of a working cycle changes of the cycles: its own record.   *)
LEMMA OnlyThisOne ==
    ASSUME IInv, NEW c \in Cycles, Working(c) \/ ~inflight, NEW q \in CycleStates, Put(c, q)
    PROVE  /\ cyc'[c] = q
           /\ \A d \in Cycles \ {c} : cyc'[d] = cyc[d] /\ cyc[d].step \in Over
<1>1. cyc'[c] = q /\ \A d \in Cycles \ {c} : cyc'[d] = cyc[d]
  BY OfACycle, PutOneCycle
<1>2. \A d \in Cycles \ {c} : cyc[d].step \in Over
  <2>1. CASE Working(c)
    BY <2>1 DEF IInv, GuardIsHeld, Working
  <2>2. CASE ~inflight
    BY <2>2, Zenon DEF IInv, GuardIsHeld
  <2> QED
    BY <2>1, <2>2
<1> QED
  BY <1>1, <1>2

(* A cycle that goes on: what it leaves to show.                           *)
LEMMA MirrorAdvances ==
    ASSUME IInv, MirrorInv, NEW c \in Cycles, Working(c) \/ ~inflight,
           NEW q \in CycleStates, Put(c, q), q.step \notin Over,
           Unique', Placed', Course(cyc[c])', ungrouped \/ Progress(cyc[c])',
           UNCHANGED <<epicRow, touched, ungrouped>>, synced' = NoSync
    PROVE  MirrorInv'
<1>1. cyc'[c] = q /\ \A d \in Cycles \ {c} : cyc'[d] = cyc[d] /\ cyc[d].step \in Over
  BY OnlyThisOne
<1>2. \A d \in Cycles : Working(d)' => d = c
  BY <1>1 DEF Working
<1>3. \A d \in Cycles : Working(d)' => OnCourse(d)'
  BY <1>2 DEF OnCourse, NoSync
<1>4. BoardSettled'
  BY DEF BoardSettled, NoSync
<1>5. CollisionNeedsAUser'
  BY <1>1 DEF MirrorInv, CollisionNeedsAUser, At, Over
<1>6. Reviews' => ~ungrouped'
  BY DEF MirrorInv, Reviews, epicRow
<1> QED
  BY <1>3, <1>4, <1>5, <1>6 DEF MirrorInv

(* A cycle that is over: what it leaves to show.                           *)
LEMMA MirrorEnds ==
    ASSUME IInv, MirrorInv, NEW c \in Cycles, NEW step \in Over, Put(c, Bare(step)),
           step = "collided" => touched # {} \/ ungrouped, BoardSettled',
           UNCHANGED <<epicRow, at, touched, ungrouped>>,
           UNCHANGED synced \/ Working(c)
    PROVE  MirrorInv'
<1>1. Bare(step) \in CycleStates /\ Bare(step).step = step
  BY OfACycle, BareIsACycle, Constants
<1>2. cyc'[c] = Bare(step) /\ \A d \in Cycles \ {c} : cyc'[d] = cyc[d]
  BY <1>1, OfACycle, PutOneCycle
<1>3. CollisionNeedsAUser'
  BY <1>1, <1>2 DEF MirrorInv, CollisionNeedsAUser, At
<1>4. ASSUME NEW d \in Cycles, Working(d)' PROVE OnCourse(d)'
  <2>1. d # c /\ cyc'[d] = cyc[d] /\ Working(d)
    BY <1>1, <1>2, <1>4 DEF Working
  <2>2. OnCourse(d)
    BY <2>1 DEF MirrorInv
  <2>3. UNCHANGED synced
    BY <2>1 DEF IInv, GuardIsHeld, Working
  <2> QED
    BY <2>1, <2>2, <2>3 DEF OnCourse, Course, Strategy, WritesTargets, ClearsTheRest, Stage, Progress,
       AllAtParent, Moving, Moved, Written, Pruned, Untold, Holds, RowsAt, Live, Calm, Target, Reviews,
       epicRow, NoSync
<1>5. Unique' /\ Placed' /\ (Reviews' => ~ungrouped')
  BY DEF MirrorInv, Unique, Placed, PlacedRow, Live, Calm, Reviews, epicRow
<1> QED
  BY <1>3, <1>4, <1>5 DEF MirrorInv

(* What the invariants say of a working cycle.                             *)
LEMMA OfAWorkingCycle ==
    ASSUME IInv, MirrorInv, NEW c \in Cycles, Working(c)
    PROVE  /\ TypeOK /\ Shape(cyc[c]) /\ cyc[c] \in CycleStates
           /\ Course(cyc[c]) /\ (ungrouped \/ Progress(cyc[c])) /\ synced = NoSync
           /\ Unique /\ Placed /\ (Reviews => ~ungrouped)
BY OfACycle DEF MirrorInv, OnCourse

(* A cycle that starts on a settled board.                                 *)
LEMMA ClaimMirrors ==
    ASSUME IInv, MirrorInv, NEW c \in Cycles, Claim(c) \/ Busy(c)
    PROVE  MirrorInv'
<1>1. TypeOK /\ cyc[c].step = "idle"
  BY OfACycle DEF Claim, Busy, At
<1>2. ASSUME Busy(c) PROVE MirrorInv'
  <2>1. Put(c, Bare("ended")) /\ UNCHANGED <<epicRow, at, touched, ungrouped, synced>>
    BY <1>2 DEF Busy, rowVars, history
  <2>2. BoardSettled'
    BY <2>1 DEF MirrorInv, BoardSettled, Settled, ItsRow, RowsAt
  <2> QED
    BY <2>1, <2>2, MirrorEnds DEF Over
<1>3. ASSUME Claim(c) PROVE MirrorInv'
  <2> DEFINE how == IF role = "reviews_parent" THEN "routed" ELSE IF grouped THEN "grouped" ELSE "flat"
             q == [Bare("fetch") EXCEPT !.how = how]
  <2>1. Put(c, q) /\ ~inflight /\ synced' = NoSync
    BY <1>3 DEF Claim
  <2>2. UNCHANGED <<epicRow, at, touched, ungrouped>>
    BY <1>3 DEF Claim, rowVars, history
  <2>3. /\ q \in CycleStates /\ q.step = "fetch" /\ q.how = how /\ q.upserts = {}
        /\ q.items = {} /\ q.to = repoOf /\ q.moves = {} /\ q.absent = {}
    BY <1>1 DEF Bare, CycleStates, TypeOK, Steps
  <2>4. /\ how = "routed" <=> Reviews
        /\ how = "grouped" => grouped
        /\ how = "flat" => ~Reviews /\ ~grouped
    BY DEF Reviews
  <2> HIDE DEF how, q
  <2>5. cyc'[c] = q
    BY <2>1, <2>3, OnlyThisOne
  <2>6. Course(cyc[c])'
    BY <2>2, <2>3, <2>4, <2>5 DEF Course, Strategy, WritesTargets, ClearsTheRest, Stage, Reviews, epicRow
  <2>7. ungrouped \/ how # "flat" \/ AllAtParent
    <3> SUFFICES ASSUME ~ungrouped, how = "flat", NEW r \in Rows, Live(r), Calm(r)
                 PROVE  at[r] = Parent
      BY DEF AllAtParent
    <3>1. at[r] \in {Parent, repoOf[Item(r)]} /\ at[r] \notin Subs
      BY <2>4 DEF MirrorInv, Placed, PlacedRow
    <3>2. repoOf[Item(r)] \in Subs
      BY <1>1 DEF TypeOK, Rows, Item
    <3> QED
      BY <3>1, <3>2
  <2>8. ungrouped \/ Progress(cyc[c])'
    BY <2>2, <2>3, <2>5, <2>7 DEF Progress, AllAtParent, Live, Calm
  <2>9. Unique' /\ Placed'
    BY <2>2 DEF MirrorInv, Unique, Placed, PlacedRow, Live, Calm, Reviews, epicRow
  <2> QED
    BY <2>1, <2>2, <2>3, <2>6, <2>8, <2>9, MirrorAdvances DEF Over
<1> QED
  BY <1>2, <1>3

(* A present row of an untouched item is the one the index of the moves    *)
(* finds, when no other row has its item.                                  *)
LEMMA OnlyRowIsIndexed ==
    ASSUME NEW r \in Rows, at[r] \in Subtree,
           \A s \in Rows : Live(s) /\ Item(s) = Item(r) => s = r
    PROVE  r \in Indexed(Item(r))
<1> DEFINE found(e) == {s \in RowsAt({e}) : Item(s) = Item(r)}
<1>1. \A e \in Subtree : e # None
  BY FeedAssumption DEF Epics
<1>2. \A e \in Subtree : \A s \in found(e) : s = r
  BY <1>1 DEF RowsAt, Live
<1>3. r \in found(at[r])
  BY DEF RowsAt
<1>4. at[r] \in {Team, My, Parent}
  BY DEF Subtree, Subs
<1>5. Indexed(Item(r)) = IF found(Team) # {} THEN found(Team)
                         ELSE IF found(My) # {} THEN found(My) ELSE found(Parent)
  BY DEF Indexed
<1>6. {Team, My, Parent} \subseteq Subtree
  BY DEF Subtree, Subs
<1> HIDE DEF found
<1> QED
  BY <1>2, <1>3, <1>4, <1>5, <1>6

(* What is fetched sets the course.                                        *)
LEMMA FetchMirrors ==
    ASSUME IInv, MirrorInv, NEW c \in Cycles, FetchFails(c) \/ Fetch(c)
    PROVE  MirrorInv'
<1>1. cyc[c].step = "fetch" /\ Working(c)
  BY DEF FetchFails, Fetch, At, Working, Over
<1>2. /\ TypeOK /\ Shape(cyc[c]) /\ cyc[c] \in CycleStates
      /\ Course(cyc[c]) /\ (ungrouped \/ Progress(cyc[c])) /\ synced = NoSync
      /\ Unique /\ Placed /\ (Reviews => ~ungrouped)
  BY <1>1, OfAWorkingCycle
<1>3. /\ UNCHANGED <<epicRow, at, touched, ungrouped, synced>>
  BY DEF FetchFails, Fetch, rowVars, history
<1>4. Unique' /\ Placed'
  BY <1>2, <1>3 DEF Unique, Placed, PlacedRow, Live, Calm, Reviews, epicRow
<1>5. ASSUME FetchFails(c) PROVE MirrorInv'
  <2>1. Put(c, Bare("ended"))
    BY <1>5 DEF FetchFails, End
  <2>2. BoardSettled'
    BY <1>2, <1>3 DEF BoardSettled, NoSync
  <2> QED
    BY <1>3, <2>1, <2>2, MirrorEnds DEF Over
<1>6. ASSUME Fetch(c) PROVE MirrorInv'
  <2>1. PICK items \in SUBSET Items, additive \in BOOLEAN,
             to \in (IF At(c, "fetch") /\ cyc[c].how = "routed" THEN [Items -> Subs] ELSE {repoOf}) :
          /\ additive => items # {}
          /\ Put(c, [cyc[c] EXCEPT !.step = "moves", !.items = items, !.additive = additive,
               !.to = to,
               !.moves = IF cyc[c].how # "routed" THEN {}
                         ELSE {m \in Rows \X Subs :
                                 /\ Item(m[1]) \in items /\ m[1] \in Indexed(Item(m[1]))
                                 /\ m[2] = to[Item(m[1])] /\ at[m[1]] # m[2]},
               !.upserts = IF cyc[c].how = "flat" THEN {Parent} ELSE {to[i] : i \in items},
               !.absent = IF cyc[c].how = "grouped" /\ ~additive
                            THEN Subs \ {to[i] : i \in items} ELSE {}])
    BY <1>6 DEF Fetch
  <2> DEFINE moves == IF cyc[c].how # "routed" THEN {}
                      ELSE {m \in Rows \X Subs :
                              /\ Item(m[1]) \in items /\ m[1] \in Indexed(Item(m[1]))
                              /\ m[2] = to[Item(m[1])] /\ at[m[1]] # m[2]}
             upserts == IF cyc[c].how = "flat" THEN {Parent} ELSE {to[i] : i \in items}
             absent == IF cyc[c].how = "grouped" /\ ~additive
                         THEN Subs \ {to[i] : i \in items} ELSE {}
             q == [cyc[c] EXCEPT !.step = "moves", !.items = items, !.additive = additive,
                     !.to = to, !.moves = moves, !.upserts = upserts, !.absent = absent]
  <2>2. to \in [Items -> Subs] /\ (cyc[c].how # "routed" => to = repoOf)
    BY <1>2, <2>1 DEF TypeOK
  <2>3. Put(c, q)
    BY <2>1
  <2>4. /\ moves \subseteq Rows \X Epics
        /\ cyc[c].how # "routed" => moves = {}
        /\ \A m \in moves : Item(m[1]) \in items /\ m[2] = to[Item(m[1])] /\ at[m[1]] # m[2]
    BY Constants
  <2>5. \A m \in moves : at[m[1]] # None
    <3>1. \A i \in Items : \A r \in Indexed(i) : at[r] \in Subtree
      BY DEF Indexed, RowsAt, Subtree, Subs
    <3>2. \A m \in moves : m[1] \in Indexed(Item(m[1])) /\ Item(m[1]) \in Items
      OBVIOUS
    <3> HIDE DEF moves
    <3> QED
      BY <3>1, <3>2, FeedAssumption DEF Epics
  <2>6. ungrouped \/ cyc[c].how # "routed" \/
          \A r \in Rows : Live(r) /\ Calm(r) /\ Item(r) \in items /\ at[r] # to[Item(r)] =>
            <<r, to[Item(r)]>> \in moves
    <3> SUFFICES ASSUME ~ungrouped, cyc[c].how = "routed", NEW r \in Rows, Live(r), Calm(r),
                        Item(r) \in items, at[r] # to[Item(r)]
                 PROVE  <<r, to[Item(r)]>> \in moves
      OBVIOUS
    <3>1. at[r] \in Subtree /\ \A s \in Rows : Live(s) /\ Item(s) = Item(r) => s = r
      BY <1>2 DEF Course, Strategy, Placed, PlacedRow
    <3>2. r \in Indexed(Item(r))
      BY <3>1, OnlyRowIsIndexed
    <3>3. to[Item(r)] \in Subs
      BY <2>2
    <3> QED
      BY <3>2, <3>3
  <2>7. /\ cyc[c].how = "flat" => upserts = {Parent}
        /\ cyc[c].how # "flat" => upserts = {to[i] : i \in items}
        /\ upserts \subseteq Epics
    BY <2>2, Constants
  <2>8. /\ absent \subseteq Subs /\ \A i \in items : to[i] \notin absent
        /\ additive \/ cyc[c].how # "grouped" => absent = {}
        /\ cyc[c].how = "grouped" /\ ~additive => absent = Subs \ {to[i] : i \in items}
    OBVIOUS
  <2> HIDE DEF moves, upserts, absent
  <2>9. /\ q \in CycleStates /\ q.step = "moves" /\ q.how = cyc[c].how /\ q.items = items
        /\ q.additive = additive /\ q.to = to /\ q.moves = moves /\ q.upserts = upserts
        /\ q.absent = absent
    BY <1>2, <2>2, <2>4, <2>7, <2>8, Constants DEF CycleStates, Steps
  <2> HIDE DEF q
  <2>10. cyc'[c] = q
    BY <1>1, <2>3, <2>9, OnlyThisOne
  <2>11. Course(cyc[c])'
    <3>1. Strategy(cyc[c])'
      BY <1>2, <1>3, <2>2, <2>4, <2>9, <2>10 DEF Course, Strategy, Reviews, epicRow
    <3>2. WritesTargets(cyc[c])'
      BY <2>4, <2>7, <2>9, <2>10 DEF WritesTargets, Target
    <3>3. ClearsTheRest(cyc[c])'
      BY <2>7, <2>8, <2>9, <2>10 DEF ClearsTheRest
    <3>4. Stage(cyc[c])'
      BY <2>9, <2>10 DEF Stage
    <3> QED
      BY <3>1, <3>2, <3>3, <3>4 DEF Course
  <2>12. ungrouped \/ Progress(cyc[c])'
    BY <1>2, <1>3, <2>4, <2>5, <2>6, <2>9, <2>10 DEF Progress, AllAtParent, Moving, Live, Calm
  <2> QED
    BY <1>1, <1>2, <1>3, <1>4, <2>3, <2>9, <2>11, <2>12, MirrorAdvances DEF Over
<1> QED
  BY <1>5, <1>6

(* An untouched row is moved where the emission sends it, and its move     *)
(* collides with nothing.                                                  *)
LEMMA MoveMirrors ==
    ASSUME IInv, MirrorInv, NEW c \in Cycles, ApplyMove(c)
    PROVE  MirrorInv'
<1>1. cyc[c].step = "moves" /\ Working(c)
  BY DEF ApplyMove, At, Working, Over
<1>2. /\ TypeOK /\ Shape(cyc[c]) /\ cyc[c] \in CycleStates
      /\ Course(cyc[c]) /\ (ungrouped \/ Progress(cyc[c])) /\ synced = NoSync
      /\ Unique /\ Placed /\ (Reviews => ~ungrouped)
  BY <1>1, OfAWorkingCycle
<1>3. PICK m \in cyc[c].moves :
        IF at[m[1]] = None \/ Holds(m[2], Item(m[1]))
          THEN End(c, "collided") /\ UNCHANGED at
          ELSE /\ at' = [at EXCEPT ![m[1]] = m[2]]
               /\ Put(c, [cyc[c] EXCEPT !.moves = @ \ {m}]) /\ UNCHANGED inflight
  BY DEF ApplyMove
<1>4. UNCHANGED <<epicRow, synced, touched, ungrouped>>
  BY DEF ApplyMove, history
<1>5. /\ m[1] \in Rows /\ m[2] \in Epics /\ m = <<m[1], m[2]>> /\ Item(m[1]) \in cyc[c].items
      /\ m[2] = cyc[c].to[Item(m[1])] /\ m[2] \in Subs /\ cyc[c].how = "routed"
  BY <1>2 DEF CycleStates, Course, Strategy, WritesTargets
<1>6. Reviews /\ ~ungrouped /\ Moving(cyc[c])
  BY <1>1, <1>2, <1>5 DEF Course, Strategy, Progress
<1>7. CASE at[m[1]] = None \/ Holds(m[2], Item(m[1]))
  <2>1. Put(c, Bare("collided")) /\ UNCHANGED at
    BY <1>3, <1>7 DEF End
  <2>2. ~Calm(m[1])
    <3>1. SUFFICES ASSUME Calm(m[1]) PROVE FALSE
      OBVIOUS
    <3>2. at[m[1]] # None /\ at[m[1]] # m[2]
      BY <1>6, <3>1 DEF Moving
    <3>3. PICK s \in Rows : at[s] = m[2] /\ Item(s) = Item(m[1])
      BY <1>7, <3>2 DEF Holds, RowsAt
    <3>4. s = m[1]
      BY <1>2, <1>5, <1>6, <3>1, <3>2, <3>3, Constants DEF Placed, PlacedRow, Live
    <3> QED
      BY <3>2, <3>3, <3>4
  <2>3. touched # {}
    BY <2>2 DEF Calm
  <2>4. BoardSettled'
    BY <1>2, <1>4 DEF BoardSettled, NoSync
  <2> QED
    BY <1>1, <1>4, <2>1, <2>3, <2>4, MirrorEnds DEF Over
<1>8. CASE ~(at[m[1]] = None \/ Holds(m[2], Item(m[1])))
  <2> DEFINE q == [cyc[c] EXCEPT !.moves = @ \ {m}]
  <2>1. at' = [at EXCEPT ![m[1]] = m[2]] /\ Put(c, q) /\ at[m[1]] # None
    BY <1>3, <1>8
  <2>2. /\ q \in CycleStates /\ q.step = "moves" /\ q.how = cyc[c].how /\ q.items = cyc[c].items
        /\ q.additive = cyc[c].additive /\ q.to = cyc[c].to /\ q.moves = cyc[c].moves \ {m}
        /\ q.upserts = cyc[c].upserts /\ q.absent = cyc[c].absent
    BY <1>1, <1>2 DEF CycleStates
  <2> HIDE DEF q
  <2>3. cyc'[c] = q
    BY <1>1, <2>1, <2>2, OnlyThisOne
  <2>4. /\ at'[m[1]] = m[2] /\ \A r \in Rows \ {m[1]} : at'[r] = at[r]
        /\ \A r \in Rows : at'[r] = None <=> at[r] = None
    BY <1>2, <1>5, <2>1, Constants DEF TypeOK
  <2>5. \A s \in Rows : at[s] = m[2] => Item(s) # Item(m[1])
    BY <1>8 DEF Holds, RowsAt
  <2>6. Unique'
    <3> SUFFICES ASSUME NEW r \in Rows, NEW s \in Rows, at'[r] # None, Item(r) = Item(s),
                        at'[r] = at'[s]
                 PROVE  r = s
      BY DEF Unique, Live
    <3> QED
      BY <1>2, <2>4, <2>5 DEF Unique, Live
  <2>7. Placed'
    <3> SUFFICES ASSUME NEW r \in Rows, at[r] # None, Calm(r) PROVE PlacedRow(r)'
      BY <1>4, <2>4 DEF Placed, Live, Calm
    <3>1. at[r] \in Subtree /\ \A s \in Rows : Live(s) /\ Item(s) = Item(r) => s = r
      BY <1>2, <1>6 DEF Placed, PlacedRow, Live
    <3>2. at'[r] \in Subtree
      BY <1>5, <2>4, <3>1 DEF Subtree
    <3> QED
      BY <1>4, <1>6, <2>4, <3>1, <3>2 DEF PlacedRow, Live, Reviews, epicRow
  <2>8. Course(cyc[c])'
    <3>1. Strategy(cyc[c])'
      BY <1>2, <1>4, <1>5, <2>2, <2>3 DEF Course, Strategy, Reviews, epicRow
    <3>2. WritesTargets(cyc[c])'
      <4>1. \A n \in q.moves : Item(n[1]) \in q.items /\ n[2] = q.to[Item(n[1])]
        BY <1>2, <2>2 DEF Course, WritesTargets
      <4>2. /\ \A e \in q.upserts : (q.how = "flat" /\ e = Parent) \/ \E i \in q.items : e = Target(q, i)
            /\ \A i \in q.items : Target(q, i) \in q.upserts
        BY <1>1, <1>2, <2>2 DEF Course, WritesTargets, Target
      <4> QED
        BY <1>5, <2>2, <2>3, <4>1, <4>2 DEF WritesTargets, Target
    <3>3. ClearsTheRest(cyc[c])' /\ Stage(cyc[c])'
      BY <1>1, <1>2, <2>2, <2>3 DEF Course, ClearsTheRest, Stage
    <3> QED
      BY <3>1, <3>2, <3>3 DEF Course
  <2>9. Moving(cyc[c])'
    <3>1. ASSUME NEW r \in Rows, at[r] # None, Calm(r), Item(r) \in q.items, at'[r] # q.to[Item(r)]
          PROVE  <<r, q.to[Item(r)]>> \in q.moves
      <4>1. r # m[1]
        BY <1>5, <2>2, <2>4, <3>1
      <4>2. <<r, q.to[Item(r)]>> \in cyc[c].moves
        BY <1>6, <2>2, <2>4, <3>1, <4>1 DEF Moving, Live
      <4>3. <<r, q.to[Item(r)]>> # m
        BY <1>5, <4>1
      <4> QED
        BY <2>2, <4>2, <4>3
    <3>2. ASSUME NEW n \in q.moves, Calm(n[1]) PROVE at'[n[1]] \notin {None, n[2]}
      <4>1. /\ n \in cyc[c].moves /\ n # m /\ n = <<n[1], n[2]>> /\ n[1] \in Rows
            /\ n[2] = cyc[c].to[Item(n[1])]
        BY <1>2, <2>2, <3>2 DEF CycleStates, Course, WritesTargets
      <4>2. n[1] # m[1]
        BY <1>5, <4>1
      <4> QED
        BY <1>6, <2>4, <3>2, <4>1, <4>2 DEF Moving
    <3> QED
      BY <1>4, <2>3, <2>4, <3>1, <3>2 DEF Moving, Live, Calm
  <2>10. Progress(cyc[c])'
    BY <1>5, <2>2, <2>3, <2>9 DEF Progress
  <2> QED
    BY <1>1, <1>2, <1>4, <2>1, <2>2, <2>6, <2>7, <2>8, <2>10, MirrorAdvances DEF Over
<1> QED
  BY <1>7, <1>8

(* From one stage to the next, with the board as it is.                    *)
LEMMA PassMirrors ==
    ASSUME IInv, MirrorInv, NEW c \in Cycles, Routed(c) \/ Upserted(c) \/ UpsertFails(c)
    PROVE  MirrorInv'
<1>1. Working(c)
  BY DEF Routed, Upserted, UpsertFails, At, Working, Over
<1>2. /\ TypeOK /\ Shape(cyc[c]) /\ cyc[c] \in CycleStates
      /\ Course(cyc[c]) /\ (ungrouped \/ Progress(cyc[c])) /\ synced = NoSync
      /\ Unique /\ Placed /\ (Reviews => ~ungrouped)
  BY <1>1, OfAWorkingCycle
<1>3. UNCHANGED <<epicRow, at, synced, touched, ungrouped>>
  BY DEF Routed, Upserted, UpsertFails, rowVars, history
<1>4. Unique' /\ Placed'
  BY <1>2, <1>3 DEF Unique, Placed, PlacedRow, Live, Calm, Reviews, epicRow
<1>5. \A i \in cyc[c].items : cyc[c].to[i] \in Subs
  BY <1>2 DEF CycleStates
<1>6. ASSUME Routed(c) PROVE MirrorInv'
  <2> DEFINE q == [cyc[c] EXCEPT !.step = "upserts"]
  <2>1. Put(c, q) /\ cyc[c].step = "moves" /\ cyc[c].moves = {}
    BY <1>6 DEF Routed, At
  <2>2. /\ q \in CycleStates /\ q.step = "upserts" /\ q.how = cyc[c].how /\ q.items = cyc[c].items
        /\ q.additive = cyc[c].additive /\ q.to = cyc[c].to /\ q.moves = {}
        /\ q.upserts = cyc[c].upserts /\ q.absent = cyc[c].absent /\ q.clean = cyc[c].clean
    BY <1>2, <2>1 DEF CycleStates, Steps
  <2> HIDE DEF q
  <2>3. cyc'[c] = q
    BY <1>1, <2>1, <2>2, OnlyThisOne
  <2>4. Course(cyc[c])'
    BY <1>2, <1>3, <2>1, <2>2, <2>3 DEF Course, Strategy, WritesTargets, ClearsTheRest, Stage, Target,
       Reviews, epicRow
  <2>5. ASSUME ~ungrouped PROVE Progress(cyc[c])'
    <3>1. cyc[c].how = "flat" => AllAtParent'
      BY <1>2, <1>3, <2>5 DEF Progress, AllAtParent, Live, Calm
    <3>2. cyc[c].how = "routed" => Moved(cyc[c])'
      BY <1>2, <1>3, <2>1, <2>2, <2>3, <2>5 DEF Progress, Moving, Moved, Live, Calm
    <3>3. Written(cyc[c])'
      BY <1>2, <2>1, <2>2, <2>3 DEF Course, WritesTargets, Written, Target
    <3>4. cyc[c].additive \/ Pruned(cyc[c])'
      <4> SUFFICES ASSUME ~cyc[c].additive, NEW r \in Rows, Live(r), Calm(r)
                   PROVE  /\ cyc[c].how = "flat" => Parent \in cyc[c].upserts
                          /\ cyc[c].how = "grouped" =>
                               at[r] \in cyc[c].upserts \cup cyc[c].absent \cup {Parent}
        BY <1>3, <2>2, <2>3 DEF Pruned, Untold, Live, Calm
      <4>1. repoOf[Item(r)] \in Subs
        BY <1>2 DEF TypeOK, Rows, Item
      <4> QED
        BY <1>2, <2>1, <2>5, <4>1 DEF Course, Strategy, WritesTargets, ClearsTheRest, Placed, PlacedRow
    <3> QED
      BY <2>2, <2>3, <3>1, <3>2, <3>3, <3>4 DEF Progress
  <2> QED
    BY <1>1, <1>2, <1>3, <1>4, <2>1, <2>2, <2>4, <2>5, MirrorAdvances DEF Over
<1>7. ASSUME Upserted(c) PROVE MirrorInv'
  <2> DEFINE q == [cyc[c] EXCEPT !.step = AfterUpserts(c)]
  <2>1. Put(c, q) /\ cyc[c].step = "upserts" /\ cyc[c].upserts = {}
    BY <1>7 DEF Upserted, At
  <2>2. /\ AfterUpserts(c) \in {"absent", "stale", "teardown"}
        /\ AfterUpserts(c) = "absent" => cyc[c].how = "grouped" /\ ~cyc[c].additive
        /\ AfterUpserts(c) = "stale" => cyc[c].how = "routed" /\ ~cyc[c].additive
        /\ AfterUpserts(c) = "teardown" => cyc[c].how = "flat" \/ cyc[c].additive
    BY <1>2 DEF AfterUpserts, CycleStates
  <2>3. /\ q \in CycleStates /\ q.step = AfterUpserts(c) /\ q.how = cyc[c].how
        /\ q.items = cyc[c].items /\ q.additive = cyc[c].additive /\ q.to = cyc[c].to
        /\ q.moves = cyc[c].moves /\ q.upserts = cyc[c].upserts
        /\ q.absent = cyc[c].absent /\ q.clean = cyc[c].clean
    BY <1>2, <2>2 DEF CycleStates, Steps
  <2> HIDE DEF q
  <2>4. cyc'[c] = q
    BY <1>1, <2>1, <2>3, OnlyThisOne
  <2>5. Course(cyc[c])'
    BY <1>2, <1>3, <2>1, <2>2, <2>3, <2>4 DEF Course, Strategy, WritesTargets, ClearsTheRest, Stage,
       Target, Reviews, epicRow
  <2>6. ASSUME ~ungrouped PROVE Progress(cyc[c])'
    <3>1. cyc[c].how = "flat" => AllAtParent'
      BY <1>2, <1>3, <2>6 DEF Progress, AllAtParent, Live, Calm
    <3>2. cyc[c].how = "routed" => Moved(cyc[c])'
      BY <1>2, <1>3, <2>1, <2>3, <2>4, <2>6 DEF Progress, Moved, Live, Calm
    <3>3. cyc[c].clean => Written(cyc[c]) /\ (cyc[c].additive \/ Pruned(cyc[c]))
      BY <1>2, <2>1, <2>6 DEF Progress
    <3>4. cyc[c].clean => Written(cyc[c])'
      BY <1>3, <2>3, <2>4, <3>3 DEF Written, Target, Holds, RowsAt
    <3>5. cyc[c].clean /\ ~cyc[c].additive => Pruned(cyc[c])'
      BY <1>3, <2>1, <2>2, <2>3, <2>4, <3>3 DEF Pruned, Untold, Live, Calm
    <3> QED
      BY <2>2, <2>3, <2>4, <3>1, <3>2, <3>4, <3>5 DEF Progress
  <2>7. q.step \notin Over
    BY <2>2, <2>3 DEF Over
  <2> QED
    BY <1>1, <1>2, <1>3, <1>4, <2>1, <2>3, <2>5, <2>6, <2>7, MirrorAdvances
<1>8. ASSUME UpsertFails(c) PROVE MirrorInv'
  <2>1. PICK e \in cyc[c].upserts :
          IF cyc[c].how = "flat" THEN End(c, "ended")
          ELSE /\ Put(c, [cyc[c] EXCEPT !.upserts = @ \ {e}, !.clean = FALSE])
               /\ UNCHANGED inflight
    BY <1>8 DEF UpsertFails
  <2>2. cyc[c].step = "upserts"
    BY <1>8 DEF UpsertFails, At
  <2>3. CASE cyc[c].how = "flat"
    <3>1. Put(c, Bare("ended"))
      BY <2>1, <2>3 DEF End
    <3>2. BoardSettled'
      BY <1>2, <1>3 DEF BoardSettled, NoSync
    <3> QED
      BY <1>3, <3>1, <3>2, MirrorEnds DEF Over
  <2>4. CASE cyc[c].how # "flat"
    <3> DEFINE q == [cyc[c] EXCEPT !.upserts = @ \ {e}, !.clean = FALSE]
    <3>1. Put(c, q)
      BY <2>1, <2>4
    <3>2. /\ q \in CycleStates /\ q.step = "upserts" /\ q.how = cyc[c].how
          /\ q.items = cyc[c].items /\ q.additive = cyc[c].additive /\ q.to = cyc[c].to
          /\ q.moves = cyc[c].moves /\ q.upserts \subseteq cyc[c].upserts
          /\ q.absent = cyc[c].absent /\ q.clean = FALSE
      BY <1>2, <2>2 DEF CycleStates
    <3> HIDE DEF q
    <3>3. cyc'[c] = q
      BY <1>1, <3>1, <3>2, OnlyThisOne
    <3>4. Course(cyc[c])'
      BY <1>2, <1>3, <2>4, <3>2, <3>3 DEF Course, Strategy, WritesTargets, ClearsTheRest, Stage,
         Target, Reviews, epicRow
    <3>5. ungrouped \/ Progress(cyc[c])'
      BY <1>2, <1>3, <2>2, <2>4, <3>2, <3>3 DEF Progress, Moved, Live, Calm
    <3> QED
      BY <1>1, <1>2, <1>3, <1>4, <3>1, <3>2, <3>4, <3>5, MirrorAdvances DEF Over
  <2> QED
    BY <2>3, <2>4
<1> QED
  BY <1>6, <1>7, <1>8

(* What the upsert of an epic inserts and deletes.                         *)
NewItems(c, e) == {i \in Group(c, e) : ~Holds(e, i)}
Born(c, e) == {NewRow(i) : i \in NewItems(c, e)}
Gone(c, e) ==
    IF cyc[c].additive THEN {} ELSE {r \in RowsAt({e}) : Item(r) \notin Group(c, e)}

(* One row for each item that had none there, and none of the others left. *)
LEMMA UpsertedRows ==
    ASSUME IInv, NEW c \in Cycles, NEW e \in Epics, Group(c, e) \subseteq Items,
           \A i \in NewItems(c, e) : \E k \in 1..MaxCopies : <<i, k>> \notin used,
           Delete(c, Gone(c, e), Born(c, e), e)
    PROVE  /\ Born(c, e) \subseteq Rows
           /\ \A r \in Born(c, e) : at[r] = None /\ at'[r] = e /\ Item(r) \in NewItems(c, e)
           /\ \A i \in NewItems(c, e) : \E r \in Born(c, e) : Item(r) = i
           /\ \A r, s \in Born(c, e) : Item(r) = Item(s) => r = s
           /\ \A r \in Gone(c, e) :
                at'[r] = None /\ at[r] = e /\ Item(r) \notin Group(c, e) /\ ~cyc[c].additive
           /\ \A r \in Rows : r \notin Gone(c, e) /\ r \notin Born(c, e) => at'[r] = at[r]
           /\ \A r \in Rows : at[r] = e /\ Item(r) \notin Group(c, e) =>
                cyc[c].additive \/ r \in Gone(c, e)
           /\ \A r \in Rows : at[r] = e => Item(r) \notin NewItems(c, e)
<1> DEFINE new == NewItems(c, e)
           born == Born(c, e)
           gone == Gone(c, e)
<1>1. ASSUME NEW i \in new PROVE NewRow(i) \in Rows \ used /\ Item(NewRow(i)) = i
  <2>1. NewRow(i) \in Rows \ used
    BY NewRowIsNew DEF NewItems
  <2> QED
    BY <2>1 DEF NewRow, Item
<1>2. /\ born \subseteq Rows
      /\ \A r \in born : r \notin used /\ \E i \in new : r = NewRow(i) /\ Item(r) = i
  BY <1>1 DEF Born
<1>3. \A i \in new : \E r \in born : Item(r) = i
  BY <1>1 DEF Born
<1>4. \A r \in born : at[r] = None
  BY <1>2 DEF IInv, RowsAreNew
<1>5. gone \subseteq Rows /\ \A r \in gone : at[r] = e /\ Item(r) \notin Group(c, e) /\ ~cyc[c].additive
  BY DEF RowsAt, Gone
<1>6. e # None
  BY Constants
<1>7. at' = [r \in Rows |-> IF r \in gone THEN None ELSE IF r \in born THEN e ELSE at[r]]
  BY DEF Delete
<1>8. \A r \in Rows : at[r] = e /\ Item(r) \notin Group(c, e) => cyc[c].additive \/ r \in gone
  BY DEF RowsAt, Gone
<1>9. \A r \in Rows : at[r] = e => Item(r) \notin new
  BY DEF RowsAt, Holds, NewItems
<1> HIDE DEF new, born, gone
<1>10. \A r, s \in born : Item(r) = Item(s) => r = s
  BY <1>2
<1>11. \A r \in born : at'[r] = e /\ Item(r) \in new
  BY <1>2, <1>4, <1>5, <1>6, <1>7
<1>12. /\ \A r \in gone : at'[r] = None
       /\ \A r \in Rows : r \notin gone /\ r \notin born => at'[r] = at[r]
  BY <1>5, <1>7
<1> QED
  BY <1>2, <1>3, <1>4, <1>5, <1>8, <1>9, <1>10, <1>11, <1>12 DEF new, born, gone

(* An upsert writes the rows its epic is the target of.                    *)
LEMMA GroupIsItsTargets ==
    ASSUME NEW c \in Cycles, cyc[c] \in CycleStates, Shape(cyc[c]), Course(cyc[c]),
           NEW e \in cyc[c].upserts
    PROVE  /\ Group(c, e) = {i \in cyc[c].items : Target(cyc[c], i) = e}
           /\ e \in Subtree /\ e \in Epics
           /\ e = Parent <=> cyc[c].how = "flat"
<1>1. \A i \in cyc[c].items : cyc[c].to[i] \in Subs
  BY DEF CycleStates
<1>2. e = Parent <=> cyc[c].how = "flat"
  BY DEF Shape, Course, WritesTargets, Target
<1>3. e \in Subtree
  BY <1>1 DEF Course, WritesTargets, Target, Subtree
<1>4. Group(c, e) = {i \in cyc[c].items : Target(cyc[c], i) = e}
  BY <1>1, <1>2, Constants DEF Group, Target
<1> QED
  BY <1>2, <1>3, <1>4 DEF Epics

(* The upsert aborts on a row that the user put in a sub-epic.             *)
LEMMA AbortMirrors ==
    ASSUME IInv, MirrorInv, NEW c \in Cycles, Working(c), NEW e \in cyc[c].upserts, Aborts(c, e),
           Put(c, Bare("collided")), UNCHANGED <<epicRow, at, synced, touched, ungrouped>>
    PROVE  MirrorInv'
<1>1. /\ TypeOK /\ Shape(cyc[c]) /\ cyc[c] \in CycleStates
      /\ Course(cyc[c]) /\ (ungrouped \/ Progress(cyc[c])) /\ synced = NoSync
  BY OfAWorkingCycle
<1>2. PICK i \in Group(c, e), s \in Subs : Holds(s, i)
  BY DEF Aborts
<1>3. PICK r \in Rows : at[r] = s /\ Item(r) = i
  BY <1>2 DEF Holds, RowsAt
<1>4. cyc[c].how = "flat"
  BY <1>1, GroupIsItsTargets DEF Aborts
<1>5. touched # {} \/ ungrouped
  <2>1. at[r] # None /\ at[r] # Parent
    BY <1>3, Constants
  <2> QED
    BY <1>1, <1>4, <2>1 DEF Progress, AllAtParent, Live, Calm
<1>6. BoardSettled'
  BY <1>1 DEF BoardSettled, NoSync
<1> QED
  BY <1>5, <1>6, MirrorEnds DEF Over

(* The upsert of an epic leaves there a row of each item it targets, and   *)
(* none of the others unless the sync is additive.                         *)
LEMMA UpsertMirrors ==
    ASSUME IInv, MirrorInv, NEW c \in Cycles, Upsert(c)
    PROVE  MirrorInv'
<1>1. cyc[c].step = "upserts" /\ Working(c)
  BY DEF Upsert, At, Working, Over
<1>2. /\ TypeOK /\ Shape(cyc[c]) /\ cyc[c] \in CycleStates
      /\ Course(cyc[c]) /\ (ungrouped \/ Progress(cyc[c])) /\ synced = NoSync
      /\ Unique /\ Placed /\ (Reviews => ~ungrouped)
  BY <1>1, OfAWorkingCycle
<1>3. PICK e \in cyc[c].upserts :
        LET new == {i \in Group(c, e) : ~Holds(e, i)}
            gone == IF cyc[c].additive THEN {}
                    ELSE {r \in RowsAt({e}) : Item(r) \notin Group(c, e)}
        IN  IF Aborts(c, e)
              THEN /\ End(c, "collided") /\ UNCHANGED <<rowVars, recorded, crossed>>
              ELSE /\ \A i \in new : \E k \in 1..MaxCopies : <<i, k>> \notin used
                   /\ Delete(c, gone, {NewRow(i) : i \in new}, e)
                   /\ Put(c, [cyc[c] EXCEPT !.upserts = @ \ {e}, !.removed = Reported(c, gone)])
                   /\ UNCHANGED inflight
  BY DEF Upsert
<1>4. UNCHANGED <<epicRow, synced, touched, ungrouped>>
  BY DEF Upsert
<1>5. CASE Aborts(c, e)
  BY <1>1, <1>3, <1>4, <1>5, AbortMirrors DEF End, rowVars
<1>6. CASE ~Aborts(c, e)
  <2> DEFINE items == Group(c, e)
             new == NewItems(c, e)
             gone == Gone(c, e)
             born == Born(c, e)
             q == [cyc[c] EXCEPT !.upserts = @ \ {e}, !.removed = Reported(c, gone)]
  <2>1. /\ \A i \in new : \E k \in 1..MaxCopies : <<i, k>> \notin used
        /\ Delete(c, gone, born, e) /\ Put(c, q)
    BY <1>3, <1>6 DEF NewItems, Gone, Born
  <2>2. /\ items = {i \in cyc[c].items : Target(cyc[c], i) = e}
        /\ e \in Subtree /\ e \in Epics /\ (e = Parent <=> cyc[c].how = "flat")
    BY <1>2, GroupIsItsTargets
  <2>3. items \subseteq cyc[c].items /\ items \subseteq Items /\ cyc[c].items \subseteq Items
    BY <1>2, <2>2 DEF CycleStates
  <2>4. new = {i \in items : ~Holds(e, i)}
    BY DEF NewItems
  <2>5. gone \subseteq Rows
    BY DEF RowsAt, Gone
  <2>6. /\ q \in CycleStates /\ q.step = "upserts" /\ q.how = cyc[c].how
        /\ q.items = cyc[c].items /\ q.additive = cyc[c].additive /\ q.to = cyc[c].to
        /\ q.moves = cyc[c].moves /\ q.upserts = cyc[c].upserts \ {e}
        /\ q.absent = cyc[c].absent /\ q.clean = cyc[c].clean
    <3>1. Reported(c, gone) \subseteq Rows
      BY <1>2, <2>5 DEF Reported, CycleStates
    <3> HIDE DEF gone
    <3> QED
      BY <1>1, <1>2, <3>1 DEF CycleStates
  <2>7. /\ born \subseteq Rows
        /\ \A r \in born : at[r] = None /\ at'[r] = e /\ Item(r) \in new
        /\ \A i \in new : \E r \in born : Item(r) = i
        /\ \A r, s \in born : Item(r) = Item(s) => r = s
        /\ \A r \in gone : at'[r] = None /\ at[r] = e /\ Item(r) \notin items /\ ~cyc[c].additive
        /\ \A r \in Rows : r \notin gone /\ r \notin born => at'[r] = at[r]
        /\ \A r \in Rows : at[r] = e /\ Item(r) \notin items => cyc[c].additive \/ r \in gone
        /\ \A r \in Rows : at[r] = e => Item(r) \notin new
    BY <2>1, <2>2, <2>3, UpsertedRows
  <2> HIDE DEF items, new, gone, born, q
  <2>8. cyc'[c] = q
    BY <1>1, <2>1, <2>6, OnlyThisOne
  <2>9. \A i \in new : i \in items
    BY <2>4
  <2>10. \A r \in Rows : at'[r] # None => r \in born \/ (at'[r] = at[r] /\ r \notin gone)
    BY <2>7
  <2>11. Unique'
    BY <1>2, <2>7, <2>10 DEF Unique, Live
  <2>12. Placed'
    <3> SUFFICES ASSUME ~ungrouped, NEW r \in Rows, at'[r] # None, Calm(r) PROVE PlacedRow(r)'
      BY <1>4 DEF Placed, Live, Calm
    <3>1. CASE Reviews
      <4>1. cyc[c].how = "routed" /\ Moved(cyc[c])
        BY <1>1, <1>2, <3>1 DEF Course, Strategy, Progress
      <4>2. ASSUME NEW x \in Rows, NEW y \in Rows, x \in born, at'[y] # None, Item(x) = Item(y), Calm(x)
            PROVE  x = y
        <5>1. Item(x) \in new /\ Item(x) \in cyc[c].items /\ cyc[c].to[Item(x)] = e
          BY <2>2, <2>7, <2>9, <4>1, <4>2 DEF Target
        <5>2. CASE y \in born
          BY <2>7, <4>2, <5>2
        <5>3. CASE y \notin born
          <6>1. at[y] # None /\ Calm(y)
            BY <2>10, <4>2, <5>3 DEF Calm
          <6>2. at[y] = e
            BY <4>1, <4>2, <5>1, <6>1 DEF Moved, Live
          <6> QED
            BY <2>7, <4>2, <5>1, <6>2
        <5> QED
          BY <5>2, <5>3
      <4>3. \A s \in Rows : at'[s] # None /\ Item(s) = Item(r) => s = r
        <5> SUFFICES ASSUME NEW s \in Rows, at'[s] # None, Item(s) = Item(r) PROVE s = r
          OBVIOUS
        <5>1. Calm(s)
          BY DEF Calm
        <5>2. CASE r \in born \/ s \in born
          BY <4>2, <5>1, <5>2
        <5>3. CASE ~(r \in born \/ s \in born)
          BY <1>2, <2>10, <3>1, <5>3 DEF Placed, PlacedRow, Live
        <5> QED
          BY <5>2, <5>3
      <4>4. at'[r] \in Subtree
        BY <1>2, <2>2, <2>7, <2>10, <3>1 DEF Placed, PlacedRow, Live
      <4> QED
        BY <1>4, <3>1, <4>3, <4>4 DEF PlacedRow, Live, Reviews, epicRow
    <3>2. CASE ~Reviews
      <4>1. cyc[c].how # "routed" /\ cyc[c].to = repoOf /\ (cyc[c].how = "grouped" => grouped)
        BY <1>2, <3>2 DEF Course, Strategy
      <4>2. CASE r \in born
        <5>1. at'[r] = e /\ Target(cyc[c], Item(r)) = e
          BY <2>2, <2>7, <2>9, <4>2
        <5>2. e \in {Parent, repoOf[Item(r)]} /\ (e \in Subs => cyc[c].how = "grouped")
          BY <1>2, <2>2, <4>1, <5>1, Constants DEF Target, CycleStates
        <5> QED
          BY <1>4, <3>2, <4>1, <5>1, <5>2 DEF PlacedRow, Reviews, epicRow
      <4>3. CASE r \notin born
        <5>1. at'[r] = at[r] /\ PlacedRow(r)
          BY <1>2, <2>10, <4>3 DEF Placed, Live
        <5> QED
          BY <1>4, <3>2, <5>1 DEF PlacedRow, Reviews, epicRow
      <4> QED
        BY <4>2, <4>3
    <3> QED
      BY <3>1, <3>2
  <2>13. Course(cyc[c])'
    <3>1. Strategy(cyc[c])' /\ Stage(cyc[c])'
      BY <1>1, <1>2, <1>4, <2>6, <2>8 DEF Course, Strategy, Stage, Reviews, epicRow
    <3>2. WritesTargets(cyc[c])'
      <4>1. \A n \in q.moves : Item(n[1]) \in q.items /\ n[2] = q.to[Item(n[1])]
        BY <1>2, <2>6 DEF Course, WritesTargets
      <4>2. \A x \in q.upserts : (q.how = "flat" /\ x = Parent) \/ \E i \in q.items : x = Target(q, i)
        BY <1>2, <2>6 DEF Course, WritesTargets, Target
      <4> QED
        BY <2>6, <2>8, <4>1, <4>2 DEF WritesTargets, Target
    <3>3. ClearsTheRest(cyc[c])'
      BY <1>1, <1>2, <2>6, <2>8 DEF Course, ClearsTheRest
    <3> QED
      BY <3>1, <3>2, <3>3 DEF Course
  <2>14. ASSUME ~ungrouped PROVE Progress(cyc[c])'
    <3>1. ASSUME cyc[c].how = "flat" PROVE AllAtParent'
      BY <1>2, <1>4, <2>2, <2>7, <2>10, <2>14, <3>1 DEF Progress, AllAtParent, Live, Calm
    <3>2. ASSUME cyc[c].how = "routed" PROVE Moved(cyc[c])'
      <4> SUFFICES ASSUME NEW r \in Rows, at'[r] # None, Calm(r), Item(r) \in cyc[c].items
                   PROVE  at'[r] = cyc[c].to[Item(r)]
        BY <1>4, <2>6, <2>8 DEF Moved, Live, Calm
      <4>1. CASE r \in born
        BY <2>2, <2>7, <2>9, <3>2, <4>1 DEF Target
      <4>2. CASE r \notin born
        BY <1>1, <1>2, <2>10, <2>14, <3>2, <4>2 DEF Progress, Moved, Live
      <4> QED
        BY <4>1, <4>2
    <3>3. ASSUME cyc[c].clean PROVE Written(cyc[c])'
      <4> SUFFICES ASSUME NEW i \in cyc[c].items \ touched,
                          Target(cyc[c], i) \notin cyc[c].upserts \ {e}
                   PROVE  \E r \in Rows : at'[r] = Target(cyc[c], i) /\ Item(r) = i
        BY <1>4, <2>6, <2>8 DEF Written, Target, Holds, RowsAt
      <4>1. CASE Target(cyc[c], i) = e /\ i \in new
        BY <2>7, <4>1
      <4>2. CASE ~(Target(cyc[c], i) = e /\ i \in new)
        <5>1. Target(cyc[c], i) = e => i \in items
          BY <2>2
        <5>2. Holds(Target(cyc[c], i), i)
          BY <1>1, <1>2, <2>4, <2>14, <3>3, <4>2, <5>1 DEF Progress, Written
        <5>3. PICK r \in Rows : at[r] = Target(cyc[c], i) /\ Item(r) = i
          BY <5>2 DEF Holds, RowsAt
        <5>4. r \notin gone
          BY <2>7, <5>1, <5>3
        <5>5. Target(cyc[c], i) # None
          BY <1>2, Constants DEF Target, CycleStates
        <5> QED
          BY <2>7, <5>3, <5>4, <5>5
      <4> QED
        BY <4>1, <4>2
    <3>4. ASSUME cyc[c].clean, ~cyc[c].additive PROVE Pruned(cyc[c])'
      <4>1. Pruned(cyc[c])
        BY <1>1, <1>2, <2>14, <3>4 DEF Progress
      <4> SUFFICES ASSUME NEW r \in Rows, at'[r] # None, Calm(r), Item(r) \notin cyc[c].items
                   PROVE  /\ cyc[c].how = "flat" => Parent \in cyc[c].upserts \ {e}
                          /\ cyc[c].how = "grouped" =>
                               at'[r] \in (cyc[c].upserts \ {e}) \cup cyc[c].absent \cup {Parent}
        BY <1>4, <2>6, <2>8 DEF Pruned, Untold, Live, Calm
      <4>2. r \notin born
        BY <2>3, <2>7, <2>9
      <4>3. at'[r] = at[r] /\ r \notin gone /\ Untold(cyc[c], r)
        BY <2>10, <4>2 DEF Untold, Live
      <4>4. at[r] # e
        BY <2>3, <2>7, <3>4, <4>3
      <4>5. cyc[c].how # "flat"
        BY <1>2, <2>2, <2>14, <4>3, <4>4 DEF Progress, AllAtParent, Untold
      <4> QED
        BY <4>1, <4>3, <4>4, <4>5 DEF Pruned
    <3> QED
      BY <1>1, <2>6, <2>8, <3>1, <3>2, <3>3, <3>4 DEF Progress
  <2> QED
    BY <1>1, <1>2, <1>4, <2>1, <2>6, <2>11, <2>12, <2>13, <2>14, MirrorAdvances DEF Over
<1> QED
  BY <1>5, <1>6

(* A sweep deletes its rows or marks the cycle, and touches no other row.  *)
LEMMA SweptRows ==
    ASSUME IInv, NEW c \in Cycles, Working(c), NEW e \in Epics, NEW next \in Steps, next \notin Over,
           NEW gone \in SUBSET {r \in Rows : at[r] # None}, Sweep(c, e, gone, next)
    PROVE  \E q \in CycleStates :
             /\ Put(c, q) /\ q.step = next /\ q.how = cyc[c].how /\ q.items = cyc[c].items
             /\ q.additive = cyc[c].additive /\ q.to = cyc[c].to /\ q.moves = cyc[c].moves
             /\ q.upserts = cyc[c].upserts /\ q.absent = cyc[c].absent \ {e}
             /\ \A r \in Rows : at'[r] # None => at'[r] = at[r]
             /\ \A r \in Rows \ gone : at'[r] = at[r]
             /\ q.clean => cyc[c].clean /\ \A r \in gone : at'[r] = None
<1>1. TypeOK /\ cyc[c] \in CycleStates
  BY OfACycle
<1>2. CASE Delete(c, gone, {}, None) /\ Put(c, [Swept(c, e, next) EXCEPT !.removed = Reported(c, gone)])
  <2> DEFINE q == [Swept(c, e, next) EXCEPT !.removed = Reported(c, gone)]
  <2>1. Reported(c, gone) \subseteq Rows
    BY <1>1 DEF Reported, CycleStates
  <2>2. /\ q \in CycleStates /\ q.step = next /\ q.how = cyc[c].how /\ q.items = cyc[c].items
        /\ q.additive = cyc[c].additive /\ q.to = cyc[c].to /\ q.moves = cyc[c].moves
        /\ q.upserts = cyc[c].upserts /\ q.absent = cyc[c].absent \ {e}
        /\ q.clean = cyc[c].clean
    BY <1>1, <2>1 DEF Swept, CycleStates
  <2>3. Put(c, q)
    BY <1>2
  <2>4. at' = [r \in Rows |-> IF r \in gone THEN None ELSE at[r]]
    BY <1>2 DEF Delete
  <2> HIDE DEF q
  <2> QED
    BY <2>2, <2>3, <2>4
<1>3. CASE /\ Put(c, [Swept(c, e, next) EXCEPT !.clean = FALSE])
           /\ UNCHANGED <<rowVars, recorded, crossed>>
  <2> DEFINE q == [Swept(c, e, next) EXCEPT !.clean = FALSE]
  <2>1. /\ q \in CycleStates /\ q.step = next /\ q.how = cyc[c].how /\ q.items = cyc[c].items
        /\ q.additive = cyc[c].additive /\ q.to = cyc[c].to /\ q.moves = cyc[c].moves
        /\ q.upserts = cyc[c].upserts /\ q.absent = cyc[c].absent \ {e}
        /\ q.clean = FALSE
    BY <1>1 DEF Swept, CycleStates
  <2>2. Put(c, q) /\ UNCHANGED at
    BY <1>3 DEF rowVars
  <2> HIDE DEF q
  <2> QED
    BY <2>1, <2>2
<1> QED
  BY <1>2, <1>3 DEF Sweep

(* A sweep that spares the emission's rows brings the board nearer to it.  *)
LEMMA SweepMirrors ==
    ASSUME IInv, MirrorInv, NEW c \in Cycles, cyc[c].step \in {"absent", "stale", "clear"},
           NEW e \in Epics, NEW next \in {"absent", "clear", "teardown"},
           NEW gone \in SUBSET {r \in Rows : at[r] # None}, Sweep(c, e, gone, next),
           next = "absent" => cyc[c].step = "absent",
           next # "absent" => cyc[c].absent = {},
           \A r \in gone : Item(r) \in cyc[c].items => at[r] # Target(cyc[c], Item(r)),
           Pruned(cyc[c]) =>
             \A r \in Rows \ gone : Untold(cyc[c], r) =>
               /\ cyc[c].how = "grouped" => at[r] \in (cyc[c].absent \ {e}) \cup {Parent}
               /\ cyc[c].how = "routed" => at[r] \notin Subs,
           next = "teardown" => \A r \in Rows \ gone : at[r] # Parent
    PROVE  MirrorInv'
<1>1. Working(c)
  BY DEF Working, Over
<1>2. /\ TypeOK /\ Shape(cyc[c]) /\ cyc[c] \in CycleStates
      /\ Course(cyc[c]) /\ (ungrouped \/ Progress(cyc[c])) /\ synced = NoSync
      /\ Unique /\ Placed /\ (Reviews => ~ungrouped)
  BY <1>1, OfAWorkingCycle
<1>3. UNCHANGED <<epicRow, synced, touched, ungrouped>>
  BY DEF Sweep
<1>4. next \in Steps /\ next \notin Over
  BY Constants
<1>5. PICK q \in CycleStates :
        /\ Put(c, q) /\ q.step = next /\ q.how = cyc[c].how /\ q.items = cyc[c].items
        /\ q.additive = cyc[c].additive /\ q.to = cyc[c].to /\ q.moves = cyc[c].moves
        /\ q.upserts = cyc[c].upserts /\ q.absent = cyc[c].absent \ {e}
        /\ \A r \in Rows : at'[r] # None => at'[r] = at[r]
        /\ \A r \in Rows \ gone : at'[r] = at[r]
        /\ q.clean => cyc[c].clean /\ \A r \in gone : at'[r] = None
  BY <1>1, <1>4, SweptRows
<1>6. cyc'[c] = q
  BY <1>1, <1>5, OnlyThisOne
<1>7. cyc[c].how # "flat" /\ ~cyc[c].additive /\ cyc[c].upserts = {}
  BY <1>2 DEF Course, Stage
<1>8. Unique'
  BY <1>2, <1>5 DEF Unique, Live
<1>9. Placed'
  <2> SUFFICES ASSUME ~ungrouped, NEW r \in Rows, at'[r] # None, Calm(r) PROVE PlacedRow(r)'
    BY <1>3 DEF Placed, Live, Calm
  <2>1. at'[r] = at[r] /\ PlacedRow(r)
    BY <1>2, <1>5 DEF Placed, Live
  <2> QED
    BY <1>3, <1>5, <2>1 DEF PlacedRow, Live, Reviews, epicRow
<1>10. Course(cyc[c])'
  <2>1. Strategy(cyc[c])' /\ ClearsTheRest(cyc[c])'
    BY <1>2, <1>3, <1>5, <1>6, <1>7 DEF Course, Strategy, ClearsTheRest, Reviews, epicRow
  <2>2. WritesTargets(cyc[c])'
    <3>1. \A n \in q.moves : Item(n[1]) \in q.items /\ n[2] = q.to[Item(n[1])]
      BY <1>2, <1>5 DEF Course, WritesTargets
    <3> QED
      BY <1>5, <1>6, <1>7, <3>1 DEF WritesTargets
  <2>3. Stage(cyc[c])'
    BY <1>2, <1>5, <1>6, <1>7 DEF Course, Stage
  <2> QED
    BY <2>1, <2>2, <2>3 DEF Course
<1>11. ASSUME ~ungrouped PROVE Progress(cyc[c])'
  <2>1. cyc[c].how = "routed" => Moved(cyc[c])'
    BY <1>2, <1>3, <1>5, <1>6, <1>11 DEF Progress, Moved, Live, Calm
  <2>2. ASSUME q.clean PROVE Written(cyc[c])' /\ Pruned(cyc[c])'
    <3>1. Written(cyc[c]) /\ Pruned(cyc[c])
      BY <1>2, <1>5, <1>7, <1>11, <2>2 DEF Progress
    <3>2. Written(cyc[c])'
      <4> SUFFICES ASSUME NEW i \in cyc[c].items \ touched
                   PROVE  \E r \in Rows : at'[r] = Target(cyc[c], i) /\ Item(r) = i
        BY <1>3, <1>5, <1>6 DEF Written, Target, Holds, RowsAt
      <4>1. PICK r \in Rows : at[r] = Target(cyc[c], i) /\ Item(r) = i
        BY <1>7, <3>1 DEF Written, Holds, RowsAt
      <4> QED
        BY <1>5, <4>1
    <3>3. Pruned(cyc[c])'
      <4>1. ASSUME NEW r \in Rows, at'[r] # None, Calm(r), Item(r) \notin cyc[c].items
            PROVE  /\ cyc[c].how = "grouped" => at'[r] \in q.absent \cup {Parent}
                   /\ cyc[c].how = "routed" => at'[r] \notin Subs
        <5>1. at'[r] = at[r] /\ r \notin gone /\ Untold(cyc[c], r)
          BY <1>5, <2>2, <4>1 DEF Untold, Live
        <5> QED
          BY <1>5, <3>1, <5>1
      <4>2. next = "teardown" => \A r \in Rows : at'[r] # Parent
        BY <1>5, <2>2, Constants
      <4> QED
        BY <1>3, <1>5, <1>6, <1>7, <4>1, <4>2 DEF Pruned, Untold, Live, Calm
    <3> QED
      BY <3>2, <3>3
  <2> QED
    BY <1>5, <1>6, <1>7, <2>1, <2>2 DEF Progress
<1> QED
  BY <1>1, <1>2, <1>3, <1>4, <1>5, <1>8, <1>9, <1>10, <1>11, MirrorAdvances

(* The absent groups, the rows no item names, the parent's rows: none of   *)
(* them is where the emission puts an item.                                *)
LEMMA SweepsMirror ==
    ASSUME IInv, MirrorInv, NEW c \in Cycles, ClearAbsent(c) \/ DeleteStale(c) \/ ClearParent(c)
    PROVE  MirrorInv'
<1>1. Working(c)
  BY DEF ClearAbsent, DeleteStale, ClearParent, At, Working, Over
<1>2. TypeOK /\ cyc[c] \in CycleStates /\ Course(cyc[c])
  BY <1>1, OfAWorkingCycle
<1>3. \A i \in cyc[c].items : cyc[c].to[i] \in Subs
  BY <1>2 DEF CycleStates
<1>4. ASSUME ClearAbsent(c) PROVE MirrorInv'
  <2>1. /\ cyc[c].step = "absent" /\ cyc[c].how = "grouped" /\ cyc[c].upserts = {}
        /\ cyc[c].absent \subseteq Subs /\ \A i \in cyc[c].items : cyc[c].to[i] \notin cyc[c].absent
    BY <1>2, <1>4 DEF ClearAbsent, At, Course, Stage, ClearsTheRest
  <2>2. CASE cyc[c].absent = {}
    <3>1. Sweep(c, Parent, {}, "clear") /\ Parent \in Epics
      BY <1>4, <2>2, Constants DEF ClearAbsent
    <3>2. Pruned(cyc[c]) => \A r \in Rows : Untold(cyc[c], r) => at[r] \in {Parent}
      BY <2>1, <2>2 DEF Pruned
    <3>3. {} \in SUBSET {r \in Rows : at[r] # None}
      OBVIOUS
    <3> QED
      BY <2>1, <2>2, <3>1, <3>2, <3>3, SweepMirrors
  <2>3. CASE cyc[c].absent # {}
    <3>1. PICK e \in cyc[c].absent : Sweep(c, e, RowsAt({e}), "absent")
      BY <1>4, <2>3 DEF ClearAbsent
    <3>2. e \in Epics /\ e \in Subs
      BY <2>1, Constants
    <3>3. RowsAt({e}) \in SUBSET {r \in Rows : at[r] # None}
      BY <3>2, RowsAtAreLive
    <3>4. \A r \in RowsAt({e}) : Item(r) \in cyc[c].items => at[r] # Target(cyc[c], Item(r))
      BY <2>1 DEF RowsAt, Target
    <3>5. Pruned(cyc[c]) =>
            \A r \in Rows \ RowsAt({e}) : Untold(cyc[c], r) =>
              at[r] \in (cyc[c].absent \ {e}) \cup {Parent}
      BY <2>1 DEF Pruned, RowsAt
    <3> QED
      BY <2>1, <3>1, <3>2, <3>3, <3>4, <3>5, SweepMirrors
  <2> QED
    BY <2>2, <2>3
<1>5. ASSUME DeleteStale(c) PROVE MirrorInv'
  <2> DEFINE gone == {r \in RowsAt(Subs) : Item(r) \notin cyc[c].items}
  <2>1. /\ cyc[c].step = "stale" /\ cyc[c].how = "routed" /\ cyc[c].absent = {}
        /\ Sweep(c, Parent, gone, "clear") /\ Parent \in Epics
    BY <1>2, <1>5, Constants DEF DeleteStale, At, Course, Stage, ClearsTheRest
  <2>2. gone \in SUBSET {r \in Rows : at[r] # None}
    BY RowsAtAreLive, Constants
  <2>3. \A r \in gone : Item(r) \notin cyc[c].items
    OBVIOUS
  <2>4. \A r \in Rows \ gone : Untold(cyc[c], r) => at[r] \notin Subs
    BY DEF Untold, RowsAt
  <2> HIDE DEF gone
  <2> QED
    BY <2>1, <2>2, <2>3, <2>4, SweepMirrors
<1>6. ASSUME ClearParent(c) PROVE MirrorInv'
  <2>1. /\ cyc[c].step = "clear" /\ cyc[c].how # "flat" /\ cyc[c].absent = {}
        /\ Sweep(c, Parent, RowsAt({Parent}), "teardown") /\ Parent \in Epics /\ cyc[c].upserts = {}
    BY <1>2, <1>6, Constants DEF ClearParent, At, Course, Stage
  <2>2. RowsAt({Parent}) \in SUBSET {r \in Rows : at[r] # None}
    BY RowsAtAreLive, Constants
  <2>3. \A r \in RowsAt({Parent}) : Item(r) \in cyc[c].items => at[r] # Target(cyc[c], Item(r))
    BY <1>3, <2>1, Constants DEF RowsAt, Target
  <2>4. Pruned(cyc[c]) =>
          \A r \in Rows \ RowsAt({Parent}) : Untold(cyc[c], r) =>
            /\ cyc[c].how = "grouped" => at[r] \in (cyc[c].absent \ {Parent}) \cup {Parent}
            /\ cyc[c].how = "routed" => at[r] \notin Subs
    BY <2>1 DEF Pruned
  <2>5. \A r \in Rows \ RowsAt({Parent}) : at[r] # Parent
    BY DEF RowsAt
  <2> QED
    BY <2>1, <2>2, <2>3, <2>4, <2>5, SweepMirrors
<1> QED
  BY <1>4, <1>5, <1>6

(* A cycle that ends with all its writes done leaves the board settled.    *)
LEMMA TeardownSettles ==
    ASSUME IInv, MirrorInv, NEW c \in Cycles, Teardown(c), ~ungrouped, cyc[c].clean,
           NEW i \in Items \ touched
    PROVE  Settled(i)'
<1>1. cyc[c].step = "teardown" /\ Working(c)
  BY DEF Teardown, At, Working, Over
<1>2. /\ TypeOK /\ cyc[c] \in CycleStates /\ Course(cyc[c]) /\ Progress(cyc[c])
      /\ Unique /\ Placed /\ (Reviews => ~ungrouped)
  BY <1>1, OfAWorkingCycle
<1>3. /\ synced' = [clean |-> cyc[c].clean, additive |-> cyc[c].additive, items |-> cyc[c].items]
      /\ UNCHANGED at
  BY DEF Teardown, rowVars
<1>4. cyc[c].upserts = {} /\ cyc[c].absent = {}
  BY <1>1, <1>2 DEF Course, Stage
<1>5. Written(cyc[c]) /\ (cyc[c].additive \/ Pruned(cyc[c]))
  BY <1>1, <1>2 DEF Progress
<1>6. \A r \in Rows : ItsRow(i, r) => at[r] \in Subtree /\ Item(r) = i /\ Live(r) /\ Calm(r)
  BY FeedAssumption DEF ItsRow, RowsAt, Live, Calm, Epics
<1>7. \A r \in Rows : ItsRow(i, r)' <=> ItsRow(i, r)
  BY <1>3 DEF ItsRow, RowsAt
<1>8. repoOf[i] \in Subs /\ (i \in cyc[c].items => cyc[c].to[i] \in Subs)
  BY <1>2 DEF TypeOK, CycleStates
<1>9. CASE i \in cyc[c].items
  <2>1. Target(cyc[c], i) \in Subtree /\ Holds(Target(cyc[c], i), i)
    BY <1>4, <1>5, <1>8, <1>9 DEF Written, Target, Subtree
  <2>2. PICK r \in Rows : at[r] = Target(cyc[c], i) /\ Item(r) = i
    BY <2>1 DEF Holds, RowsAt
  <2>3. ItsRow(i, r)
    BY <2>1, <2>2 DEF ItsRow, RowsAt
  <2>4. ASSUME ~cyc[c].additive, NEW s \in Rows, ItsRow(i, s) PROVE s = r
    <3>1. at[s] = Target(cyc[c], i)
      <4>1. CASE cyc[c].how = "flat"
        BY <1>2, <1>6, <2>4, <4>1 DEF Progress, AllAtParent, Target
      <4>2. CASE cyc[c].how = "grouped"
        <5>1. at[s] # Parent
          BY <1>1, <1>5, <1>6, <2>4, <4>2 DEF Pruned
        <5>2. at[s] \in {Parent, repoOf[i]} /\ cyc[c].to = repoOf
          BY <1>2, <1>6, <2>4, <4>2 DEF Placed, PlacedRow, Course, Strategy
        <5> QED
          BY <4>2, <5>1, <5>2 DEF Target
      <4>3. CASE cyc[c].how = "routed"
        BY <1>1, <1>2, <1>6, <1>9, <2>4, <4>3 DEF Progress, Moved, Target
      <4> QED
        BY <1>2, <4>1, <4>2, <4>3 DEF CycleStates
    <3> QED
      BY <1>2, <1>6, <2>2, <2>4, <3>1 DEF Unique
  <2> QED
    BY <1>3, <1>7, <1>9, <2>3, <2>4 DEF Settled
<1>10. CASE i \notin cyc[c].items
  <2>1. ASSUME ~cyc[c].additive, NEW r \in Rows, ItsRow(i, r) PROVE FALSE
    <3>1. Untold(cyc[c], r) /\ at[r] \in Subtree
      BY <1>6, <1>10, <2>1 DEF Untold
    <3>2. cyc[c].how # "flat"
      BY <1>4, <1>5, <2>1, <3>1 DEF Pruned
    <3>3. at[r] # Parent
      BY <1>1, <1>5, <2>1, <3>1, <3>2 DEF Pruned, Untold
    <3>4. cyc[c].how # "grouped"
      BY <1>4, <1>5, <2>1, <3>1, <3>3 DEF Pruned
    <3>5. cyc[c].how # "routed"
      BY <1>1, <1>5, <2>1, <3>1, <3>3 DEF Pruned, Subtree
    <3> QED
      BY <1>2, <3>2, <3>4, <3>5 DEF CycleStates
  <2> QED
    BY <1>3, <1>7, <1>10, <2>1 DEF Settled
<1> QED
  BY <1>9, <1>10

(* The end of a cycle.                                                     *)
LEMMA TeardownMirrors ==
    ASSUME IInv, MirrorInv, NEW c \in Cycles, Teardown(c)
    PROVE  MirrorInv'
<1>1. Working(c)
  BY DEF Teardown, At, Working, Over
<1>2. Put(c, Bare("ended")) /\ UNCHANGED <<epicRow, at, touched, ungrouped>>
  BY DEF Teardown, End, rowVars
<1>3. synced' = [clean |-> cyc[c].clean, additive |-> cyc[c].additive, items |-> cyc[c].items]
  BY DEF Teardown
<1>4. BoardSettled'
  BY <1>2, <1>3, TeardownSettles DEF BoardSettled
<1> QED
  BY <1>1, <1>2, <1>4, MirrorEnds DEF Over

(* The user's move takes the item out of what is promised.                 *)
LEMMA UserMoveMirrors ==
    ASSUME IInv, MirrorInv, NEW r \in Rows, NEW e \in Epics, UserMoves(r, e)
    PROVE  MirrorInv'
<1>1. /\ at[r] # None /\ ~Holds(e, Item(r)) /\ at' = [at EXCEPT ![r] = e]
      /\ touched' = touched \cup {Item(r)} /\ synced' = NoSync
      /\ UNCHANGED <<epicRow, cyc, ungrouped>>
  BY DEF UserMoves
<1>2. TypeOK
  BY DEF IInv, GuardIsHeld
<1>3. /\ at'[r] = e /\ \A s \in Rows \ {r} : at'[s] = at[s]
      /\ \A s \in Rows : at'[s] = None <=> at[s] = None
  BY <1>1, <1>2, Constants DEF TypeOK
<1>4. \A s \in Rows : Calm(s)' => Calm(s) /\ Item(s) # Item(r) /\ at'[s] = at[s]
  BY <1>1, <1>3 DEF Calm
<1>5. \A s \in Rows : at[s] = e => Item(s) # Item(r)
  BY <1>1 DEF Holds, RowsAt
<1>6. Unique'
  <2> SUFFICES ASSUME NEW s \in Rows, NEW t \in Rows, at'[s] # None, Item(s) = Item(t), at'[s] = at'[t]
               PROVE  s = t
    BY DEF Unique, Live
  <2> QED
    BY <1>3, <1>5 DEF MirrorInv, Unique, Live
<1>7. Placed'
  <2> SUFFICES ASSUME ~ungrouped, NEW s \in Rows, at'[s] # None, Calm(s)' PROVE PlacedRow(s)'
    BY <1>1 DEF Placed, Live
  <2>1. PlacedRow(s) /\ at'[s] = at[s]
    BY <1>3, <1>4 DEF MirrorInv, Placed, Live
  <2> QED
    BY <1>1, <1>3, <2>1 DEF PlacedRow, Live, Reviews, epicRow
<1>8. ASSUME NEW c \in Cycles, Working(c) PROVE OnCourse(c)'
  <2>1. Course(cyc[c]) /\ (ungrouped \/ Progress(cyc[c])) /\ cyc[c] \in CycleStates
    BY <1>8, OfAWorkingCycle
  <2>2. Course(cyc[c])'
    BY <1>1, <2>1 DEF Course, Strategy, WritesTargets, ClearsTheRest, Stage, Target, Reviews, epicRow
  <2>3. ASSUME ~ungrouped PROVE Progress(cyc[c])'
    <3>1. AllAtParent => AllAtParent'
      BY <1>3, <1>4 DEF AllAtParent, Live
    <3>2. Moving(cyc[c]) => Moving(cyc[c])'
      <4>1. \A m \in cyc[c].moves : m[1] \in Rows
        BY <2>1 DEF CycleStates
      <4> QED
        BY <1>1, <1>3, <1>4, <4>1 DEF Moving, Live
    <3>3. Moved(cyc[c]) => Moved(cyc[c])'
      BY <1>1, <1>3, <1>4 DEF Moved, Live
    <3>4. Written(cyc[c]) => Written(cyc[c])'
      <4> SUFFICES ASSUME Written(cyc[c]), NEW i \in cyc[c].items \ touched',
                          Target(cyc[c], i) \notin cyc[c].upserts
                   PROVE  \E s \in Rows : at'[s] = Target(cyc[c], i) /\ Item(s) = i
        BY <1>1 DEF Written, Target, Holds, RowsAt
      <4>1. PICK s \in Rows : at[s] = Target(cyc[c], i) /\ Item(s) = i
        BY <1>1 DEF Written, Holds, RowsAt
      <4> QED
        BY <1>1, <1>3, <4>1
    <3>5. Pruned(cyc[c]) => Pruned(cyc[c])'
      BY <1>1, <1>3, <1>4 DEF Pruned, Untold, Live
    <3> QED
      BY <1>1, <2>1, <2>3, <3>1, <3>2, <3>3, <3>4, <3>5 DEF Progress
  <2> QED
    BY <1>1, <2>2, <2>3 DEF OnCourse
<1>9. CollisionNeedsAUser'
  BY <1>1 DEF CollisionNeedsAUser
<1>10. BoardSettled' /\ (Reviews' => ~ungrouped')
  BY <1>1 DEF MirrorInv, BoardSettled, NoSync, Reviews, epicRow
<1> QED
  BY <1>1, <1>6, <1>7, <1>8, <1>9, <1>10 DEF MirrorInv, Working

(* The toggle ends the promise, or starts the migration.                   *)
LEMMA ToggleMirrors ==
    ASSUME IInv, MirrorInv, Toggle
    PROVE  MirrorInv'
<1>1. /\ ~Reviews /\ grouped' = ~grouped /\ ungrouped' = (ungrouped \/ grouped) /\ synced' = NoSync
      /\ UNCHANGED <<role, repoOf, at, cyc, touched>>
  BY DEF Toggle, Reviews, rowVars
<1>2. Unique' /\ Reviews' = Reviews
  BY <1>1 DEF MirrorInv, Unique, Live, Reviews
<1>3. ~ungrouped' => ~ungrouped /\ ~grouped /\ grouped'
  BY <1>1
<1>4. Placed'
  BY <1>1, <1>2, <1>3 DEF MirrorInv, Placed, PlacedRow, Live, Calm
<1>5. ASSUME NEW c \in Cycles, Working(c) PROVE OnCourse(c)'
  <2>1. Course(cyc[c]) /\ (ungrouped \/ Progress(cyc[c]))
    BY <1>5, OfAWorkingCycle
  <2>2. Strategy(cyc[c])'
    BY <1>1, <1>2, <1>3, <2>1 DEF Course, Strategy
  <2>3. WritesTargets(cyc[c])' /\ ClearsTheRest(cyc[c])' /\ Stage(cyc[c])'
    BY <1>1, <2>1 DEF Course, WritesTargets, ClearsTheRest, Stage, Target
  <2>4. ungrouped' \/ Progress(cyc[c])'
    BY <1>1, <1>3, <2>1 DEF Progress, AllAtParent, Moving, Moved, Written, Pruned, Untold, Holds,
       RowsAt, Live, Calm, Target
  <2> QED
    BY <1>1, <2>2, <2>3, <2>4 DEF OnCourse, Course
<1>6. CollisionNeedsAUser'
  BY <1>1 DEF MirrorInv, CollisionNeedsAUser, At
<1>7. BoardSettled' /\ (Reviews' => ~ungrouped')
  BY <1>1, <1>2 DEF BoardSettled, NoSync
<1> QED
  BY <1>1, <1>2, <1>4, <1>5, <1>6, <1>7 DEF MirrorInv, Working

(* What the mirror's invariant reads.                                      *)
LEMMA MirrorReads ==
    ASSUME MirrorInv, UNCHANGED <<epicRow, at, cyc, synced, touched, ungrouped>>
    PROVE  MirrorInv'
<1>1. Unique' /\ Placed' /\ (Reviews' => ~ungrouped')
  BY DEF MirrorInv, Unique, Placed, PlacedRow, Live, Calm, Reviews, epicRow
<1>2. BoardSettled' /\ CollisionNeedsAUser'
  BY DEF MirrorInv, BoardSettled, Settled, ItsRow, RowsAt, CollisionNeedsAUser, At
<1>3. ASSUME NEW c \in Cycles, Working(c) PROVE OnCourse(c)'
  <2>1. OnCourse(c)
    BY <1>3 DEF MirrorInv
  <2> QED
    BY <2>1 DEF OnCourse, Course, Strategy, WritesTargets, ClearsTheRest, Stage, Progress,
       AllAtParent, Moving, Moved, Written, Pruned, Untold, Holds, RowsAt, Live, Calm, Target, Reviews,
       epicRow
<1> QED
  BY <1>1, <1>2, <1>3 DEF MirrorInv, Working

(* A settled epic is a mirror of the feed it has not had yet.              *)
LEMMA InitMirrorInv == Init => MirrorInv
<1> SUFFICES ASSUME Init PROVE MirrorInv
  OBVIOUS
<1>1. PICK where \in [Items -> Subtree \cup {None}] :
        /\ \A i \in Items : where[i] \in Subs =>
             role = "reviews_parent" \/ (grouped /\ where[i] = repoOf[i])
        /\ at = [r \in Rows |-> IF r[2] = 1 THEN where[Item(r)] ELSE None]
  BY DEF Init
<1>2. \A r \in Rows : at[r] # None => r[2] = 1 /\ Item(r) \in Items /\ at[r] = where[Item(r)]
  BY <1>1 DEF Rows, Item
<1>3. \A r, s \in Rows : at[r] # None /\ at[s] # None /\ Item(r) = Item(s) => r = s
  BY <1>2 DEF Rows, Item
<1>4. Unique
  BY <1>3 DEF Unique, Live
<1>5. Placed
  <2> SUFFICES ASSUME NEW r \in Rows, at[r] # None PROVE PlacedRow(r)
    BY DEF Placed, Live
  <2>1. Item(r) \in Items /\ at[r] = where[Item(r)]
    BY <1>2
  <2>2. at[r] \in Subtree
    BY <1>1, <2>1
  <2>3. at[r] \in Subs => Reviews \/ (grouped /\ at[r] = repoOf[Item(r)])
    BY <1>1, <2>1 DEF Reviews
  <2>4. Reviews => \A s \in Rows : Live(s) /\ Item(s) = Item(r) => s = r
    BY <1>3 DEF Live
  <2> QED
    BY <2>2, <2>3, <2>4 DEF PlacedRow, Subtree
<1>6. \A c \in Cycles : cyc[c].step = "idle"
  BY DEF Init, Bare
<1>7. \A c \in Cycles : ~Working(c)
  BY <1>6 DEF Working, Over
<1>8. CollisionNeedsAUser
  BY <1>6 DEF CollisionNeedsAUser, At
<1>9. BoardSettled /\ ~ungrouped
  BY DEF Init, BoardSettled, NoSync
<1> QED
  BY <1>4, <1>5, <1>7, <1>8, <1>9 DEF MirrorInv

(* Every step keeps it.                                                    *)
LEMMA NextMirrorInv == IInv /\ MirrorInv /\ [Next]_vars => MirrorInv'
<1> SUFFICES ASSUME IInv, MirrorInv, [Next]_vars PROVE MirrorInv'
  OBVIOUS
<1>1. CASE UNCHANGED vars
  BY <1>1, MirrorReads DEF vars, rowVars, history
<1>2. ASSUME NEW c \in Cycles, Claim(c) \/ Busy(c) \/ Work(c) PROVE MirrorInv'
  BY <1>2, ClaimMirrors, FetchMirrors, MoveMirrors, PassMirrors, UpsertMirrors, SweepsMirror,
     TeardownMirrors DEF Work
<1>3. ASSUME NEW r \in Rows, Dispatch(r) \/ Provision(r) \/ RecordLaunch(r) PROVE MirrorInv'
  BY <1>3, MirrorReads DEF Dispatch, Provision, RecordLaunch, rowVars, history
<1> QED
  BY <1>1, <1>2, <1>3, UserMoveMirrors, ToggleMirrors DEF Next

(* The mirror's invariant holds of every behaviour.                        *)
LEMMA MirrorInvHolds == Spec => [](IInv /\ MirrorInv)
BY InitIInv, NextIInv, InitMirrorInv, NextMirrorInv, PTL DEF Spec

(* The rows of an item in the subtree, counted.                            *)
LEMMA SettledMirrors ==
    ASSUME NEW i \in Items, Settled(i)
    PROVE  Mirrors(i)
<1> DEFINE S == {r \in RowsAt(Subtree) : Item(r) = i}
<1>1. Copies(i) = Cardinality(S)
  BY DEF Copies
<1>2. S \subseteq {i} \X (1..MaxCopies)
  BY DEF RowsAt, Rows, Item
<1>3. IsFiniteSet({i} \X (1..MaxCopies))
  <2>1. IsFiniteSet({i})
    BY FS_Singleton
  <2>2. IsFiniteSet(1..MaxCopies)
    BY FS_Interval, FeedAssumption
  <2> QED
    BY <2>1, <2>2, FS_Product
<1>4. IsFiniteSet(S)
  BY <1>2, <1>3, FS_Subset
<1>5. Cardinality(S) \in Nat /\ (Cardinality(S) = 0 <=> S = {})
  BY <1>4, FS_CardinalityType, FS_EmptySet
<1>6. \A r : Cardinality({r}) = 1
  BY FS_Singleton
<1>7. \A r \in Rows : ItsRow(i, r) <=> r \in S
  BY DEF ItsRow, RowsAt
<1>8. S \subseteq Rows
  BY DEF RowsAt
<1> HIDE DEF S
<1>9. CASE i \in synced.items
  <2>1. PICK r \in Rows : r \in S /\ (synced.additive \/ \A s \in S : s = r)
    BY <1>7, <1>8, <1>9 DEF Settled
  <2>2. CASE S = {r}
    BY <1>1, <1>6, <1>9, <2>2 DEF Mirrors
  <2>3. CASE S # {r}
    <3>1. synced.additive /\ Cardinality(S) # 0
      BY <1>5, <2>1, <2>3
    <3> QED
      BY <1>1, <1>5, <1>9, <3>1 DEF Mirrors
  <2> QED
    BY <2>2, <2>3
<1>10. CASE i \notin synced.items
  <2>1. synced.additive \/ S = {}
    BY <1>7, <1>8, <1>10 DEF Settled
  <2> QED
    BY <1>1, <1>5, <1>10, <2>1 DEF Mirrors
<1> QED
  BY <1>9, <1>10

(* After a cycle whose writes all succeeded, the subtree holds one row of  *)
(* each item emitted and none of the others, for items the user never      *)
(* moved and an epic never un-grouped, under any strategy and whatever the *)
(* user and other requests do meanwhile (sync_feed_tasks).                 *)
THEOREM FeedMirrored == Spec => []FeedIsMirrored
<1>1. MirrorInv => FeedIsMirrored
  BY SettledMirrors DEF MirrorInv, BoardSettled, FeedIsMirrored
<1> QED
  BY <1>1, MirrorInvHolds, PTL

(* A cycle's own writes collide with nothing: an aborted one met a row the *)
(* user moved, or an epic un-grouped (the unique index, the trigger v72).  *)
THEOREM CollisionsAreTheUsers == Spec => []CollisionNeedsAUser
<1>1. MirrorInv => CollisionNeedsAUser
  BY DEF MirrorInv
<1> QED
  BY <1>1, MirrorInvHolds, PTL

(* A row a cycle may delete: see CyclesSpareRows.                          *)
MayRemove(c, r) ==
    /\ ~cyc[c].additive /\ at[r] \in Subtree
    /\ \/ Item(r) \notin cyc[c].items \/ Item(r) \in touched
       \/ cyc[c].how = "grouped" /\ (at[r] = Parent \/ ungrouped)

(* Only the deletes of a cycle remove rows, and they are its own.          *)
LEMMA WhoRemoves ==
    ASSUME IInv, [Next]_vars, NEW c \in Cycles, NEW r \in Rows, Removes(c, r)
    PROVE  Upsert(c) \/ ClearAbsent(c) \/ DeleteStale(c) \/ ClearParent(c)
<1>1. at' # at /\ cyc' # cyc /\ at[r] # None /\ at'[r] = None /\ cyc'[c] # cyc[c]
  BY DEF Removes
<1>2. PICK d \in Cycles :
        ApplyMove(d) \/ Upsert(d) \/ ClearAbsent(d) \/ DeleteStale(d) \/ ClearParent(d)
  BY <1>1 DEF Next, Work, vars, rowVars, Claim, Busy, FetchFails, Fetch, Routed, UpsertFails, Upserted,
     Teardown, UserMoves, Dispatch, Provision, RecordLaunch, Toggle
<1>3. ~ApplyMove(d)
  <2> SUFFICES ASSUME ApplyMove(d) PROVE FALSE
    OBVIOUS
  <2>1. PICK m \in cyc[d].moves : at' = at \/ at' = [at EXCEPT ![m[1]] = m[2]]
    BY DEF ApplyMove
  <2>2. m[2] \in Epics /\ at \in [Rows -> Epics \cup {None}]
    BY OfACycle DEF CycleStates, TypeOK
  <2> QED
    BY <1>1, <2>1, <2>2, Constants
<1>4. Working(d)
  BY <1>2, <1>3 DEF Upsert, ClearAbsent, DeleteStale, ClearParent, At, Working, Over
<1>5. \E q : cyc' = [cyc EXCEPT ![d] = q]
  BY <1>2, <1>3 DEF Upsert, ClearAbsent, DeleteStale, ClearParent, Sweep, End, Put
<1>6. d = c
  BY <1>1, <1>5, OfACycle
<1> QED
  BY <1>2, <1>3, <1>6

(* The rows of a sweep are the only ones it removes.                       *)
LEMMA SweepRemoves ==
    ASSUME IInv, NEW c \in Cycles, NEW e, NEW next, NEW gone, Sweep(c, e, gone, next),
           NEW r \in Rows, Removes(c, r)
    PROVE  r \in gone
<1>1. \/ at' = at
      \/ at' = [x \in Rows |-> IF x \in gone THEN None ELSE at[x]]
  BY DEF Sweep, Delete, rowVars
<1> QED
  BY <1>1 DEF Removes

(* A delete of a cycle: each statement deletes what the emission leaves    *)
(* out, and the rows of the emission are where it puts them.               *)
LEMMA RemovalsAllowed ==
    ASSUME IInv, MirrorInv, [Next]_vars, NEW c \in Cycles, NEW r \in Rows, Removes(c, r)
    PROVE  MayRemove(c, r)
<1>1. Upsert(c) \/ ClearAbsent(c) \/ DeleteStale(c) \/ ClearParent(c)
  BY WhoRemoves
<1>2. Working(c) /\ Live(r) /\ at'[r] = None
  BY <1>1 DEF Upsert, ClearAbsent, DeleteStale, ClearParent, At, Working, Over, Removes, Live
<1>3. /\ TypeOK /\ Shape(cyc[c]) /\ cyc[c] \in CycleStates
      /\ Course(cyc[c]) /\ (ungrouped \/ Progress(cyc[c]))
      /\ Placed /\ (Reviews => ~ungrouped)
  BY <1>2, OfAWorkingCycle
<1>4. /\ Item(r) \in cyc[c].items => cyc[c].to[Item(r)] \in Subs
      /\ cyc[c].how \in {"flat", "grouped", "routed"}
  BY <1>3 DEF CycleStates
<1>5. ASSUME Calm(r), ~ungrouped, cyc[c].how = "grouped"
      PROVE  at[r] \in {Parent, cyc[c].to[Item(r)]}
  BY <1>2, <1>3, <1>5 DEF Course, Strategy, Placed, PlacedRow
<1>6. ASSUME Upsert(c) PROVE MayRemove(c, r)
  <2>1. PICK e \in cyc[c].upserts :
          LET new == {i \in Group(c, e) : ~Holds(e, i)}
              gone == IF cyc[c].additive THEN {}
                      ELSE {x \in RowsAt({e}) : Item(x) \notin Group(c, e)}
          IN  IF Aborts(c, e)
                THEN /\ End(c, "collided") /\ UNCHANGED <<rowVars, recorded, crossed>>
                ELSE /\ \A i \in new : \E k \in 1..MaxCopies : <<i, k>> \notin used
                     /\ Delete(c, gone, {NewRow(i) : i \in new}, e)
                     /\ Put(c, [cyc[c] EXCEPT !.upserts = @ \ {e}, !.removed = Reported(c, gone)])
                     /\ UNCHANGED inflight
    BY <1>6 DEF Upsert
  <2>2. /\ Group(c, e) = {i \in cyc[c].items : Target(cyc[c], i) = e}
        /\ e \in Subtree /\ e \in Epics /\ (e = Parent <=> cyc[c].how = "flat")
    BY <1>3, GroupIsItsTargets
  <2>3. ~Aborts(c, e)
    BY <1>2, <2>1 DEF rowVars, Live
  <2>4. /\ \A i \in NewItems(c, e) : \E k \in 1..MaxCopies : <<i, k>> \notin used
        /\ Delete(c, Gone(c, e), Born(c, e), e)
    BY <2>1, <2>3 DEF NewItems, Gone, Born
  <2>5. Group(c, e) \subseteq Items
    BY <1>3, <2>2 DEF CycleStates
  <2>6. r \in Gone(c, e)
    BY <1>2, <2>2, <2>4, <2>5, UpsertedRows, Constants DEF Live
  <2>7. at[r] = e /\ Item(r) \notin Group(c, e) /\ ~cyc[c].additive
    <3>1. \A x \in Gone(c, e) : at[x] = e /\ Item(x) \notin Group(c, e) /\ ~cyc[c].additive
      BY <2>2, <2>4, <2>5, UpsertedRows
    <3> QED
      BY <2>6, <3>1
  <2>8. ASSUME Item(r) \in cyc[c].items, Calm(r) PROVE cyc[c].how = "grouped" /\ ungrouped
    <3>1. at[r] # Target(cyc[c], Item(r))
      BY <2>2, <2>7, <2>8
    <3>2. cyc[c].how # "flat"
      BY <2>2, <2>7, <3>1 DEF Target
    <3>3. cyc[c].how # "routed"
      <4> SUFFICES ASSUME cyc[c].how = "routed" PROVE FALSE
        OBVIOUS
      <4>1. cyc[c].step = "upserts" /\ Reviews
        BY <1>3, <1>6 DEF Upsert, At, Course, Strategy
      <4> QED
        BY <1>2, <1>3, <2>8, <3>1, <4>1 DEF Progress, Moved, Target
    <3>4. ungrouped
      BY <1>4, <1>5, <2>2, <2>7, <2>8, <3>1, <3>2, <3>3 DEF Target
    <3> QED
      BY <1>4, <3>2, <3>3, <3>4
  <2> QED
    BY <2>2, <2>7, <2>8 DEF MayRemove, Calm
<1>7. ASSUME ClearAbsent(c) PROVE MayRemove(c, r)
  <2>1. /\ cyc[c].how = "grouped" /\ ~cyc[c].additive /\ cyc[c].absent \subseteq Subs
        /\ \A i \in cyc[c].items : cyc[c].to[i] \notin cyc[c].absent
    BY <1>3, <1>7 DEF ClearAbsent, At, Course, Stage, ClearsTheRest
  <2>2. PICK e \in cyc[c].absent : r \in RowsAt({e})
    BY <1>7, SweepRemoves DEF ClearAbsent
  <2>3. at[r] = e /\ at[r] \in Subtree /\ at[r] # Parent
    BY <2>1, <2>2, Constants DEF RowsAt, Subtree
  <2> QED
    BY <1>5, <2>1, <2>3 DEF MayRemove, Calm
<1>8. ASSUME DeleteStale(c) PROVE MayRemove(c, r)
  <2>1. ~cyc[c].additive
    BY <1>3, <1>8 DEF DeleteStale, At, Course, Stage
  <2>2. r \in {x \in RowsAt(Subs) : Item(x) \notin cyc[c].items}
    <3>1. Sweep(c, Parent, {x \in RowsAt(Subs) : Item(x) \notin cyc[c].items}, "clear")
      BY <1>8 DEF DeleteStale
    <3> QED
      BY <3>1, SweepRemoves
  <2>3. at[r] \in Subs /\ Item(r) \notin cyc[c].items
    BY <2>2 DEF RowsAt
  <2> QED
    BY <2>1, <2>3 DEF MayRemove, Subtree
<1>9. ASSUME ClearParent(c) PROVE MayRemove(c, r)
  <2>1. ~cyc[c].additive /\ cyc[c].how # "flat" /\ cyc[c].step = "clear"
    BY <1>3, <1>9 DEF ClearParent, At, Course, Stage
  <2>2. at[r] = Parent
    BY <1>9, SweepRemoves DEF ClearParent, RowsAt
  <2>3. ASSUME cyc[c].how = "routed", Item(r) \in cyc[c].items, Calm(r) PROVE FALSE
    <3>1. Moved(cyc[c])
      BY <1>3, <2>1, <2>3 DEF Course, Strategy, Progress
    <3> QED
      BY <1>2, <1>4, <2>2, <2>3, <3>1, Constants DEF Moved
  <2> QED
    BY <1>4, <2>1, <2>2, <2>3 DEF MayRemove, Calm, Subtree
<1> QED
  BY <1>1, <1>6, <1>7, <1>8, <1>9

(* No delete of a cycle takes a row of an emitted item, or one outside the *)
(* epic's subtree, or anything after an emission that is not trusted,      *)
(* unless the user moved the item; the migration to groups is the          *)
(* exception (upsert_feed_tasks, delete_stale_feed_tasks).                 *)
THEOREM RowsSpared == Spec => CyclesSpareRows
<1>1. IInv /\ MirrorInv /\ [Next]_vars =>
        [\A c \in Cycles, r \in Rows : Removes(c, r) =>
           /\ ~cyc[c].additive /\ at[r] \in Subtree
           /\ \/ Item(r) \notin cyc[c].items \/ Item(r) \in touched
              \/ cyc[c].how = "grouped" /\ (at[r] = Parent \/ ungrouped)]_vars
  BY RemovalsAllowed DEF MayRemove
<1> QED
  BY <1>1, MirrorInvHolds, PTL DEF Spec, CyclesSpareRows
=============================================================================
