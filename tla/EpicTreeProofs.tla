---------------------------- MODULE EpicTreeProofs ----------------------------
(***************************************************************************)
(* What EpicTree keeps for any finite hierarchy and any number of          *)
(* overlapping handlers: no row dangles, the hierarchy stays a forest      *)
(* unless two reparentings race, the cleanup of a group loses no task      *)
(* unless something is put below the group after its emptiness read, and   *)
(* the epics are in step when the handlers have ended, unless two of them  *)
(* overlapped.  The last needs what recalculate_epic_status leaves of the  *)
(* path it walks (WalkClimbs) and who still owes a recalculation (CalmInv).*)
(***************************************************************************)
EXTENDS EpicTree, FiniteSetTheorems, SequenceTheorems, WellFoundedInduction, TLAPS

-----------------------------------------------------------------------------
(* Hierarchies.  Below(E, P, e) is the subtree of e in the epics E with    *)
(* parents P, so that Subtree(e) = Below(epics, parent, e), and the same   *)
(* after a step.                                                           *)

Inherits(E, P, S) == \A d \in E : P[d] \in S => d \in S
Below(E, P, e) ==
    IF e \notin E THEN {}
    ELSE {d \in E : \A S \in SUBSET E : (e \in S /\ Inherits(E, P, S)) => d \in S}
Forest(E, P) == \A S \in SUBSET E : S # {} => \E e \in S : P[e] \notin S

(* Membership in a subtree.                                                *)
LEMMA BelowMember ==
    ASSUME NEW E, NEW P, NEW e \in E, NEW d
    PROVE  d \in Below(E, P, e) <=>
             d \in E /\ \A S \in SUBSET E : (e \in S /\ Inherits(E, P, S)) => d \in S
BY DEF Below

(* A subtree holds its root and whatever has its parent in it, ...         *)
LEMMA BelowInherits ==
    ASSUME NEW E, NEW P, NEW e
    PROVE  /\ Below(E, P, e) \subseteq E
           /\ e \in E => e \in Below(E, P, e)
           /\ Inherits(E, P, Below(E, P, e))
BY DEF Below, Inherits

(* ... and nothing else: the parent of all it holds but its root is in it. *)
LEMMA BelowParent ==
    ASSUME NEW E, NEW P, NEW e, NEW d \in Below(E, P, e), d # e
    PROVE  P[d] \in Below(E, P, e)
<1>1. e \in E /\ d \in E
  BY DEF Below
<1>2. SUFFICES ASSUME P[d] \notin Below(E, P, e) PROVE FALSE
  OBVIOUS
<1>3. PICK S \in SUBSET E : e \in S /\ Inherits(E, P, S) /\ P[d] \notin S
  <2>1. CASE P[d] \in E
    BY <1>1, <1>2, <2>1, BelowMember
  <2>2. CASE P[d] \notin E
    BY <1>1, <2>2 DEF Inherits
  <2> QED
    BY <2>1, <2>2
<1>4. S \ {d} \in SUBSET E /\ e \in S \ {d} /\ Inherits(E, P, S \ {d})
  BY <1>3 DEF Inherits
<1> QED
  BY <1>1, <1>4, BelowMember

(* A subtree within a subtree.                                             *)
LEMMA BelowWithin ==
    ASSUME NEW E, NEW P, NEW e, NEW d \in Below(E, P, e)
    PROVE  Below(E, P, d) \subseteq Below(E, P, e)
<1>1. e \in E /\ d \in E
  BY DEF Below
<1> QED
  BY <1>1, BelowMember

(* What is below an epic is below its parent.                              *)
LEMMA BelowUp ==
    ASSUME NEW E, NEW P, NEW e \in E, P[e] \in E
    PROVE  Below(E, P, e) \subseteq Below(E, P, P[e])
<1>1. P[e] \in Below(E, P, P[e])
  BY BelowInherits
<1>2. e \in Below(E, P, P[e])
  BY <1>1, BelowInherits DEF Inherits
<1> QED
  BY <1>2, BelowWithin

(* An epic without children is alone in its subtree.                       *)
LEMMA BelowLeaf ==
    ASSUME NEW E, NEW P, NEW e, \A d \in E : P[d] # e
    PROVE  Below(E, P, e) \subseteq {e}
<1>1. CASE e \in E
  <2>1. {e} \in SUBSET E /\ Inherits(E, P, {e})
    BY <1>1 DEF Inherits
  <2> QED
    BY <1>1, <2>1, BelowMember
<1>2. CASE e \notin E
  BY <1>2 DEF Below
<1> QED
  BY <1>1, <1>2

-----------------------------------------------------------------------------
(* A cut: a subtree is deleted, and the rest keeps its parents.            *)

Cut(E, P, g, F, Q) ==
    /\ F = E \ Below(E, P, g)
    /\ \A d \in F : Q[d] = P[d]

(* A subtree loses what was cut and nothing else.                          *)
LEMMA CutBelow ==
    ASSUME NEW E, NEW P, NEW g, NEW F, NEW Q, Cut(E, P, g, F, Q), NEW e
    PROVE  /\ Below(F, Q, e) \subseteq Below(E, P, e)
           /\ e \in F => Below(E, P, e) \ Below(E, P, g) \subseteq Below(F, Q, e)
<1> DEFINE gone == Below(E, P, g)
<1>1. F = E \ gone /\ \A d \in F : Q[d] = P[d]
  BY DEF Cut
<1>2. Inherits(E, P, gone)
  BY BelowInherits
<1> HIDE DEF gone
<1>3. ASSUME NEW d \in Below(F, Q, e)
      PROVE  d \in Below(E, P, e)
  <2>1. e \in F /\ d \in F
    BY <1>3 DEF Below
  <2>2. ASSUME NEW S \in SUBSET E, e \in S, Inherits(E, P, S)
        PROVE  d \in S
    <3>1. S \cap F \in SUBSET F /\ e \in S \cap F /\ Inherits(F, Q, S \cap F)
      BY <1>1, <2>1, <2>2 DEF Inherits
    <3> QED
      BY <1>3, <2>1, <3>1, BelowMember
  <2> QED
    BY <1>1, <2>1, <2>2, BelowMember
<1>4. ASSUME e \in F, NEW d \in Below(E, P, e), d \notin gone
      PROVE  d \in Below(F, Q, e)
  <2>1. e \in E /\ d \in F
    BY <1>1, <1>4, BelowInherits
  <2>2. ASSUME NEW S \in SUBSET F, e \in S, Inherits(F, Q, S)
        PROVE  d \in S
    <3>1. S \cup (gone \cap E) \in SUBSET E /\ e \in S \cup (gone \cap E)
      BY <1>1, <2>2
    <3>2. Inherits(E, P, S \cup (gone \cap E))
      BY <1>1, <1>2, <2>2 DEF Inherits
    <3>3. d \in S \cup (gone \cap E)
      BY <1>4, <2>1, <3>1, <3>2, BelowMember
    <3> QED
      BY <1>4, <3>3
  <2> QED
    BY <1>4, <2>1, <2>2, BelowMember
<1> QED
  BY <1>3, <1>4 DEF gone

(* A forest that is cut is a forest.                                       *)
LEMMA CutForest ==
    ASSUME NEW E, NEW P, NEW g, NEW F, NEW Q, Cut(E, P, g, F, Q), Forest(E, P)
    PROVE  Forest(F, Q)
<1>1. SUFFICES ASSUME NEW S \in SUBSET F, S # {} PROVE \E e \in S : Q[e] \notin S
  BY DEF Forest
<1>2. S \in SUBSET E /\ \A d \in S : Q[d] = P[d]
  BY DEF Cut
<1> QED
  BY <1>1, <1>2 DEF Forest

-----------------------------------------------------------------------------
(* A growth: a new epic g appears under an epic of the hierarchy.          *)

Grown(E, P, g, F, Q) ==
    /\ g \notin E /\ F = E \cup {g} /\ Q[g] # g
    /\ \A d \in E : Q[d] = P[d] /\ P[d] # g

(* The subtrees of the others gain at most the newcomer, ...               *)
LEMMA GrownBelow ==
    ASSUME NEW E, NEW P, NEW g, NEW F, NEW Q, Grown(E, P, g, F, Q), NEW e, e # g
    PROVE  /\ Below(E, P, e) \subseteq Below(F, Q, e)
           /\ Below(F, Q, e) \subseteq Below(E, P, e) \cup {g}
<1> USE DEF Grown
<1>1. CASE e \notin E
  BY <1>1 DEF Below
<1>2. CASE e \in E
  <2>1. ASSUME NEW d \in Below(E, P, e)
        PROVE  d \in Below(F, Q, e)
    <3>1. ASSUME NEW S \in SUBSET F, e \in S, Inherits(F, Q, S)
          PROVE  d \in S
      <4>1. S \ {g} \in SUBSET E /\ e \in S \ {g} /\ Inherits(E, P, S \ {g})
        BY <3>1 DEF Inherits
      <4> QED
        BY <1>2, <2>1, <4>1, BelowMember
    <3> QED
      BY <1>2, <2>1, <3>1, BelowMember
  <2>2. ASSUME NEW d \in Below(F, Q, e), d # g
        PROVE  d \in Below(E, P, e)
    <3>1. d \in E
      BY <2>2 DEF Below
    <3>2. ASSUME NEW S \in SUBSET E, e \in S, Inherits(E, P, S)
          PROVE  d \in S
      <4>1. S \cup {g} \in SUBSET F /\ e \in S \cup {g} /\ Inherits(F, Q, S \cup {g})
        BY <3>2 DEF Inherits
      <4> QED
        BY <1>2, <2>2, <4>1, BelowMember
    <3> QED
      BY <1>2, <3>1, <3>2, BelowMember
  <2> QED
    BY <2>1, <2>2
<1> QED
  BY <1>1, <1>2

(* ... which has nothing below it yet.                                     *)
LEMMA GrownForest ==
    ASSUME NEW E, NEW P, NEW g, NEW F, NEW Q, Grown(E, P, g, F, Q), Forest(E, P)
    PROVE  Forest(F, Q)
<1>1. SUFFICES ASSUME NEW S \in SUBSET F, S # {} PROVE \E e \in S : Q[e] \notin S
  BY DEF Forest
<1>2. CASE S \ {g} = {}
  BY <1>1, <1>2 DEF Grown
<1>3. CASE S \ {g} # {}
  <2>1. S \ {g} \in SUBSET E
    BY <1>1 DEF Grown
  <2>2. PICK e \in S \ {g} : P[e] \notin S \ {g}
    BY <1>3, <2>1 DEF Forest
  <2> QED
    BY <2>1, <2>2 DEF Grown
<1> QED
  BY <1>2, <1>3

(* A reparenting under p keeps the forest if p is not below e.             *)
LEMMA LinkForest ==
    ASSUME NEW E, NEW P, NEW e \in E, NEW p, p \notin Below(E, P, e), NEW Q,
           Q[e] = p, \A d \in E \ {e} : Q[d] = P[d], Forest(E, P)
    PROVE  Forest(E, Q)
<1>1. SUFFICES ASSUME NEW S \in SUBSET E, S # {}, \A d \in S : Q[d] \in S PROVE FALSE
  BY DEF Forest
<1> DEFINE T == S \ Below(E, P, e)
<1>2. CASE e \notin S
  BY <1>1, <1>2 DEF Forest
<1>3. CASE e \in S
  <2>1. p \in T
    BY <1>1, <1>3
  <2>2. ASSUME NEW d \in T PROVE P[d] \in T
    <3>1. d # e
      BY BelowInherits
    <3>2. P[d] \in S /\ P[d] \notin Below(E, P, e)
      BY <1>1, <3>1, BelowInherits DEF Inherits
    <3> QED
      BY <3>2
  <2> QED
    BY <1>1, <2>1, <2>2 DEF Forest
<1> QED
  BY <1>2, <1>3

-----------------------------------------------------------------------------
(* Calls and programs.                                                     *)

Ends == Epics \cup {None}
Placing == {"create", "move", "migrate", "reroot"}
(* These are only ever a handler's next call, made by the one before it.   *)
HeadKinds == {"check", "link", "drop"}
CallKinds ==
    Placing \cup HeadKinds \cup {"recalc", "find", "set", "insert", "reroute", "drain", "cleanup"}
FormOK(a) ==
    /\ a.call \in Placing \cup {"insert", "reroute"} => a.repo \in Repos
    /\ a.call \in {"create", "insert"} => a.task \in Tasks
    /\ a.call \in {"check", "link"} => a.epic \in Manual
    /\ a.call = "check" => a.to \in Epics
    /\ a.call \in {"drop", "drain"} => a.epic \in Groups
CallSet ==
    {a \in [call : CallKinds, task : Tasks \cup Ends, epic : Ends, to : Ends,
            repo : Repos \cup {None}] : FormOK(a)}
Plain == {a \in CallSet : a.call \notin HeadKinds}
Programs == {q \in Seq(CallSet) : \A i \in 2..Len(q) : q[i] \in Plain}

TreeOK ==
    /\ epics \subseteq Epics /\ parent \in [Epics -> Ends] /\ grouped \subseteq Roots
    /\ \A e \in epics : parent[e] \in epics \cup {None}
    /\ \A g \in epics \cap Groups : parent[g] = g[1]
BoardOK ==
    /\ tasks \subseteq Tasks /\ home \in [Tasks -> Ends] /\ repo \in [Tasks -> Repos \cup {None}]
    /\ \A t \in tasks : home[t] \in epics \cup {None} /\ repo[t] \in Repos
HandlersOK == todo \in [Calls -> Programs]
Base == TreeOK /\ BoardOK /\ HandlersOK

(* The calls that handlers make are well formed.                           *)
LEMMA CallsFormed ==
    /\ \A e \in Ends : Recalc(e) \in Plain /\ Cleanup(e) \in Plain
    /\ \A t \in Tasks : Find(t) \in Plain
    /\ \A t \in Tasks \cup Ends, e \in Ends : Set(t, e) \in Plain
    /\ \A t \in Tasks, r \in Repos : Reroute(t, r) \in Plain
    /\ \A t \in Tasks, e \in Ends, r \in Repos : Insert(t, e, r) \in Plain
    /\ \A t \in Tasks, e \in Ends, r \in Repos, old \in Ends, how \in Placing :
         Place(how, t, e, r, old) \in Plain
    /\ \A g \in Groups : Drain(g) \in Plain /\ Drop(g) \in CallSet
    /\ \A e \in Manual, p \in Ends : Link(e, p) \in CallSet
    /\ \A e \in Manual, p \in Epics, at \in Ends : Check(e, p, at) \in CallSet
<1> USE DEF Nil, Plain, CallSet, CallKinds, HeadKinds, Placing, FormOK, Ends, Epics
<1>1. \A e \in Ends : Recalc(e) \in Plain /\ Cleanup(e) \in Plain
  BY DEF Recalc, Cleanup
<1>2. \A t \in Tasks : Find(t) \in Plain
  BY DEF Find
<1>3. \A t \in Tasks \cup Ends, e \in Ends : Set(t, e) \in Plain
  BY DEF Set
<1>4. \A t \in Tasks, r \in Repos : Reroute(t, r) \in Plain
  BY DEF Reroute
<1>5. \A t \in Tasks, e \in Ends, r \in Repos : Insert(t, e, r) \in Plain
  BY DEF Insert
<1>6. \A t \in Tasks, e \in Ends, r \in Repos, old \in Ends, how \in Placing :
        Place(how, t, e, r, old) \in Plain
  BY DEF Place
<1>7. \A g \in Groups : Drain(g) \in Plain /\ Drop(g) \in CallSet
  BY DEF Drain, Drop
<1>8. \A e \in Manual, p \in Ends : Link(e, p) \in CallSet
  BY DEF Link
<1>9. \A e \in Manual, p \in Epics, at \in Ends : Check(e, p, at) \in CallSet
  BY DEF Check
<1> QED
  BY <1>1, <1>2, <1>3, <1>4, <1>5, <1>6, <1>7, <1>8, <1>9

(* A list of calls that need no predecessor is a program, before the rest  *)
(* of another too.                                                         *)
LEMMA PlainPrograms ==
    ASSUME NEW s \in Seq(Plain)
    PROVE  s \in Programs
<1>1. s \in Seq(CallSet)
  BY SeqMonotonic DEF Plain
<1>2. \A i \in 1..Len(s) : s[i] \in Plain
  BY ElementOfSeq
<1> QED
  BY <1>1, <1>2 DEF Programs

(* What remains of a program is one.                                       *)
LEMMA RestPlain ==
    ASSUME NEW q \in Programs, q # << >>
    PROVE  Head(q) \in CallSet /\ Tail(q) \in Seq(Plain)
<1>1. q \in Seq(CallSet) /\ \A i \in 2..Len(q) : q[i] \in Plain
  BY DEF Programs
<1>2. Len(q) \in Nat \ {0}
  BY <1>1, EmptySeq
<1>3. Head(q) \in CallSet
  BY <1>1, HeadTailProperties
<1>4. /\ Tail(q) \in Seq(CallSet) /\ Len(Tail(q)) = Len(q) - 1
      /\ \A i \in 1..Len(Tail(q)) : Tail(q)[i] = q[i + 1]
  BY <1>1, HeadTailProperties
<1>5. Tail(q) \in [1..Len(Tail(q)) -> Plain]
  <2>1. Tail(q) \in [1..Len(Tail(q)) -> CallSet]
    BY <1>4, LenProperties
  <2>2. \A i \in 1..Len(Tail(q)) : Tail(q)[i] \in Plain
    BY <1>1, <1>2, <1>4
  <2> QED
    BY <2>1, <2>2
<1>6. Len(Tail(q)) \in Nat
  BY <1>2, <1>4
<1> QED
  BY <1>3, <1>5, <1>6, SeqDef

(* Lists of one, two or three calls.                                       *)
LEMMA ShortPrograms ==
    /\ << >> \in Seq(Plain)
    /\ \A a \in Plain : <<a>> \in Seq(Plain)
    /\ \A a, b \in Plain : <<a, b>> \in Seq(Plain)
    /\ \A a, b, c \in Plain : <<a, b, c>> \in Seq(Plain)
    /\ \A s1, s2 \in Seq(Plain) : s1 \o s2 \in Seq(Plain)
<1>1. \A s1, s2 \in Seq(Plain) : s1 \o s2 \in Seq(Plain)
  BY ConcatProperties
<1>2. << >> \in Seq(Plain)
  BY EmptySeq
<1> QED
  BY <1>1, <1>2

(* A handler whose next call is a, then the rest.                          *)
LEMMA HeadedProgram ==
    ASSUME NEW a \in CallSet, NEW s \in Seq(Plain)
    PROVE  /\ <<a>> \o s \in Programs
           /\ <<a>> \o s # << >> /\ Head(<<a>> \o s) = a
           /\ \A i \in 2..Len(<<a>> \o s) : (<<a>> \o s)[i] \in Plain
<1>1. <<a>> \in Seq(CallSet) /\ Len(<<a>>) = 1 /\ <<a>>[1] = a
  OBVIOUS
<1>2. s \in Seq(CallSet)
  BY SeqMonotonic DEF Plain
<1> DEFINE q == <<a>> \o s
<1>3. /\ q \in Seq(CallSet) /\ Len(q) = 1 + Len(s)
      /\ \A i \in 1..(1 + Len(s)) : q[i] = IF i <= 1 THEN <<a>>[i] ELSE s[i - 1]
  BY <1>1, <1>2, ConcatProperties
<1>4. Len(s) \in Nat /\ \A i \in 1..Len(s) : s[i] \in Plain
  BY LenProperties, ElementOfSeq
<1> HIDE DEF q
<1>5. \A i \in 2..Len(q) : q[i] \in Plain
  BY <1>3, <1>4
<1>6. q # << >> /\ Head(q) = q[1] /\ q[1] = a
  BY <1>1, <1>3, <1>4, HeadTailProperties, EmptySeq
<1> QED
  BY <1>3, <1>5, <1>6 DEF Programs, q

(* The list of one call for each member of a finite set.                   *)
LEMMA SetOfFinite ==
    ASSUME NEW S, IsFiniteSet(S)
    PROVE  Cardinality(S) \in Nat /\ SetOf(S) \in [1..Cardinality(S) -> S]
<1>1. Cardinality(S) \in Nat /\ ExistsBijection(1..Cardinality(S), S)
  BY FS_CardinalityType
<1>2. PICK q \in Bijection(1..Cardinality(S), S) : TRUE
  BY <1>1 DEF ExistsBijection
<1>3. q \in [1..Cardinality(S) -> S] /\ \A i, j \in DOMAIN q : i # j => q[i] # q[j]
  BY <1>2 DEF Bijection, Injection, IsInjective
<1> QED
  BY <1>1, <1>3 DEF SetOf

(* A program of two or three calls.                                        *)
LEMMA ShortHeaded ==
    ASSUME NEW a \in CallSet, NEW b \in Plain, NEW d \in Plain
    PROVE  /\ <<a, b>> \in Programs /\ <<a, b>> # << >> /\ Head(<<a, b>>) = a
           /\ <<a, b, d>> \in Programs /\ <<a, b, d>> # << >> /\ Head(<<a, b, d>>) = a
<1>1. b \in CallSet /\ d \in CallSet
  BY DEF Plain
<1>2. <<a, b>> \in Seq(CallSet) /\ <<a, b, d>> \in Seq(CallSet)
  BY <1>1
<1>3. \A i \in 2..Len(<<a, b>>) : <<a, b>>[i] \in Plain
  OBVIOUS
<1>4. \A i \in 2..Len(<<a, b, d>>) : <<a, b, d>>[i] \in Plain
  OBVIOUS
<1> QED
  BY <1>2, <1>3, <1>4 DEF Programs

(* One plain call for each member of a finite set.                         *)
LEMMA EachPlain ==
    ASSUME NEW S, IsFiniteSet(S), NEW f, \A x \in S : f[x] \in Plain
    PROVE  [i \in 1..Cardinality(S) |-> f[SetOf(S)[i]]] \in Seq(Plain)
<1>1. Cardinality(S) \in Nat /\ SetOf(S) \in [1..Cardinality(S) -> S]
  BY SetOfFinite
<1>2. [i \in 1..Cardinality(S) |-> f[SetOf(S)[i]]] \in [1..Cardinality(S) -> Plain]
  BY <1>1
<1> QED
  BY <1>1, <1>2, SeqDef

-----------------------------------------------------------------------------
(* What a step does to the handlers: handler c is left with plain calls,   *)
(* or with call a next.                                                    *)

OthersStay(c) == \A d \in Calls \ {c} : todo'[d] = todo[d]
Settles(c) == HandlersOK' /\ todo'[c] \in Seq(Plain) /\ OthersStay(c)
Heads(c, a) == HandlersOK' /\ todo'[c] # << >> /\ Head(todo'[c]) = a /\ OthersStay(c)

(* The handler's next call, when it has one, and what follows it.          *)
LEMMA Current ==
    ASSUME HandlersOK, NEW c \in Calls, Busy(c)
    PROVE  /\ Arg(c) \in CallSet /\ Tail(todo[c]) \in Seq(Plain) /\ todo[c] \in Programs
           /\ \A k : Next1(c, k) <=> Arg(c).call = k
BY RestPlain DEF HandlersOK, Busy, Arg, Next1

(* A call answered by plain calls.                                         *)
LEMMA ThenSettles ==
    ASSUME HandlersOK, NEW c \in Calls, Busy(c), NEW s \in Seq(Plain), Then(c, s)
    PROVE  Settles(c)
<1>1. s \o Tail(todo[c]) \in Seq(Plain)
  BY Current, ConcatProperties
<1>2. todo' = [todo EXCEPT ![c] = s \o Tail(todo[c])]
  BY DEF Then, Left
<1> QED
  BY <1>1, <1>2, PlainPrograms DEF HandlersOK, Settles, OthersStay

(* A handler that fails drops its calls.                                   *)
LEMMA FailSettles ==
    ASSUME HandlersOK, NEW c \in Calls, Fail(c)
    PROVE  Settles(c)
<1>1. todo' = [todo EXCEPT ![c] = << >>]
  BY DEF Fail, Left
<1> QED
  BY <1>1, PlainPrograms, ShortPrograms DEF HandlersOK, Settles, OthersStay

(* A call answered by one more call.                                       *)
LEMMA ThenHeads ==
    ASSUME HandlersOK, NEW c \in Calls, Busy(c), NEW a \in CallSet, Then(c, <<a>>)
    PROVE  Heads(c, a)
<1>1. todo' = [todo EXCEPT ![c] = <<a>> \o Tail(todo[c])]
  BY DEF Then, Left
<1>2. Tail(todo[c]) \in Seq(Plain)
  BY Current
<1> DEFINE q == <<a>> \o Tail(todo[c])
<1>3. q \in Programs /\ q # << >> /\ Head(q) = a
  BY <1>2, HeadedProgram
<1> HIDE DEF q
<1>4. todo' = [todo EXCEPT ![c] = q]
  BY <1>1 DEF q
<1> QED
  BY <1>3, <1>4 DEF HandlersOK, Heads, OthersStay

(* A handler that starts with plain calls.                                 *)
LEMMA StartSettles ==
    ASSUME HandlersOK, NEW c \in Calls, NEW s \in Seq(Plain), NEW ts, Start(c, ts, s)
    PROVE  Settles(c) /\ overlap \subseteq overlap'
<1>1. todo' = [todo EXCEPT ![c] = s] /\ overlap \subseteq overlap'
  BY DEF Start
<1> QED
  BY <1>1, PlainPrograms DEF HandlersOK, Settles, OthersStay

-----------------------------------------------------------------------------
(* The steps that leave the hierarchy alone and put no task anywhere.      *)

SameTree == UNCHANGED <<epics, parent>>
Shrinks == tasks' \subseteq tasks /\ \A t \in tasks' : home'[t] = home[t]
PlainStep(c) ==
    /\ Settles(c) /\ SameTree /\ Shrinks /\ lost' = lost /\ overlap \subseteq overlap'
    /\ TreeOK' /\ BoardOK'

(* Unchanged parts stay well formed.                                       *)
LEMMA TreeKept ==
    ASSUME TreeOK, SameTree, grouped' \subseteq Roots
    PROVE  TreeOK'
BY DEF TreeOK, SameTree

(* The same of the tasks, when no epic goes.                                 *)
LEMMA BoardKept ==
    ASSUME BoardOK, UNCHANGED <<tasks, home, repo>>, epics \subseteq epics'
    PROVE  BoardOK'
BY DEF BoardOK

(* Rows that are deleted leave a board that is well formed.                *)
LEMMA TasksForgotten ==
    ASSUME BoardOK, NEW ts, ForgetTasks(ts),
           \A t \in tasks \ ts : home[t] \in epics' \cup {None}
    PROVE  BoardOK' /\ Shrinks
BY DEF BoardOK, ForgetTasks, Forget, Shrinks, Ends

(* A handler begins, other than a reparenting.                             *)
LEMMA BeginsPlain ==
    ASSUME Base, NEW c \in Calls, Begin(c),
           ~ \E e \in epics : Unparent(c, e) \/ \E p \in epics : Reparent(c, e, p)
    PROVE  PlainStep(c)
<1> USE DEF Base, PlainStep, SameTree, Shrinks, tree, board
<1>0. /\ tasks \subseteq Tasks /\ epics \subseteq Epics /\ epics \subseteq Ends /\ None \in Ends
      /\ \A t \in Tasks : home[t] \in Ends
      /\ \A t \in tasks : repo[t] \in Repos
      /\ \A e \in epics : parent[e] \in Ends
      /\ grouped \subseteq Roots
  BY DEF TreeOK, BoardOK, Ends
<1>1. ASSUME NEW t \in Tasks, NEW s \in Statuses, SetTaskStatus(c, t, s)
      PROVE  PlainStep(c)
  <2>1. <<Find(t)>> \in Seq(Plain)
    BY <1>0, CallsFormed, ShortPrograms
  <2> QED
    BY <1>0, <1>1, <2>1, StartSettles, TreeKept, BoardKept DEF SetTaskStatus
<1>2. ASSUME NEW t \in Tasks, NEW e \in epics, NEW r \in Repos, CreateTask(c, t, e, r)
      PROVE  PlainStep(c)
  <2>1. <<Place("create", t, e, r, None)>> \in Seq(Plain)
    BY <1>0, CallsFormed, ShortPrograms DEF Placing
  <2> QED
    BY <1>0, <1>2, <2>1, StartSettles, TreeKept, BoardKept DEF CreateTask
<1>3. ASSUME NEW t \in Tasks, NEW e \in epics, MoveTask(c, t, e)
      PROVE  PlainStep(c)
  <2>1. <<Place("move", t, e, repo[t], home[t])>> \in Seq(Plain)
    BY <1>0, <1>3, CallsFormed, ShortPrograms DEF Placing, MoveTask
  <2> QED
    BY <1>0, <1>3, <2>1, StartSettles, TreeKept, BoardKept DEF MoveTask
<1>4. ASSUME NEW t \in Tasks, DetachTask(c, t)
      PROVE  PlainStep(c)
  <2>1. <<Set(t, None), Recalc(home[t])>> \in Seq(Plain)
    <3>1. Set(t, None) \in Plain /\ Recalc(home[t]) \in Plain
      BY <1>0, <1>4, CallsFormed DEF DetachTask
    <3> QED
      BY <3>1, ShortPrograms
  <2> QED
    BY <1>0, <1>4, <2>1, StartSettles, TreeKept, BoardKept DEF DetachTask
<1>5. ASSUME NEW t \in Tasks, DeleteTask(c, t)
      PROVE  PlainStep(c)
  <2>1. BoardOK' /\ Shrinks
    BY <1>5, TasksForgotten DEF DeleteTask, BoardOK
  <2> QED
    BY <1>0, <1>5, <2>1, StartSettles, ShortPrograms, TreeKept DEF DeleteTask
<1>6. ASSUME NEW t \in Tasks, NEW r \in Repos, ChangeRepo(c, t, r)
      PROVE  PlainStep(c)
  <2>1. <<Reroute(t, r)>> \in Seq(Plain)
    BY <1>0, CallsFormed, ShortPrograms
  <2>2. BoardOK'
    BY <1>6 DEF ChangeRepo, BoardOK
  <2> QED
    BY <1>0, <1>6, <2>1, <2>2, StartSettles, TreeKept DEF ChangeRepo
<1>7. ASSUME NEW e \in epics, Regroup(c, e)
      PROVE  PlainStep(c)
  <2> DEFINE direct == {t \in TasksOf(e) : tstatus[t] # "archived"}
             f == [t \in Tasks |-> Place("migrate", t, e, repo[t], None)]
             first == [i \in 1..Cardinality(direct) |-> f[SetOf(direct)[i]]]
  <2>1. direct \subseteq tasks
    BY DEF TasksOf
  <2>2. IsFiniteSet(direct)
    BY <1>0, <2>1, FS_Subset, TreeAssumption
  <2>3. \A t \in direct : f[t] \in Plain
    BY <1>0, <2>1, CallsFormed DEF Placing
  <2>4. first \in Seq(Plain)
    BY <2>2, <2>3, EachPlain
  <2>5. first = Each(direct, LAMBDA t : Place("migrate", t, e, repo[t], None))
    <3>1. \A i \in 1..Cardinality(direct) : SetOf(direct)[i] \in Tasks
      BY <1>0, <2>1, <2>2, SetOfFinite
    <3> QED
      BY <3>1 DEF Each
  <2>6. <<Recalc(e)>> \in Seq(Plain)
    BY <1>0, CallsFormed, ShortPrograms
  <2>7. first \o <<Recalc(e)>> \in Seq(Plain)
    BY <2>4, <2>6, ShortPrograms
  <2>8. Start(c, Tasks, first \o <<Recalc(e)>>)
    BY <1>7, <2>5 DEF Regroup
  <2> HIDE DEF first
  <2> QED
    BY <1>0, <1>7, <2>7, <2>8, StartSettles, TreeKept, BoardKept DEF Regroup
<1>8. ASSUME NEW e \in epics, Flatten(c, e)
      PROVE  PlainStep(c)
  <2> DEFINE subs == {g \in SubEpics(e) \cap Groups : estatus[g] # "archived"}
             f == [g \in Groups |-> Drain(g)]
             first == [i \in 1..Cardinality(subs) |-> f[SetOf(subs)[i]]]
  <2>1. subs \subseteq Groups /\ subs \subseteq Epics
    BY DEF Epics
  <2>2. IsFiniteSet(subs)
    BY <2>1, FS_Subset, TreeAssumption
  <2>3. \A g \in subs : f[g] \in Plain
    BY <2>1, CallsFormed
  <2>4. first \in Seq(Plain)
    BY <2>2, <2>3, EachPlain
  <2>5. first = Each(subs, Drain)
    <3>1. \A i \in 1..Cardinality(subs) : SetOf(subs)[i] \in Groups
      BY <2>1, <2>2, SetOfFinite
    <3> QED
      BY <3>1 DEF Each
  <2>6. <<Recalc(e)>> \in Seq(Plain)
    BY <1>0, CallsFormed, ShortPrograms
  <2>7. first \o <<Recalc(e)>> \in Seq(Plain)
    BY <2>4, <2>6, ShortPrograms
  <2>8. Start(c, Tasks, first \o <<Recalc(e)>>)
    BY <1>8, <2>5 DEF Flatten
  <2> HIDE DEF first
  <2> QED
    BY <1>0, <1>8, <2>7, <2>8, StartSettles, TreeKept, BoardKept DEF Flatten
<1>9. ASSUME NEW e \in epics, SetFlag(c, e)
      PROVE  PlainStep(c)
  BY <1>0, <1>9, ShortPrograms, StartSettles, TreeKept, BoardKept DEF SetFlag
<1>10. ASSUME NEW e \in epics, NEW s \in Statuses, SetEpicStatus(c, e, s)
       PROVE  PlainStep(c)
  <2>1. <<Recalc(parent[e])>> \in Seq(Plain)
    BY <1>0, CallsFormed, ShortPrograms
  <2> QED
    BY <1>0, <1>10, <2>1, StartSettles, TreeKept, BoardKept DEF SetEpicStatus
<1> QED
  BY <1>1, <1>2, <1>3, <1>4, <1>5, <1>6, <1>7, <1>8, <1>9, <1>10 DEF Begin

(* A call that only reads, or recalculates, is answered by plain calls.    *)
LEMMA ReadsPlain ==
    ASSUME Base, NEW c \in Calls, FindEpic(c) \/ RecalcEpic(c) \/ RerouteTask(c) \/ DrainGroup(c)
    PROVE  PlainStep(c)
<1> USE DEF Base, PlainStep, SameTree, Shrinks, tree, board, history
<1>0. /\ tasks \subseteq Tasks /\ epics \subseteq Epics /\ epics \subseteq Ends /\ None \in Ends
      /\ \A t \in Tasks : home[t] \in Ends
      /\ grouped \subseteq Roots /\ Roots \subseteq Ends
      /\ \A e \in epics : parent[e] \in Ends
  BY TreeAssumption DEF TreeOK, BoardOK, Ends, Epics
<1>1. Busy(c)
  BY DEF FindEpic, RecalcEpic, RerouteTask, DrainGroup, Next1
<1>2. Arg(c) \in CallSet
  BY <1>1, Current
<1>3. CASE FindEpic(c)
  <2>1. Then(c, IF Arg(c).task \in tasks THEN <<Recalc(home[Arg(c).task])>> ELSE << >>)
    BY <1>3 DEF FindEpic
  <2>2. (IF Arg(c).task \in tasks THEN <<Recalc(home[Arg(c).task])>> ELSE << >>) \in Seq(Plain)
    BY <1>0, CallsFormed, ShortPrograms
  <2>3. Settles(c)
    BY <1>1, <2>1, <2>2, ThenSettles
  <2> QED
    BY <1>0, <1>3, <2>3, TreeKept, BoardKept DEF FindEpic
<1>4. CASE RecalcEpic(c)
  <2>1. Settles(c)
    BY <1>1, <1>4, ThenSettles, ShortPrograms DEF RecalcEpic
  <2> QED
    BY <1>0, <1>4, <2>1, TreeKept, BoardKept DEF RecalcEpic
<1>5. CASE RerouteTask(c)
  <2> DEFINE t == Arg(c).task
             r == Arg(c).repo
             root == IF t \in tasks /\ home[t] \in epics THEN RootOf(home[t]) ELSE None
             calls == IF root = None THEN << >> ELSE <<Place("reroot", t, root, r, home[t])>>
  <2>1. r \in Repos
    BY <1>1, <1>2, <1>5, Current DEF RerouteTask, CallSet, FormOK
  <2>2. root # None => t \in Tasks /\ home[t] \in Ends /\ root \in Ends
    BY <1>0 DEF RootOf
  <2>3. calls \in Seq(Plain)
    BY <2>1, <2>2, CallsFormed, ShortPrograms DEF Placing
  <2>4. Then(c, calls)
    BY <1>5 DEF RerouteTask
  <2> HIDE DEF calls
  <2>5. Settles(c)
    BY <1>1, <2>3, <2>4, ThenSettles
  <2> QED
    BY <1>0, <1>5, <2>5, TreeKept, BoardKept DEF RerouteTask
<1>6. CASE DrainGroup(c)
  <2> DEFINE g == Arg(c).epic
             f == [t \in Tasks |-> Set(t, g[1])]
             first == [i \in 1..Cardinality(TasksOf(g)) |-> f[SetOf(TasksOf(g))[i]]]
  <2>1. g \in Groups /\ g \in Ends /\ g[1] \in Ends
    BY <1>0, <1>1, <1>2, <1>6, Current DEF DrainGroup, CallSet, FormOK, Groups, Ends, Epics
  <2>2. TasksOf(g) \subseteq Tasks
    BY <1>0 DEF TasksOf
  <2>3. IsFiniteSet(TasksOf(g))
    BY <2>2, FS_Subset, TreeAssumption
  <2>4. \A t \in TasksOf(g) : f[t] \in Plain
    BY <2>1, <2>2, CallsFormed
  <2>5. first \in Seq(Plain)
    BY <2>3, <2>4, EachPlain
  <2>6. first = Each(TasksOf(g), LAMBDA t : Set(t, g[1]))
    <3>1. \A i \in 1..Cardinality(TasksOf(g)) : SetOf(TasksOf(g))[i] \in Tasks
      BY <2>2, <2>3, SetOfFinite
    <3> QED
      BY <3>1 DEF Each
  <2>7. <<Cleanup(g)>> \in Seq(Plain)
    BY <2>1, CallsFormed, ShortPrograms
  <2>8. first \o <<Cleanup(g)>> \in Seq(Plain)
    BY <2>5, <2>7, ShortPrograms
  <2>9. Then(c, first \o <<Cleanup(g)>>)
    BY <1>6, <2>6 DEF DrainGroup
  <2> HIDE DEF first, g
  <2>10. Settles(c)
    BY <1>1, <2>8, <2>9, ThenSettles
  <2> QED
    BY <1>0, <1>6, <2>10, TreeKept, BoardKept DEF DrainGroup
<1> QED
  BY <1>3, <1>4, <1>5, <1>6

-----------------------------------------------------------------------------
(* The other steps, one by one.                                            *)

(* A reparenting begins with its check, ...                                *)
LEMMA ReparentBegins ==
    ASSUME Base, NEW c \in Calls, NEW e \in epics, NEW p \in epics, Reparent(c, e, p)
    PROVE  /\ Base' /\ Heads(c, Check(e, p, parent[p])) /\ Check(e, p, parent[p]) \in CallSet
           /\ e \in Manual /\ p # e
           /\ UNCHANGED <<tree, board, lost>> /\ overlap \subseteq overlap'
<1>1. e \in Manual /\ p \in Epics /\ parent[e] \in Ends /\ parent[p] \in Ends /\ p \in Ends
  BY DEF Reparent, Base, TreeOK, Epics, Ends
<1>2. Recalc(parent[e]) \in Plain /\ Recalc(p) \in Plain /\ Check(e, p, parent[p]) \in CallSet
  BY <1>1, CallsFormed
<1> DEFINE q == <<Check(e, p, parent[p]), Recalc(parent[e]), Recalc(p)>>
<1>3. q \in Programs /\ q # << >> /\ Head(q) = Check(e, p, parent[p])
  BY <1>2, ShortHeaded
<1>4. /\ todo' = [todo EXCEPT ![c] = q] /\ overlap \subseteq overlap'
      /\ UNCHANGED <<tree, board, lost>> /\ p # e
  BY DEF Reparent, Start
<1> HIDE DEF q
<1>5. Heads(c, Check(e, p, parent[p]))
  BY <1>3, <1>4 DEF Base, HandlersOK, Heads, OthersStay
<1>6. TreeOK' /\ BoardOK'
  BY <1>4 DEF Base, TreeOK, BoardOK, tree, board
<1> QED
  BY <1>1, <1>2, <1>4, <1>5, <1>6 DEF Base, Heads

(* ... and the release of a parent with its write.                         *)
LEMMA UnparentBegins ==
    ASSUME Base, NEW c \in Calls, NEW e \in epics, Unparent(c, e)
    PROVE  /\ Base' /\ Heads(c, Link(e, None))
           /\ UNCHANGED <<tree, board, lost>> /\ overlap \subseteq overlap'
<1>1. e \in Manual /\ parent[e] \in Ends /\ None \in Ends
  BY DEF Unparent, Base, TreeOK, Epics, Ends
<1>2. Recalc(parent[e]) \in Plain /\ Link(e, None) \in CallSet
  BY <1>1, CallsFormed
<1> DEFINE q == <<Link(e, None), Recalc(parent[e])>>
<1>3. q \in Programs /\ q # << >> /\ Head(q) = Link(e, None)
  BY <1>2, ShortHeaded
<1>4. /\ todo' = [todo EXCEPT ![c] = q] /\ overlap \subseteq overlap'
      /\ UNCHANGED <<tree, board, lost>>
  BY DEF Unparent, Start
<1> HIDE DEF q
<1>5. Heads(c, Link(e, None))
  BY <1>3, <1>4 DEF Base, HandlersOK, Heads, OthersStay
<1>6. TreeOK' /\ BoardOK'
  BY <1>4 DEF Base, TreeOK, BoardOK, tree, board
<1> QED
  BY <1>4, <1>5, <1>6 DEF Base, Heads

(* Subtrees are those of the current rows.                                 *)
LEMMA SubtreeIsBelow ==
    \A e : Subtree(e) = Below(epics, parent, e)
BY DEF Subtree, Below, Closed, Inherits

(* A step of the cycle check: it refuses, walks on, or lets the write go.  *)
LEMMA Checks ==
    ASSUME Base, NEW c \in Calls, CheckStep(c)
    PROVE  /\ Base' /\ UNCHANGED <<tree, board, lost, overlap>>
           /\ Next1(c, "check") /\ Arg(c) \in CallSet
           /\ \/ Settles(c)
              \/ /\ Arg(c).task # Arg(c).epic /\ Arg(c).task \notin epics
                 /\ Heads(c, Link(Arg(c).epic, Arg(c).to))
              \/ /\ Arg(c).task # Arg(c).epic /\ Arg(c).task \in epics
                 /\ Heads(c, Check(Arg(c).epic, Arg(c).to, parent[Arg(c).task]))
<1> DEFINE a == Arg(c)
<1>1. Busy(c) /\ a.call = "check" /\ a \in CallSet
  BY Current DEF Base, CheckStep, Next1, Arg
<1>2. a.epic \in Manual /\ a.to \in Epics /\ a.to \in Ends
  BY <1>1 DEF CallSet, FormOK, Ends
<1>3. UNCHANGED <<tree, board, lost, overlap>>
  BY DEF CheckStep, history
<1>4. TreeOK' /\ BoardOK'
  BY <1>3 DEF Base, TreeOK, BoardOK, tree, board
<1>5. \/ a.task = a.epic /\ Fail(c)
      \/ a.task # a.epic /\ a.task \notin epics /\ Then(c, <<Link(a.epic, a.to)>>)
      \/ a.task # a.epic /\ a.task \in epics /\ Then(c, <<Check(a.epic, a.to, parent[a.task])>>)
  BY DEF CheckStep
<1>6. CASE a.task = a.epic /\ Fail(c)
  BY <1>1, <1>3, <1>4, <1>6, FailSettles DEF Base, Settles, CheckStep
<1>7. CASE a.task # a.epic /\ a.task \notin epics /\ Then(c, <<Link(a.epic, a.to)>>)
  <2>1. Link(a.epic, a.to) \in CallSet
    BY <1>2, CallsFormed
  <2>2. Heads(c, Link(a.epic, a.to))
    BY <1>1, <1>7, <2>1, ThenHeads DEF Base
  <2> QED
    BY <1>1, <1>3, <1>4, <1>7, <2>2 DEF Base, Heads, CheckStep
<1>8. CASE a.task # a.epic /\ a.task \in epics /\ Then(c, <<Check(a.epic, a.to, parent[a.task])>>)
  <2>1. parent[a.task] \in Ends
    BY <1>8 DEF Base, TreeOK
  <2>2. Check(a.epic, a.to, parent[a.task]) \in CallSet
    BY <1>2, <2>1, CallsFormed
  <2>3. Heads(c, Check(a.epic, a.to, parent[a.task]))
    BY <1>1, <1>8, <2>2, ThenHeads DEF Base
  <2> QED
    BY <1>1, <1>3, <1>4, <1>8, <2>3 DEF Base, Heads, CheckStep
<1> QED
  BY <1>5, <1>6, <1>7, <1>8

(* The write of a reparenting: of an epic made by hand, under a row.       *)
LEMMA Links ==
    ASSUME Base, NEW c \in Calls, LinkEpic(c)
    PROVE  /\ Base' /\ Settles(c) /\ epics' = epics /\ UNCHANGED <<board, lost>>
           /\ Next1(c, "link") /\ Arg(c) \in CallSet /\ overlap' = Doomed(Arg(c).to)
           /\ \/ parent' = parent
              \/ /\ Arg(c).epic \in epics /\ Arg(c).to \in epics \cup {None}
                 /\ parent' = [parent EXCEPT ![Arg(c).epic] = Arg(c).to]
<1> DEFINE a == Arg(c)
<1>1. Busy(c) /\ a.call = "link" /\ a \in CallSet
  BY Current DEF Base, LinkEpic, Next1, Arg
<1>2. a.epic \in Manual
  BY <1>1 DEF CallSet, FormOK
<1>3. UNCHANGED <<epics, grouped, board, lost>> /\ overlap' = Doomed(a.to)
  BY DEF LinkEpic
<1>4. \/ /\ a.epic \in epics /\ a.to \in epics \cup {None}
         /\ parent' = [parent EXCEPT ![a.epic] = a.to] /\ Then(c, << >>)
      \/ parent' = parent /\ Fail(c)
  BY DEF LinkEpic
<1>5. Settles(c)
  BY <1>1, <1>4, ThenSettles, FailSettles, ShortPrograms DEF Base
<1>6. BoardOK'
  BY <1>3 DEF Base, BoardOK, board
<1>7. TreeOK'
  <2>1. a.epic \notin Groups
    BY <1>2, TreeAssumption
  <2> QED
    BY <1>3, <1>4, <2>1 DEF Base, TreeOK, Ends
<1> QED
  BY <1>1, <1>3, <1>4, <1>5, <1>6, <1>7 DEF Base, Settles, LinkEpic

(* The calls that follow a routing are well formed.                        *)
LEMMA PlacedPlain ==
    ASSUME NEW a \in CallSet, a.call \in Placing, NEW e \in Ends
    PROVE  Placed(a, e) \in Seq(Plain)
<1>1. /\ a.epic \in Ends /\ a.to \in Ends /\ a.task \in Tasks \cup Ends /\ a.repo \in Repos
      /\ a.call = "create" => a.task \in Tasks
  BY DEF CallSet, FormOK
<1>2. /\ Recalc(e) \in Plain /\ Recalc(a.to) \in Plain /\ Recalc(a.epic) \in Plain
      /\ Set(a.task, e) \in Plain /\ Cleanup(a.to) \in Plain
      /\ a.call = "create" => Insert(a.task, e, a.repo) \in Plain
  BY <1>1, CallsFormed
<1>3. CASE a.call = "create"
  BY <1>2, <1>3, ShortPrograms DEF Placed
<1>4. CASE a.call = "move"
  BY <1>2, <1>4, ShortPrograms DEF Placed
<1>5. CASE a.call = "migrate"
  BY <1>2, <1>5, ShortPrograms DEF Placed
<1>6. CASE a.call = "reroot"
  <2>1. CASE e = a.to
    BY <1>6, <2>1, ShortPrograms DEF Placed
  <2>2. CASE e # a.to
    <3> DEFINE mid == IF a.to # a.epic THEN <<Cleanup(a.to)>> ELSE << >>
    <3>1. <<Set(a.task, e), Recalc(e)>> \in Seq(Plain) /\ mid \in Seq(Plain)
          /\ <<Recalc(a.epic)>> \in Seq(Plain)
      BY <1>2, ShortPrograms
    <3>2. Placed(a, e) = <<Set(a.task, e), Recalc(e)>> \o mid \o <<Recalc(a.epic)>>
      BY <1>6, <2>2 DEF Placed
    <3> HIDE DEF mid
    <3>3. <<Set(a.task, e), Recalc(e)>> \o mid \in Seq(Plain)
      BY <3>1, ShortPrograms
    <3> QED
      BY <3>1, <3>2, <3>3, ShortPrograms
  <2> QED
    BY <2>1, <2>2
<1> QED
  BY <1>3, <1>4, <1>5, <1>6 DEF Placing

(* A routing changes nothing, or adds a group under its root.              *)
LEMMA Places ==
    ASSUME Base, NEW c \in Calls, PlaceTask(c)
    PROVE  /\ Base' /\ Settles(c) /\ UNCHANGED <<board, lost, overlap>>
           /\ \/ SameTree
              \/ \E g \in Groups : /\ Grown(epics, parent, g, epics', parent')
                                   /\ g[1] \in epics /\ parent'[g] = g[1]
<1> DEFINE a == Arg(c)
           g == <<a.epic, a.repo>>
<1>1. Busy(c) /\ a.call \in Placing /\ a \in CallSet
  BY Current DEF Base, PlaceTask, Next1, Arg, Placing
<1>2. a.epic \in Ends /\ a.repo \in Repos /\ << >> \in Seq(Plain)
  BY <1>1, ShortPrograms DEF CallSet, FormOK
<1>3. UNCHANGED <<grouped, board, lost, overlap>>
  BY DEF PlaceTask
<1>4. CASE a.epic \in epics \cap grouped
  <2>1. /\ epics' = epics \cup {g} /\ parent' = [parent EXCEPT ![g] = a.epic]
        /\ Then(c, Placed(a, g))
    BY <1>4 DEF PlaceTask
  <2>2. g \in Groups /\ g \in Epics /\ g \in Ends /\ g[1] = a.epic /\ a.epic \in Epics
    BY <1>2, <1>4 DEF Base, TreeOK, Groups, Epics, Ends
  <2>3. Settles(c)
    <3>1. Placed(a, g) \in Seq(Plain)
      BY <1>1, <2>2, PlacedPlain
    <3> QED
      BY <1>1, <2>1, <3>1, ThenSettles DEF Base
  <2>4. a.epic # g
    BY <1>4, <2>2, TreeAssumption DEF Base, TreeOK
  <2> HIDE DEF g, a
  <2>5. TreeOK'
    BY <1>3, <1>4, <2>1, <2>2 DEF Base, TreeOK, Ends
  <2>6. BoardOK'
    BY <1>3, <2>1 DEF Base, BoardOK, board
  <2>7. CASE g \in epics
    <3>1. parent[g] = a.epic
      BY <2>2, <2>7 DEF Base, TreeOK
    <3>2. parent' = parent /\ epics' = epics
      BY <2>1, <2>7, <3>1 DEF Base, TreeOK
    <3> QED
      BY <1>3, <2>3, <2>5, <2>6, <3>2 DEF Base, Settles, SameTree
  <2>8. CASE g \notin epics
    <3>1. Grown(epics, parent, g, epics', parent') /\ parent'[g] = g[1]
      <4>1. \A d \in epics : parent[d] # g
        BY <2>2, <2>8, TreeAssumption DEF Base, TreeOK
      <4>2. parent'[g] = a.epic /\ \A d \in epics : parent'[d] = parent[d]
        BY <2>1, <2>2, <2>8 DEF Base, TreeOK
      <4> QED
        BY <2>1, <2>2, <2>4, <2>8, <4>1, <4>2 DEF Grown
    <3> QED
      BY <1>3, <1>4, <2>2, <2>3, <2>5, <2>6, <3>1 DEF Base, Settles
  <2> QED
    BY <2>7, <2>8
<1>5. CASE a.epic \notin epics \cap grouped
  <2> DEFINE calls == IF a.call = "migrate" THEN << >> ELSE Placed(a, a.epic)
  <2>1. UNCHANGED <<epics, parent>> /\ Then(c, calls)
    BY <1>5 DEF PlaceTask
  <2>2. Placed(a, a.epic) \in Seq(Plain)
    BY <1>1, <1>2, PlacedPlain
  <2>3. calls \in Seq(Plain)
    BY <1>2, <2>2
  <2> HIDE DEF calls
  <2>4. Settles(c)
    BY <1>1, <2>1, <2>3, ThenSettles DEF Base
  <2>5. TreeOK' /\ BoardOK'
    BY <1>3, <2>1 DEF Base, TreeOK, BoardOK, board
  <2> QED
    BY <1>3, <2>1, <2>4, <2>5 DEF Base, Settles, SameTree
<1> QED
  BY <1>4, <1>5

(* A task is put under an epic that is a row, or nothing happens.          *)
PutsUnder(e) ==
    \A t \in tasks' : \/ t \in tasks /\ home'[t] = home[t]
                      \/ home'[t] = e /\ e \in epics \cup {None}

(* It never dangles, and a cleanup under way above e is noted.               *)
LEMMA Puts ==
    ASSUME Base, NEW c \in Calls, SetTaskEpic(c) \/ InsertTask(c)
    PROVE  /\ Base' /\ Settles(c) /\ SameTree /\ lost' = lost
           /\ overlap' = Doomed(Arg(c).epic) /\ PutsUnder(Arg(c).epic)
<1> DEFINE a == Arg(c)
<1>1. Busy(c) /\ a.call \in {"set", "insert"} /\ a \in CallSet
  BY Current DEF Base, SetTaskEpic, InsertTask, Next1, Arg
<1>2. UNCHANGED <<tree, lost>> /\ overlap' = Doomed(a.epic)
  BY DEF SetTaskEpic, InsertTask
<1>3. TreeOK' /\ SameTree
  BY <1>2 DEF Base, TreeOK, SameTree, tree
<1>4. Settles(c)
  BY <1>1, ThenSettles, FailSettles, ShortPrograms DEF Base, SetTaskEpic, InsertTask
<1>5. CASE SetTaskEpic(c)
  <2>1. /\ UNCHANGED <<tasks, repo>>
        /\ \/ home' = home
           \/ /\ a.epic \in epics \cup {None} /\ a.task \in tasks
              /\ home' = [home EXCEPT ![a.task] = a.epic]
    BY <1>5 DEF SetTaskEpic
  <2>2. BoardOK' /\ PutsUnder(a.epic)
    BY <1>2, <1>3, <2>1 DEF Base, BoardOK, TreeOK, PutsUnder, tree, Ends
  <2> QED
    BY <1>2, <1>3, <1>4, <2>2 DEF Base, Settles
<1>6. CASE InsertTask(c)
  <2>1. a.task \in Tasks /\ a.repo \in Repos
    BY <1>1, <1>6, Current DEF InsertTask, CallSet, FormOK, Base
  <2>2. \/ UNCHANGED <<tasks, home, repo>>
        \/ /\ a.epic \in epics /\ tasks' = tasks \cup {a.task}
           /\ home' = [home EXCEPT ![a.task] = a.epic]
           /\ repo' = [repo EXCEPT ![a.task] = a.repo]
    BY <1>6 DEF InsertTask, board
  <2>3. BoardOK' /\ PutsUnder(a.epic)
    BY <1>2, <1>3, <2>1, <2>2 DEF Base, BoardOK, TreeOK, PutsUnder, tree, Ends
  <2> QED
    BY <1>2, <1>3, <1>4, <2>3 DEF Base, Settles
<1> QED
  BY <1>5, <1>6

(* A cleanup goes on to delete only a group it read empty.                 *)
LEMMA Cleans ==
    ASSUME Base, NEW c \in Calls, CleanupGroup(c)
    PROVE  /\ Base' /\ UNCHANGED <<tree, board, lost, overlap>>
           /\ \/ Settles(c)
              \/ \E g \in epics \cap Groups : /\ Heads(c, Drop(g))
                                             /\ TasksOf(g) = {} /\ SubEpics(g) = {}
<1> DEFINE g == Arg(c).epic
<1>1. Busy(c) /\ Arg(c) \in CallSet
  BY Current DEF Base, CleanupGroup, Next1
<1>2. UNCHANGED <<tree, board, lost, overlap>>
  BY DEF CleanupGroup, history
<1>3. TreeOK' /\ BoardOK'
  BY <1>2 DEF Base, TreeOK, BoardOK, tree, board
<1>4. \/ Then(c, << >>)
      \/ g \in epics /\ Then(c, <<Recalc(g)>>)
      \/ /\ g \in epics \cap Groups /\ TasksOf(g) = {} /\ SubEpics(g) = {}
         /\ Then(c, <<Drop(g)>>)
  BY DEF CleanupGroup
<1> HIDE DEF g
<1>5. CASE Then(c, << >>)
  BY <1>1, <1>2, <1>3, <1>5, ThenSettles, ShortPrograms DEF Base, Settles
<1>6. CASE g \in epics /\ Then(c, <<Recalc(g)>>)
  <2>1. <<Recalc(g)>> \in Seq(Plain)
    BY <1>6, CallsFormed, ShortPrograms DEF Base, TreeOK, Ends
  <2> QED
    BY <1>1, <1>2, <1>3, <1>6, <2>1, ThenSettles DEF Base, Settles
<1>7. CASE /\ g \in epics \cap Groups /\ TasksOf(g) = {} /\ SubEpics(g) = {}
           /\ Then(c, <<Drop(g)>>)
  <2>1. Heads(c, Drop(g))
    BY <1>1, <1>7, CallsFormed, ThenHeads DEF Base
  <2> QED
    BY <1>2, <1>3, <1>7, <2>1 DEF Base, Heads
<1> QED
  BY <1>4, <1>5, <1>6, <1>7

(* The cascade deletes a subtree and the tasks in it.                      *)
LEMMA Drops ==
    ASSUME Base, NEW c \in Calls, DropGroup(c)
    PROVE  /\ Base' /\ Settles(c) /\ Next1(c, "drop") /\ Arg(c) \in CallSet
           /\ Cut(epics, parent, Arg(c).epic, epics', parent')
           /\ Shrinks /\ overlap' = overlap
           /\ lost' = lost \cup {t \in tasks : home[t] \in Subtree(Arg(c).epic)}
<1> DEFINE g == Arg(c).epic
           gone == Subtree(g)
           orphans == {t \in tasks : home[t] \in gone}
<1>1. Next1(c, "drop") /\ Busy(c) /\ Arg(c) \in CallSet
  BY Current DEF Base, DropGroup, Next1, Arg
<1>2. /\ ForgetEpics(gone) /\ ForgetTasks(orphans) /\ lost' = lost \cup orphans
      /\ overlap' = overlap /\ (Fail(c) \/ Then(c, << >>))
  BY DEF DropGroup
<1>3. gone = Below(epics, parent, g) /\ \A d \in epics : parent[d] \in gone => d \in gone
  BY SubtreeIsBelow, BelowInherits DEF Inherits
<1>4. Settles(c)
  BY <1>1, <1>2, ThenSettles, FailSettles, ShortPrograms DEF Base
<1> HIDE DEF gone, orphans, g
<1>5. /\ epics' = epics \ gone /\ grouped' = grouped \ gone
      /\ parent' = [e \in Epics |-> IF e \in gone THEN None ELSE parent[e]]
  BY <1>2 DEF Base, TreeOK, ForgetEpics, Forget
<1>6. TreeOK'
  BY <1>3, <1>5 DEF Base, TreeOK, Ends
<1>7. Cut(epics, parent, g, epics', parent')
  BY <1>3, <1>5 DEF Cut, Base, TreeOK
<1>8. BoardOK' /\ Shrinks
  <2>1. \A t \in tasks \ orphans : home[t] \in epics' \cup {None}
    BY <1>5 DEF orphans, Base, BoardOK
  <2> QED
    BY <1>2, <2>1, TasksForgotten DEF Base
<1> QED
  BY <1>1, <1>2, <1>4, <1>6, <1>7, <1>8 DEF Base, Settles, g, gone, orphans

-----------------------------------------------------------------------------
(* What the cycle check knows of the parent a.to it was asked about, with  *)
(* its walk at a.task.  A group has its root's place in the hierarchy, so  *)
(* the epic it speaks of is one made by hand.                              *)

Anchor(p) == IF p \in Groups THEN p[1] ELSE p
Clear(E, P, a) == Anchor(a.to) \notin Below(E, P, a.epic)
CheckOK(E, P, a) ==
    /\ \/ a.task = None \/ Anchor(a.to) \notin E
       \/ a.task \in E /\ Anchor(a.to) \in Below(E, P, a.task)
    /\ a.task \notin Below(E, P, a.epic) => Clear(E, P, a)

(* Anchors are made by hand.                                               *)
LEMMA AnchorByHand ==
    ASSUME NEW p \in Ends
    PROVE  Anchor(p) \notin Groups /\ (p \in Groups => Anchor(p) = p[1] /\ p[1] \in Manual)
<1>1. p \in Groups => p[1] \in Manual
  BY TreeAssumption DEF Groups
<1>2. Manual \cap Groups = {}
  BY TreeAssumption
<1> QED
  BY <1>1, <1>2 DEF Anchor

(* The check starts at the proposed parent's parent, ...                   *)
LEMMA CheckStarts ==
    ASSUME TreeOK, NEW e \in Manual, NEW p \in epics, p # e
    PROVE  CheckOK(epics, parent, Check(e, p, parent[p]))
<1> DEFINE a == Check(e, p, parent[p])
<1>1. a.epic = e /\ a.to = p /\ a.task = parent[p]
  BY DEF Check, Nil
<1> HIDE DEF a
<1>2. p \in Ends /\ parent[p] \in epics \cup {None} /\ (p \in Groups => parent[p] = p[1])
  BY DEF TreeOK, Ends
<1>3. CASE p \in Groups
  <2>1. Anchor(p) = parent[p]
    BY <1>2, <1>3 DEF Anchor
  <2> QED
    BY <1>1, <1>2, <2>1, BelowInherits DEF CheckOK, Clear, a
<1>4. CASE p \notin Groups
  <2>1. Anchor(p) = p
    BY <1>4 DEF Anchor
  <2>2. parent[p] \in epics => p \in Below(epics, parent, parent[p])
    BY BelowInherits DEF Inherits
  <2>3. parent[p] \notin Below(epics, parent, e) => p \notin Below(epics, parent, e)
    BY BelowParent
  <2> QED
    BY <1>1, <1>2, <2>1, <2>2, <2>3 DEF CheckOK, Clear, a
<1> QED
  BY <1>3, <1>4

(* ... goes up by one parent, ...                                          *)
LEMMA CheckClimbs ==
    ASSUME TreeOK, NEW a, CheckOK(epics, parent, a), a.task \in epics, a.task # a.epic
    PROVE  CheckOK(epics, parent, Check(a.epic, a.to, parent[a.task]))
<1> DEFINE b == Check(a.epic, a.to, parent[a.task])
<1>1. b.epic = a.epic /\ b.to = a.to /\ b.task = parent[a.task]
  BY DEF Check, Nil
<1> HIDE DEF b
<1>2. parent[a.task] \in epics \cup {None} /\ a.task # None
  BY TreeAssumption DEF TreeOK
<1>3. parent[a.task] \in epics =>
        Below(epics, parent, a.task) \subseteq Below(epics, parent, parent[a.task])
  BY BelowUp
<1>4. parent[a.task] \notin Below(epics, parent, a.epic) => a.task \notin Below(epics, parent, a.epic)
  BY BelowParent
<1> QED
  BY <1>1, <1>2, <1>3, <1>4 DEF CheckOK, Clear, b

(* ... and clears the parent when it comes to the top.                     *)
LEMMA CheckClears ==
    ASSUME NEW a, CheckOK(epics, parent, a), a.task \notin epics
    PROVE  Clear(epics, parent, Link(a.epic, a.to))
<1>1. Link(a.epic, a.to).epic = a.epic /\ Link(a.epic, a.to).to = a.to
  BY DEF Link, Nil
<1>2. a.task \notin Below(epics, parent, a.epic)
  BY BelowInherits
<1> QED
  BY <1>1, <1>2 DEF CheckOK, Clear

(* A cut elsewhere takes nothing of that away: what was below the epic and *)
(* is not any more is gone, with all that was below it.                    *)
LEMMA CutCheck ==
    ASSUME NEW E, NEW P, NEW g, NEW F, NEW Q, Cut(E, P, g, F, Q), NEW a, None \notin E
    PROVE  /\ Clear(E, P, a) => Clear(F, Q, a)
           /\ CheckOK(E, P, a) => CheckOK(F, Q, a)
<1> DEFINE gone == Below(E, P, g)
           top == Anchor(a.to)
<1>1. F = E \ gone
  BY DEF Cut
<1>2. Below(F, Q, a.epic) \subseteq Below(E, P, a.epic) /\ Below(F, Q, a.epic) \subseteq F
      /\ Below(E, P, a.epic) \subseteq E
  BY CutBelow, BelowInherits
<1>3. \A d \in gone : Below(E, P, d) \subseteq gone
  BY BelowWithin
<1>4. \A e \in F : Below(E, P, e) \ gone \subseteq Below(F, Q, e)
  BY CutBelow
<1>5. a.epic \notin F => Below(F, Q, a.epic) = {}
  BY DEF Below
<1> HIDE DEF gone, top
<1>6. Clear(E, P, a) => Clear(F, Q, a)
  BY <1>2 DEF Clear
<1>7. ASSUME CheckOK(E, P, a) PROVE CheckOK(F, Q, a)
  <2>1. \/ a.task = None \/ top \notin F
        \/ a.task \in F /\ top \in Below(F, Q, a.task)
    BY <1>1, <1>3, <1>4, <1>7 DEF CheckOK, top
  <2>2. ASSUME a.task \notin Below(F, Q, a.epic) PROVE top \notin Below(F, Q, a.epic)
    <3>1. CASE a.task \notin Below(E, P, a.epic)
      BY <1>2, <1>7, <3>1 DEF CheckOK, Clear, top
    <3>2. CASE a.task \in Below(E, P, a.epic) /\ a.epic \in F
      <4>1. a.task \in gone /\ a.task \in E
        BY <1>2, <1>4, <2>2, <3>2
      <4>2. top \notin F
        BY <1>1, <1>3, <1>7, <4>1 DEF CheckOK, top
      <4> QED
        BY <1>2, <4>2
    <3>3. CASE a.epic \notin F
      BY <1>5, <3>3
    <3> QED
      BY <3>1, <3>2, <3>3
  <2> QED
    BY <2>1, <2>2 DEF CheckOK, Clear, top
<1> QED
  BY <1>6, <1>7

(* Nor does a new group, which is nobody's anchor.                         *)
LEMMA GrownCheck ==
    ASSUME NEW E, NEW P, NEW g \in Groups, NEW F, NEW Q, Grown(E, P, g, F, Q),
           NEW a, a.epic \in Manual, a.to \in Ends
    PROVE  /\ Clear(E, P, a) => Clear(F, Q, a)
           /\ CheckOK(E, P, a) => CheckOK(F, Q, a)
<1> DEFINE top == Anchor(a.to)
<1>1. top # g /\ a.epic # g
  BY AnchorByHand, TreeAssumption
<1>2. /\ Below(E, P, a.epic) \subseteq Below(F, Q, a.epic)
      /\ Below(F, Q, a.epic) \subseteq Below(E, P, a.epic) \cup {g}
  BY <1>1, GrownBelow
<1>3. g \notin E /\ F = E \cup {g}
  BY DEF Grown
<1>4. a.task \in E => Below(E, P, a.task) \subseteq Below(F, Q, a.task)
  BY <1>3, GrownBelow
<1> HIDE DEF top
<1> QED
  BY <1>1, <1>2, <1>3, <1>4 DEF CheckOK, Clear, top

(* A parent that is clear is not below the epic.                           *)
LEMMA ClearParent ==
    ASSUME TreeOK, NEW a, a.epic \in Manual, a.to \in epics \cup {None}, Clear(epics, parent, a)
    PROVE  a.to \notin Below(epics, parent, a.epic)
<1>1. Below(epics, parent, a.epic) \subseteq epics
  BY BelowInherits
<1>2. CASE a.to \in Groups /\ a.to \in epics
  <2>1. Anchor(a.to) = parent[a.to] /\ a.to # a.epic
    BY <1>2, TreeAssumption DEF TreeOK, Anchor
  <2> QED
    BY <2>1, BelowParent DEF Clear
<1>3. CASE a.to \notin Groups
  BY <1>3 DEF Clear, Anchor
<1>4. CASE a.to \notin epics
  BY <1>1, <1>4
<1> QED
  BY <1>2, <1>3, <1>4

-----------------------------------------------------------------------------
(* The inductive invariant.                                                *)

Mover(c) == Next1(c, "check") \/ Next1(c, "link")
OneMover == "tree" \in overlap \/ \A c, d \in Calls : Mover(c) /\ Mover(d) => c = d
MoverOK(c) ==
    /\ Next1(c, "check") => CheckOK(epics, parent, Arg(c))
    /\ Next1(c, "link") => Clear(epics, parent, Arg(c))
MoversOK == "tree" \in overlap \/ \A c \in Calls : MoverOK(c)
Bare(g) == (\A d \in epics : parent[d] # g) /\ (\A t \in tasks : home[t] # g)
DropsOK == "drop" \in overlap \/ \A c \in Calls : Next1(c, "drop") => Bare(Arg(c).epic)
TreeInv ==
    /\ Base /\ AcyclicUnlessRaced /\ CleanupLosesNoTask
    /\ OneMover /\ MoversOK /\ DropsOK

(* Acyclic hierarchies are forests.                                        *)
LEMMA AcyclicIsForest ==
    Acyclic <=> Forest(epics, parent)
BY DEF Acyclic, Forest

(* The arguments of a reparenting and of a drop.                           *)
LEMMA ArgForms ==
    ASSUME HandlersOK, NEW c \in Calls
    PROVE  /\ Mover(c) => Arg(c).epic \in Manual /\ Arg(c).to \in Ends
           /\ Next1(c, "drop") => Arg(c).epic \in Groups
<1>1. Busy(c) => Arg(c) \in CallSet
  BY Current
<1> QED
  BY <1>1 DEF Mover, Next1, Arg, CallSet, FormOK, Ends

(* A handler that settles is neither reparenting nor deleting; the others  *)
(* are where they were.                                                    *)
LEMMA SettledIsIdle ==
    ASSUME NEW c \in Calls, Settles(c)
    PROVE  ~ Next1(c, "check")' /\ ~ Next1(c, "link")' /\ ~ Next1(c, "drop")'
<1>1. todo'[c] # << >> => Head(todo'[c]) \in Plain
  BY HeadTailProperties DEF Settles
<1> QED
  BY <1>1 DEF Next1, Busy, Plain, HeadKinds

(* The other handlers' next calls.                                           *)
LEMMA OthersAsBefore ==
    ASSUME NEW c \in Calls, OthersStay(c), NEW d \in Calls \ {c}
    PROVE  /\ Arg(d)' = Arg(d) /\ Next1(d, "check")' = Next1(d, "check")
           /\ Next1(d, "link")' = Next1(d, "link") /\ Next1(d, "drop")' = Next1(d, "drop")
BY DEF OthersStay, Arg, Next1, Busy

(* A step that settles its handler keeps the invariant if it keeps the     *)
(* forest and what the others know.                                        *)
LEMMA SettledStep ==
    ASSUME TreeInv, Base', NEW c \in Calls, Settles(c), overlap \subseteq overlap',
           AcyclicUnlessRaced', CleanupLosesNoTask',
           "tree" \notin overlap' =>
             \A d \in Calls \ {c} :
               MoverOK(d) => /\ Next1(d, "check") => CheckOK(epics', parent', Arg(d))
                             /\ Next1(d, "link") => Clear(epics', parent', Arg(d)),
           "drop" \notin overlap' =>
             \A d \in Calls \ {c} : Next1(d, "drop") /\ Bare(Arg(d).epic) =>
               /\ \A e \in epics' : parent'[e] # Arg(d).epic
               /\ \A t \in tasks' : home'[t] # Arg(d).epic
    PROVE  TreeInv'
<1>1. ~ Next1(c, "check")' /\ ~ Next1(c, "link")' /\ ~ Next1(c, "drop")'
  BY SettledIsIdle
<1>2. \A d \in Calls \ {c} :
        /\ Arg(d)' = Arg(d) /\ Next1(d, "check")' = Next1(d, "check")
        /\ Next1(d, "link")' = Next1(d, "link") /\ Next1(d, "drop")' = Next1(d, "drop")
  BY OthersAsBefore DEF Settles
<1>3. OneMover'
  BY <1>1, <1>2 DEF TreeInv, OneMover, Mover
<1>4. MoversOK'
  BY <1>1, <1>2 DEF TreeInv, MoversOK, MoverOK
<1>5. DropsOK'
  BY <1>1, <1>2 DEF TreeInv, DropsOK, Bare
<1> QED
  BY <1>3, <1>4, <1>5 DEF TreeInv

(* A step that leaves the rows alone keeps the invariant if what it leaves *)
(* its handler with is right.                                              *)
LEMMA QuietStep ==
    ASSUME TreeInv, Base', NEW c \in Calls, OthersStay(c), UNCHANGED <<tree, board, lost>>,
           overlap \subseteq overlap',
           Mover(c)' => Mover(c) \/ "tree" \in overlap' \/ \A d \in Calls : ~ Mover(d),
           "tree" \notin overlap' => MoverOK(c)',
           "drop" \notin overlap' => (Next1(c, "drop")' => Bare(Arg(c).epic)')
    PROVE  TreeInv'
<1>1. \A d \in Calls \ {c} :
        /\ Arg(d)' = Arg(d) /\ Next1(d, "check")' = Next1(d, "check")
        /\ Next1(d, "link")' = Next1(d, "link") /\ Next1(d, "drop")' = Next1(d, "drop")
  BY OthersAsBefore
<1>2. epics' = epics /\ parent' = parent /\ tasks' = tasks /\ home' = home /\ lost' = lost
  BY DEF tree, board
<1>3. OneMover'
  <2>1. \A d \in Calls \ {c} : Mover(d)' = Mover(d)
    BY <1>1 DEF Mover
  <2> QED
    BY <2>1 DEF TreeInv, OneMover
<1>4. MoversOK'
  <2>1. \A d \in Calls \ {c} : MoverOK(d) => MoverOK(d)'
    BY <1>1, <1>2 DEF MoverOK
  <2> QED
    BY <2>1 DEF TreeInv, MoversOK
<1>5. DropsOK'
  <2>1. \A d \in Calls \ {c} : (Next1(d, "drop") => Bare(Arg(d).epic)) =>
                                 (Next1(d, "drop")' => Bare(Arg(d).epic)')
    BY <1>1, <1>2 DEF Bare
  <2> QED
    BY <2>1 DEF TreeInv, DropsOK
<1>6. AcyclicUnlessRaced' /\ CleanupLosesNoTask'
  BY <1>2 DEF TreeInv, AcyclicUnlessRaced, Acyclic, CleanupLosesNoTask
<1> QED
  BY <1>3, <1>4, <1>5, <1>6 DEF TreeInv

(* A handler whose next call is a.                                         *)
LEMMA HeadedArg ==
    ASSUME NEW c \in Calls, NEW a, Heads(c, a)
    PROVE  /\ Arg(c)' = a /\ OthersStay(c)
           /\ Next1(c, "check")' = (a.call = "check") /\ Next1(c, "link")' = (a.call = "link")
           /\ Next1(c, "drop")' = (a.call = "drop")
BY DEF Heads, Arg, Next1, Busy

(* A reparenting that starts while another runs is noted.                  *)
LEMMA RaceSeen ==
    ASSUME HandlersOK, NEW c \in Calls, NEW e \in epics,
           Unparent(c, e) \/ \E p \in epics : Reparent(c, e, p)
    PROVE  "tree" \in overlap' \/ \A d \in Calls : ~ Mover(d)
<1>1. SUFFICES ASSUME NEW d \in Calls, Mover(d) PROVE "tree" \in overlap'
  OBVIOUS
<1>2. Moves(d)
  <2>1. todo[d] \in Seq(CallSet) /\ todo[d] # << >>
    BY <1>1 DEF HandlersOK, Programs, Mover, Next1, Busy
  <2>2. 1 \in 1..Len(todo[d]) /\ todo[d][1] = Head(todo[d])
    BY <2>1, HeadTailProperties, EmptySeq
  <2> QED
    BY <1>1, <2>1, <2>2 DEF Moves, Mover, Next1, Busy
<1>3. CASE Unparent(c, e)
  <2> DEFINE a == Link(e, None)
             q == <<a, Recalc(parent[e])>>
  <2>0. a.call = "link"
    BY DEF Link, Nil
  <2> HIDE DEF a
  <2>1. 1 \in 1..Len(q) /\ q[1].call = "link"
    BY <2>0
  <2> HIDE DEF q
  <2>2. Start(c, {}, q)
    BY <1>3 DEF Unparent, q, a
  <2> QED
    BY <1>2, <2>1, <2>2 DEF Start
<1>4. ASSUME NEW p \in epics, Reparent(c, e, p)
      PROVE  "tree" \in overlap'
  <2> DEFINE a == Check(e, p, parent[p])
             q == <<a, Recalc(parent[e]), Recalc(p)>>
  <2>0. a.call = "check"
    BY DEF Check, Nil
  <2> HIDE DEF a
  <2>1. 1 \in 1..Len(q) /\ q[1].call = "check"
    BY <2>0
  <2> HIDE DEF q
  <2>2. Start(c, {}, q)
    BY <1>4 DEF Reparent, q, a
  <2> QED
    BY <1>2, <2>1, <2>2 DEF Start
<1> QED
  BY <1>3, <1>4

(* Each kind of step in turn.                                              *)
LEMMA PlainKeeps ==
    ASSUME TreeInv, NEW c \in Calls, PlainStep(c)
    PROVE  TreeInv'
<1>1. Base' /\ Settles(c) /\ epics' = epics /\ parent' = parent /\ lost' = lost
      /\ overlap \subseteq overlap'
      /\ tasks' \subseteq tasks /\ \A t \in tasks' : home'[t] = home[t]
  BY DEF PlainStep, Base, Settles, SameTree, Shrinks
<1>2. AcyclicUnlessRaced' /\ CleanupLosesNoTask'
  BY <1>1 DEF TreeInv, AcyclicUnlessRaced, Acyclic, CleanupLosesNoTask
<1>3. \A d \in Calls \ {c} :
        MoverOK(d) => /\ Next1(d, "check") => CheckOK(epics', parent', Arg(d))
                      /\ Next1(d, "link") => Clear(epics', parent', Arg(d))
  BY <1>1 DEF MoverOK
<1>4. \A d \in Calls \ {c} : Next1(d, "drop") /\ Bare(Arg(d).epic) =>
        /\ \A e \in epics' : parent'[e] # Arg(d).epic
        /\ \A t \in tasks' : home'[t] # Arg(d).epic
  BY <1>1 DEF Bare
<1> QED
  BY <1>1, <1>2, <1>3, <1>4, SettledStep

(* A reparenting begins.                                                     *)
LEMMA ReparentKeeps ==
    ASSUME TreeInv, NEW c \in Calls, NEW e \in epics, NEW p \in epics, Reparent(c, e, p)
    PROVE  TreeInv'
<1> DEFINE a == Check(e, p, parent[p])
<1>1. /\ Base' /\ Heads(c, a) /\ e \in Manual /\ p # e
      /\ UNCHANGED <<tree, board, lost>> /\ overlap \subseteq overlap'
  BY ReparentBegins DEF TreeInv
<1>2. a.call = "check"
  BY DEF Check, Nil
<1>3. CheckOK(epics, parent, a)
  BY <1>1, CheckStarts DEF TreeInv, Base
<1> HIDE DEF a
<1>4. MoverOK(c)' /\ ~ Next1(c, "drop")' /\ OthersStay(c)
  BY <1>1, <1>2, <1>3, HeadedArg DEF MoverOK, tree
<1>5. "tree" \in overlap' \/ \A d \in Calls : ~ Mover(d)
  BY RaceSeen DEF TreeInv, Base
<1> QED
  BY <1>1, <1>4, <1>5, QuietStep

(* A parent is released.                                                     *)
LEMMA UnparentKeeps ==
    ASSUME TreeInv, NEW c \in Calls, NEW e \in epics, Unparent(c, e)
    PROVE  TreeInv'
<1> DEFINE a == Link(e, None)
<1>1. /\ Base' /\ Heads(c, a)
      /\ UNCHANGED <<tree, board, lost>> /\ overlap \subseteq overlap'
  BY UnparentBegins DEF TreeInv
<1>2. a.call = "link" /\ a.to = None
  BY DEF Link, Nil
<1>3. Clear(epics, parent, a)
  <2>1. Below(epics, parent, a.epic) \subseteq epics /\ None \notin Epics /\ epics \subseteq Epics
    BY BelowInherits, TreeAssumption DEF TreeInv, Base, TreeOK
  <2> QED
    BY <1>2, <2>1 DEF Clear, Anchor, Epics
<1> HIDE DEF a
<1>4. MoverOK(c)' /\ ~ Next1(c, "drop")' /\ OthersStay(c)
  BY <1>1, <1>2, <1>3, HeadedArg DEF MoverOK, tree
<1>5. "tree" \in overlap' \/ \A d \in Calls : ~ Mover(d)
  BY RaceSeen DEF TreeInv, Base
<1> QED
  BY <1>1, <1>4, <1>5, QuietStep

(* A step of the cycle check.                                                *)
LEMMA CheckKeeps ==
    ASSUME TreeInv, NEW c \in Calls, CheckStep(c)
    PROVE  TreeInv'
<1> DEFINE a == Arg(c)
<1>1. /\ Base' /\ UNCHANGED <<tree, board, lost>> /\ overlap' = overlap /\ Mover(c)
      /\ Next1(c, "check")
  BY Checks DEF TreeInv, Mover
<1>2. "tree" \notin overlap => CheckOK(epics, parent, a)
  BY <1>1 DEF TreeInv, MoversOK, MoverOK
<1>3. CASE Settles(c)
  <2>1. ~ Next1(c, "check")' /\ ~ Next1(c, "link")' /\ ~ Next1(c, "drop")' /\ OthersStay(c)
    BY <1>3, SettledIsIdle DEF Settles
  <2> QED
    BY <1>1, <2>1, QuietStep DEF MoverOK, Mover
<1>4. CASE a.task \notin epics /\ Heads(c, Link(a.epic, a.to))
  <2> DEFINE b == Link(a.epic, a.to)
  <2>1. b.call = "link"
    BY DEF Link, Nil
  <2>2. "tree" \notin overlap => Clear(epics, parent, b)
    BY <1>2, <1>4, CheckClears
  <2> HIDE DEF b
  <2>3. Heads(c, b)
    BY <1>4 DEF b
  <2>4. ("tree" \notin overlap => MoverOK(c)') /\ ~ Next1(c, "drop")' /\ OthersStay(c)
    BY <1>1, <2>1, <2>2, <2>3, HeadedArg DEF MoverOK, tree
  <2> QED
    BY <1>1, <2>4, QuietStep
<1>5. CASE a.task # a.epic /\ a.task \in epics /\ Heads(c, Check(a.epic, a.to, parent[a.task]))
  <2> DEFINE b == Check(a.epic, a.to, parent[a.task])
  <2>1. b.call = "check"
    BY DEF Check, Nil
  <2>2. "tree" \notin overlap => CheckOK(epics, parent, b)
    BY <1>2, <1>5, CheckClimbs DEF TreeInv, Base
  <2> HIDE DEF b
  <2>3. Heads(c, b)
    BY <1>5 DEF b
  <2>4. ("tree" \notin overlap => MoverOK(c)') /\ ~ Next1(c, "drop")' /\ OthersStay(c)
    BY <1>1, <2>1, <2>2, <2>3, HeadedArg DEF MoverOK, tree
  <2> QED
    BY <1>1, <2>4, QuietStep
<1> QED
  BY <1>3, <1>4, <1>5, Checks DEF TreeInv

(* A cleanup's emptiness read.                                               *)
LEMMA CleanupKeeps ==
    ASSUME TreeInv, NEW c \in Calls, CleanupGroup(c)
    PROVE  TreeInv'
<1>1. Base' /\ UNCHANGED <<tree, board, lost>> /\ overlap' = overlap
  BY Cleans DEF TreeInv
<1>2. CASE Settles(c)
  <2>1. ~ Next1(c, "check")' /\ ~ Next1(c, "link")' /\ ~ Next1(c, "drop")' /\ OthersStay(c)
    BY <1>2, SettledIsIdle DEF Settles
  <2> QED
    BY <1>1, <2>1, QuietStep DEF MoverOK, Mover
<1>3. ASSUME NEW g \in epics \cap Groups, Heads(c, Drop(g)), TasksOf(g) = {}, SubEpics(g) = {}
      PROVE  TreeInv'
  <2> DEFINE b == Drop(g)
  <2>1. b.call = "drop" /\ b.epic = g
    BY DEF Drop, Nil
  <2>2. Bare(g)
    BY <1>3 DEF Bare, TasksOf, SubEpics
  <2>3. Heads(c, b)
    BY <1>3
  <2> HIDE DEF b
  <2>4. Arg(c)' = b /\ OthersStay(c) /\ ~ Next1(c, "check")' /\ ~ Next1(c, "link")'
    BY <2>1, <2>3, HeadedArg
  <2>5. Bare(Arg(c).epic)'
    BY <1>1, <2>1, <2>2, <2>4 DEF Bare, tree, board
  <2> QED
    BY <1>1, <2>4, <2>5, QuietStep DEF MoverOK, Mover
<1> QED
  BY <1>2, <1>3, Cleans DEF TreeInv

(* The write of a reparenting.                                               *)
LEMMA LinkKeeps ==
    ASSUME TreeInv, NEW c \in Calls, LinkEpic(c)
    PROVE  TreeInv'
<1> DEFINE a == Arg(c)
<1>1. /\ Base' /\ Settles(c) /\ epics' = epics /\ UNCHANGED <<board, lost>>
      /\ Next1(c, "link") /\ Mover(c) /\ overlap' = Doomed(a.to)
      /\ \/ parent' = parent
         \/ /\ a.epic \in epics /\ a.to \in epics \cup {None}
            /\ parent' = [parent EXCEPT ![a.epic] = a.to]
  BY Links DEF TreeInv, Mover
<1>2. a.epic \in Manual /\ HandlersOK /\ TreeOK
  BY <1>1, ArgForms DEF TreeInv, Base
<1>3. overlap \subseteq overlap' /\ UNCHANGED <<tasks, home>>
  BY <1>1 DEF Doomed, board
<1>4. AcyclicUnlessRaced'
  <2>1. CASE parent' = parent \/ "tree" \in overlap
    BY <1>1, <1>3, <2>1 DEF TreeInv, AcyclicUnlessRaced, Acyclic
  <2>2. CASE "tree" \notin overlap /\ parent' # parent
    <3>1. Forest(epics, parent) /\ Clear(epics, parent, a)
      BY <1>1, <2>2 DEF TreeInv, AcyclicUnlessRaced, Acyclic, Forest, MoversOK, MoverOK
    <3>2. a.to \notin Below(epics, parent, a.epic)
      BY <1>1, <1>2, <2>2, <3>1, ClearParent
    <3>3. parent'[a.epic] = a.to /\ \A d \in epics \ {a.epic} : parent'[d] = parent[d]
      BY <1>1, <1>2, <2>2 DEF TreeOK
    <3>4. Forest(epics, parent')
      BY <1>1, <2>2, <3>1, <3>2, <3>3, LinkForest
    <3> QED
      BY <1>1, <3>4 DEF AcyclicUnlessRaced, Acyclic, Forest
  <2> QED
    BY <2>1, <2>2
<1>5. CleanupLosesNoTask'
  BY <1>1, <1>3 DEF TreeInv, CleanupLosesNoTask
<1>6. "tree" \notin overlap' => \A d \in Calls \ {c} : ~ Next1(d, "check") /\ ~ Next1(d, "link")
  BY <1>1, <1>3 DEF TreeInv, OneMover, Mover
<1>7. ASSUME "drop" \notin overlap', NEW d \in Calls \ {c}, Next1(d, "drop"), Bare(Arg(d).epic)
      PROVE  /\ \A e \in epics' : parent'[e] # Arg(d).epic
             /\ \A t \in tasks' : home'[t] # Arg(d).epic
  <2>1. Arg(d).epic \in Groups /\ Arg(d).epic # None
    BY <1>2, <1>7, ArgForms, TreeAssumption DEF Epics
  <2>2. a.to \notin Below(epics, parent, Arg(d).epic)
    BY <1>1, <1>7, SubtreeIsBelow DEF Doomed
  <2>3. ~ (a.to \in epics /\ a.to = Arg(d).epic)
    BY <2>2, BelowInherits
  <2>4. \A e \in epics : parent'[e] = parent[e] \/ (parent'[e] = a.to /\ a.to \in epics \cup {None})
    BY <1>1, <1>2 DEF TreeOK
  <2> QED
    BY <1>1, <1>3, <1>7, <2>1, <2>3, <2>4 DEF Bare
<1> QED
  BY <1>1, <1>3, <1>4, <1>5, <1>6, <1>7, SettledStep

(* A routing, with the group it may add.                                     *)
LEMMA PlaceKeeps ==
    ASSUME TreeInv, NEW c \in Calls, PlaceTask(c)
    PROVE  TreeInv'
<1>1. Base' /\ Settles(c) /\ UNCHANGED <<tasks, home, lost, overlap>>
  BY Places DEF TreeInv, board
<1>2. CleanupLosesNoTask'
  BY <1>1 DEF TreeInv, CleanupLosesNoTask
<1>3. CASE SameTree
  BY <1>1, <1>3, PlainKeeps DEF PlainStep, Shrinks, Base
<1>4. ASSUME NEW g \in Groups, Grown(epics, parent, g, epics', parent'),
             g[1] \in epics, parent'[g] = g[1]
      PROVE  TreeInv'
  <2>1. AcyclicUnlessRaced'
    <3>1. Forest(epics, parent) => Forest(epics', parent')
      BY <1>4, GrownForest
    <3> QED
      BY <1>1, <3>1 DEF TreeInv, AcyclicUnlessRaced, Acyclic, Forest
  <2>2. ASSUME NEW d \in Calls \ {c}, MoverOK(d)
        PROVE  /\ Next1(d, "check") => CheckOK(epics', parent', Arg(d))
               /\ Next1(d, "link") => Clear(epics', parent', Arg(d))
    <3>1. Mover(d) => Arg(d).epic \in Manual /\ Arg(d).to \in Ends
      BY ArgForms DEF TreeInv, Base
    <3> QED
      BY <1>4, <2>2, <3>1, GrownCheck DEF MoverOK, Mover
  <2>3. ASSUME NEW d \in Calls \ {c}, Next1(d, "drop"), Bare(Arg(d).epic)
        PROVE  /\ \A e \in epics' : parent'[e] # Arg(d).epic
               /\ \A t \in tasks' : home'[t] # Arg(d).epic
    <3>1. Arg(d).epic \in Groups
      BY <2>3, ArgForms DEF TreeInv, Base
    <3>2. g[1] \notin Groups
      BY <1>4, TreeAssumption DEF Groups
    <3> QED
      BY <1>1, <1>4, <2>3, <3>1, <3>2 DEF Bare, Grown
  <2> QED
    BY <1>1, <1>2, <2>1, <2>2, <2>3, SettledStep
<1> QED
  BY <1>3, <1>4, Places DEF TreeInv

(* A task is put under an epic.                                              *)
LEMMA PutKeeps ==
    ASSUME TreeInv, NEW c \in Calls, SetTaskEpic(c) \/ InsertTask(c)
    PROVE  TreeInv'
<1> DEFINE e == Arg(c).epic
<1>1. /\ Base' /\ Settles(c) /\ epics' = epics /\ parent' = parent /\ lost' = lost
      /\ overlap' = Doomed(e) /\ PutsUnder(e)
  BY Puts DEF TreeInv, SameTree
<1>2. overlap \subseteq overlap'
  BY <1>1 DEF Doomed
<1>3. AcyclicUnlessRaced' /\ CleanupLosesNoTask'
  BY <1>1, <1>2 DEF TreeInv, AcyclicUnlessRaced, Acyclic, CleanupLosesNoTask
<1>4. \A d \in Calls \ {c} :
        MoverOK(d) => /\ Next1(d, "check") => CheckOK(epics', parent', Arg(d))
                      /\ Next1(d, "link") => Clear(epics', parent', Arg(d))
  BY <1>1 DEF MoverOK
<1>5. ASSUME "drop" \notin overlap', NEW d \in Calls \ {c}, Next1(d, "drop"), Bare(Arg(d).epic)
      PROVE  /\ \A x \in epics' : parent'[x] # Arg(d).epic
             /\ \A t \in tasks' : home'[t] # Arg(d).epic
  <2>1. Arg(d).epic \in Groups /\ Arg(d).epic # None
    BY <1>5, ArgForms, TreeAssumption DEF Epics, TreeInv, Base
  <2>2. e \notin Below(epics, parent, Arg(d).epic)
    BY <1>1, <1>5, SubtreeIsBelow DEF Doomed
  <2>3. ~ (e \in epics /\ e = Arg(d).epic)
    BY <2>2, BelowInherits
  <2> QED
    BY <1>1, <1>5, <2>1, <2>3 DEF Bare, PutsUnder
<1> QED
  BY <1>1, <1>2, <1>3, <1>4, <1>5, SettledStep

(* The cascading delete of a group.                                          *)
LEMMA DropKeeps ==
    ASSUME TreeInv, NEW c \in Calls, DropGroup(c)
    PROVE  TreeInv'
<1> DEFINE g == Arg(c).epic
<1>1. /\ Base' /\ Settles(c) /\ Next1(c, "drop") /\ Cut(epics, parent, g, epics', parent')
      /\ Shrinks /\ overlap' = overlap
      /\ lost' = lost \cup {t \in tasks : home[t] \in Below(epics, parent, g)}
  BY Drops, SubtreeIsBelow DEF TreeInv
<1>2. /\ epics' \subseteq epics /\ \A d \in epics' : parent'[d] = parent[d]
      /\ tasks' \subseteq tasks /\ \A t \in tasks' : home'[t] = home[t]
  BY <1>1 DEF Cut, Shrinks
<1>3. None \notin epics
  BY TreeAssumption DEF TreeInv, Base, TreeOK
<1>4. AcyclicUnlessRaced'
  <2>1. Forest(epics, parent) => Forest(epics', parent')
    BY <1>1, CutForest
  <2> QED
    BY <1>1, <2>1 DEF TreeInv, AcyclicUnlessRaced, Acyclic, Forest
<1>5. CleanupLosesNoTask'
  <2>1. CASE "drop" \in overlap
    BY <1>1, <2>1 DEF CleanupLosesNoTask
  <2>2. CASE "drop" \notin overlap
    <3>1. Bare(g)
      BY <1>1, <2>2 DEF TreeInv, DropsOK
    <3>2. Below(epics, parent, g) \subseteq {g}
      BY <3>1, BelowLeaf DEF Bare
    <3>3. lost' = lost
      BY <1>1, <3>1, <3>2 DEF Bare
    <3> QED
      BY <1>1, <3>3 DEF TreeInv, CleanupLosesNoTask
  <2> QED
    BY <2>1, <2>2
<1>6. \A d \in Calls \ {c} :
        MoverOK(d) => /\ Next1(d, "check") => CheckOK(epics', parent', Arg(d))
                      /\ Next1(d, "link") => Clear(epics', parent', Arg(d))
  BY <1>1, <1>3, CutCheck DEF MoverOK
<1>7. \A d \in Calls \ {c} : Next1(d, "drop") /\ Bare(Arg(d).epic) =>
        /\ \A e \in epics' : parent'[e] # Arg(d).epic
        /\ \A t \in tasks' : home'[t] # Arg(d).epic
  BY <1>2 DEF Bare
<1> QED
  BY <1>1, <1>4, <1>5, <1>6, <1>7, SettledStep

(* Every step keeps the invariant, ...                                     *)
LEMMA NextKeeps ==
    ASSUME TreeInv, Next
    PROVE  TreeInv'
<1>1. PICK c \in Calls : Begin(c) \/ Continue(c)
  BY DEF Next
<1>2. CASE \E e \in epics : Unparent(c, e) \/ \E p \in epics : Reparent(c, e, p)
  BY <1>2, UnparentKeeps, ReparentKeeps
<1>3. CASE Begin(c) /\ ~ \E e \in epics : Unparent(c, e) \/ \E p \in epics : Reparent(c, e, p)
  BY <1>3, BeginsPlain, PlainKeeps DEF TreeInv
<1>4. CASE Continue(c)
  BY <1>4, CheckKeeps, LinkKeeps, PlaceKeeps, PutKeeps, CleanupKeeps, DropKeeps,
     ReadsPlain, PlainKeeps DEF Continue, TreeInv
<1> QED
  BY <1>1, <1>2, <1>3, <1>4

(* ... which holds of the hierarchies the program starts from: groups      *)
(* under their roots, and the other epics under roots.                     *)
LEMMA InitIsTree ==
    ASSUME Init
    PROVE  TreeInv
<1>1. /\ epics \subseteq Epics /\ Manual \subseteq epics /\ grouped \subseteq Roots
      /\ Roots \subseteq Manual /\ Manual \cap Groups = {} /\ None \notin Epics
      /\ \A g \in Groups : g[1] \in Roots
  BY TreeAssumption DEF Init, Epics, Groups
<1>2. PICK up \in [Manual \ Roots -> Roots] :
        parent = [e \in Epics |-> IF e \in Manual \ Roots THEN up[e]
                                  ELSE IF e \in epics \cap Groups THEN e[1] ELSE None]
  BY DEF Init
<1>3. /\ \A e \in Manual \ Roots : parent[e] \in Roots
      /\ \A e \in epics \cap Groups : parent[e] = e[1]
      /\ \A e \in Roots : parent[e] = None
      /\ parent \in [Epics -> Ends]
  BY <1>1, <1>2 DEF Epics, Ends
<1>4. TreeOK
  BY <1>1, <1>3 DEF TreeOK, Epics, Ends
<1>5. BoardOK
  <2>1. PICK at \in [tasks -> epics \cup {None}] :
          home = [t \in Tasks |-> IF t \in tasks THEN at[t] ELSE None]
    BY DEF Init
  <2>2. PICK r \in [tasks -> Repos] :
          repo = [t \in Tasks |-> IF t \in tasks THEN r[t] ELSE None]
    BY DEF Init
  <2>3. tasks \subseteq Tasks
    BY DEF Init
  <2> QED
    BY <1>1, <2>1, <2>2, <2>3 DEF BoardOK, Ends
<1>6. todo = [c \in Calls |-> << >>] /\ overlap = {} /\ lost = {}
  BY DEF Init
<1>7. HandlersOK
  BY <1>6, ShortPrograms, PlainPrograms DEF HandlersOK
<1>8. Acyclic
  <2>1. SUFFICES ASSUME NEW S \in SUBSET epics, S # {} PROVE \E e \in S : parent[e] \notin S
    BY DEF Acyclic
  <2>2. \A e \in epics : e \in Roots \/ parent[e] \in Roots
    BY <1>1, <1>3 DEF Epics
  <2>3. None \notin S
    BY <1>1, <2>1
  <2> QED
    BY <1>3, <2>1, <2>2, <2>3
<1>9. \A c \in Calls : \A k : ~ Next1(c, k)
  BY <1>6 DEF Next1, Busy
<1> QED
  BY <1>4, <1>5, <1>6, <1>7, <1>8, <1>9
  DEF TreeInv, Base, AcyclicUnlessRaced, CleanupLosesNoTask, OneMover, Mover, MoversOK, MoverOK, DropsOK

(* A stuttering step keeps it too.                                           *)
LEMMA StutterKeeps ==
    ASSUME TreeInv, UNCHANGED vars
    PROVE  TreeInv'
<1> USE DEF vars, tree, board, handlers, history
<1>1. Base'
  BY DEF TreeInv, Base, TreeOK, BoardOK, HandlersOK
<1>2. AcyclicUnlessRaced' /\ CleanupLosesNoTask'
  BY DEF TreeInv, AcyclicUnlessRaced, Acyclic, CleanupLosesNoTask
<1>3. OneMover' /\ MoversOK' /\ DropsOK'
  BY DEF TreeInv, OneMover, Mover, MoversOK, MoverOK, DropsOK, Bare, Next1, Busy, Arg
<1> QED
  BY <1>1, <1>2, <1>3 DEF TreeInv

(* So it holds throughout.                                                   *)
LEMMA TreeInvHolds ==
    Spec => []TreeInv
<1>1. Init => TreeInv
  BY InitIsTree
<1>2. TreeInv /\ [Next]_vars => TreeInv'
  BY NextKeeps, StutterKeeps
<1> QED
  BY <1>1, <1>2, PTL DEF Spec

(* NoDanglingEpic: whatever handlers race with the cleanup's cascade, the  *)
(* epic of every task and the parent of every epic are rows.               *)
THEOREM NothingDangles ==
    Spec => []NoDanglingEpic
<1>1. TreeInv => NoDanglingEpic
  BY DEF TreeInv, Base, TreeOK, BoardOK, NoDanglingEpic
<1> QED
  BY <1>1, TreeInvHolds, PTL

(* AcyclicUnlessRaced: check_no_cycle, one read at a time, is enough       *)
(* against everything but a second reparenting.                            *)
THEOREM ForestUnlessRaced ==
    Spec => []AcyclicUnlessRaced
<1>1. TreeInv => AcyclicUnlessRaced
  BY DEF TreeInv
<1> QED
  BY <1>1, TreeInvHolds, PTL

(* CleanupLosesNoTask: delete_if_empty_repo_group deletes a task only if   *)
(* something was put below the group after its emptiness read.             *)
THEOREM CleanupIsSafe ==
    Spec => []CleanupLosesNoTask
<1>1. TreeInv => CleanupLosesNoTask
  BY DEF TreeInv
<1> QED
  BY <1>1, TreeInvHolds, PTL

-----------------------------------------------------------------------------
(* The walk up the ancestors.  It is a recursive function; what it returns *)
(* is proved by induction on the number of steps, as the absence of a      *)
(* least counterexample (the ordering of finite sets is well founded).     *)

LEMMA UpTo ==
    ASSUME NEW N \in Nat, NEW S, 0 \in S, \A n \in 0..N : n \in S /\ n + 1 <= N => n + 1 \in S
    PROVE  0..N \subseteq S
<1> DEFINE U == 0..N
           R == StrictSubsetOrdering(U)
           T == {0..n : n \in U \ S}
<1>1. IsWellFoundedOn(R, FiniteSubsetsOf(U))
  BY FS_StrictSubsetOrderingWellFounded
<1>2. T \subseteq FiniteSubsetsOf(U)
  <2>1. \A n \in U : 0..n \in SUBSET U /\ IsFiniteSet(0..n)
    BY FS_Interval
  <2> QED
    BY <2>1 DEF FiniteSubsetsOf
<1>3. \A x, y \in SUBSET U : <<x, y>> \in R <=> x \subseteq y /\ x # y
  BY DEF StrictSubsetOrdering
<1> HIDE DEF R
<1>4. SUFFICES ASSUME T # {} PROVE FALSE
  OBVIOUS
<1> HIDE DEF T
<1>5. PICK x \in T : \A y \in T : ~ (<<y, x>> \in R)
  BY <1>1, <1>2, <1>4, WFMin
<1>6. PICK n \in U \ S : x = 0..n
  BY <1>5 DEF T
<1>7. n - 1 \in U \ S
  BY <1>6
<1>8. 0..(n - 1) \in T /\ 0..(n - 1) \in SUBSET U /\ 0..n \in SUBSET U
  BY <1>6, <1>7 DEF T
<1>9. 0..(n - 1) \subseteq 0..n /\ n \in 0..n /\ n \notin 0..(n - 1)
  BY <1>6
<1>10. <<0..(n - 1), x>> \in R
  BY <1>3, <1>6, <1>8, <1>9
<1> QED
  BY <1>5, <1>8, <1>10

(* One step of the walk, and the states it goes through.                   *)
Setout(x) == [s |-> estatus, at |-> x, seen |-> {}]
Stopped(v) == v.at \notin epics \/ v.at \in v.seen
Climb(v) ==
    IF Stopped(v) THEN v
    ELSE [s |-> [v.s EXCEPT ![v.at] = Derived(v.at, v.s)],
          at |-> parent[v.at], seen |-> v.seen \cup {v.at}]
Climbs(x, N, w) == w = [n \in 0..N |-> IF n = 0 THEN Setout(x) ELSE Climb(w[n - 1])]

(* The recursion has a solution, by induction on its length.               *)
LEMMA ClimbsExist ==
    ASSUME NEW x, NEW N \in Nat
    PROVE  \E w : Climbs(x, N, w)
<1> DEFINE S == {k \in Nat : \E w : Climbs(x, k, w)}
<1>1. 0 \in S
  <2>1. Climbs(x, 0, [n \in 0..0 |-> Setout(x)])
    BY DEF Climbs
  <2> QED
    BY <2>1
<1>2. ASSUME NEW k \in 0..N, k \in S
      PROVE  k + 1 \in S
  <2>1. PICK w : Climbs(x, k, w)
    BY <1>2
  <2> DEFINE z == [n \in 0..(k + 1) |-> IF n = k + 1 THEN Climb(w[k]) ELSE w[n]]
  <2>2. \A n \in 0..(k + 1) : z[n] = IF n = 0 THEN Setout(x) ELSE Climb(z[n - 1])
    <3>1. \A n \in 0..k : w[n] = IF n = 0 THEN Setout(x) ELSE Climb(w[n - 1])
      BY <2>1 DEF Climbs
    <3>2. \A n \in 0..k : z[n] = w[n]
      OBVIOUS
    <3>3. z[k + 1] = Climb(w[k]) /\ z[k] = w[k]
      OBVIOUS
    <3> HIDE DEF z
    <3> QED
      BY <3>1, <3>2, <3>3
  <2>3. z = [n \in 0..(k + 1) |-> IF n = 0 THEN Setout(x) ELSE Climb(z[n - 1])]
    BY <2>2
  <2>4. Climbs(x, k + 1, z)
    BY <2>3 DEF Climbs
  <2>5. k + 1 \in Nat
    OBVIOUS
  <2> QED
    BY <2>4, <2>5
<1> HIDE DEF S
<1>3. 0..N \subseteq S
  BY <1>1, <1>2, UpTo
<1>4. N \in S
  BY <1>3
<1> QED
  BY <1>4 DEF S

(* What the walk from x knows after n steps: it has stopped or gone on n   *)
(* times; it has changed what it has seen only; and in a forest it has     *)
(* seen a path of ancestors of x, each of them in step with its children.  *)
Agrees(e, s) ==
    LET kids == ActiveChildren(e, s)
    IN  s[e] = "archived" \/ kids = {} \/ (s[e] = "done" <=> kids = {"done"})
OnPath(x, v) ==
    /\ x \in v.seen \cup {v.at}
    /\ \A d \in v.seen : parent[d] \in v.seen \cup {v.at}
    /\ \A d \in v.seen \cup {v.at} : d \in epics => x \in Below(epics, parent, d)
    /\ \A d \in Epics \ v.seen : v.s[d] = estatus[d]
    /\ \A d \in v.seen : Agrees(d, v.s)
WalkOK(x, n, v) ==
    /\ v.s \in [Epics -> Statuses] /\ v.seen \subseteq epics
    /\ Stopped(v) \/ Cardinality(v.seen) = n
    /\ Forest(epics, parent) => OnPath(x, v)

(* The derived status is one, and in step where an epic is not its own     *)
(* child.                                                                  *)
LEMMA DerivedAgrees ==
    ASSUME TreeOK, NEW s \in [Epics -> Statuses], NEW e \in epics
    PROVE  /\ Derived(e, s) \in Statuses
           /\ parent[e] # e => Agrees(e, [s EXCEPT ![e] = Derived(e, s)])
<1> DEFINE r == [s EXCEPT ![e] = Derived(e, s)]
<1>1. e \in Epics /\ s[e] \in Statuses
  BY DEF TreeOK
<1>2. Derived(e, s) \in Statuses
  BY <1>1 DEF Derived, Statuses
<1>3. ASSUME parent[e] # e PROVE Agrees(e, r)
  <2>1. \A g \in SubEpics(e) : r[g] = s[g]
    BY <1>3 DEF SubEpics, TreeOK
  <2>2. ActiveChildren(e, r) = ActiveChildren(e, s)
    BY <2>1 DEF ActiveChildren
  <2>3. r[e] = Derived(e, s)
    BY <1>1
  <2> HIDE DEF r
  <2> QED
    BY <2>2, <2>3 DEF Agrees, Derived
<1> QED
  BY <1>2, <1>3

(* An epic that has not changed, nor any child of it, agrees as before.    *)
LEMMA AgreesKept ==
    ASSUME NEW e, NEW s, NEW r, r[e] = s[e], \A g \in SubEpics(e) : r[g] = s[g]
    PROVE  Agrees(e, s) <=> Agrees(e, r)
<1>1. ActiveChildren(e, r) = ActiveChildren(e, s)
  BY DEF ActiveChildren
<1> QED
  BY <1>1 DEF Agrees

(* A step of the walk keeps that.                                          *)
LEMMA ClimbKeeps ==
    ASSUME TreeOK, IsFiniteSet(epics), NEW x, NEW n \in Nat, NEW v, WalkOK(x, n, v)
    PROVE  WalkOK(x, n + 1, Climb(v))
<1>1. CASE Stopped(v)
  BY <1>1 DEF WalkOK, Climb
<1>2. CASE ~ Stopped(v)
  <2> DEFINE a == v.at
             r == [v.s EXCEPT ![a] = Derived(a, v.s)]
             z == [s |-> r, at |-> parent[a], seen |-> v.seen \cup {a}]
  <2>1. a \in epics /\ a \notin v.seen /\ a \in Epics /\ v.s \in [Epics -> Statuses]
        /\ v.seen \subseteq epics /\ Cardinality(v.seen) = n
    BY <1>2 DEF WalkOK, Stopped, TreeOK
  <2>2. Climb(v) = z
    BY <1>2 DEF Climb
  <2>3. r \in [Epics -> Statuses]
    BY <2>1, DerivedAgrees
  <2>4. Cardinality(v.seen \cup {a}) = n + 1
    BY <2>1, FS_Subset, FS_AddElement
  <2>5. ASSUME Forest(epics, parent), OnPath(x, v)
        PROVE  OnPath(x, z)
    <3>1. parent[a] \notin v.seen \cup {a}
      <4>1. v.seen \cup {a} \in SUBSET epics /\ v.seen \cup {a} # {}
        BY <2>1
      <4> QED
        BY <2>5, <4>1 DEF Forest, OnPath
    <3>2. x \in z.seen \cup {z.at} /\ \A d \in z.seen : parent[d] \in z.seen \cup {z.at}
      BY <2>5 DEF OnPath
    <3>3. ASSUME NEW d \in z.seen \cup {z.at}, d \in epics
          PROVE  x \in Below(epics, parent, d)
      <4>1. x \in Below(epics, parent, a)
        BY <2>1, <2>5 DEF OnPath
      <4>2. parent[a] \in epics => Below(epics, parent, a) \subseteq Below(epics, parent, parent[a])
        BY <2>1, BelowUp
      <4> QED
        BY <2>5, <3>3, <4>1, <4>2 DEF OnPath
    <3>4. \A d \in Epics \ {a} : r[d] = v.s[d]
      BY <2>1
    <3>5. \A d \in Epics \ z.seen : z.s[d] = estatus[d]
      BY <2>5, <3>4 DEF OnPath
    <3>6. ASSUME NEW d \in z.seen
          PROVE  Agrees(d, z.s)
      <4>1. CASE d = a
        BY <2>1, <3>1, <4>1, DerivedAgrees
      <4>2. CASE d # a
        <5>1. d \in v.seen /\ d \in Epics /\ r[d] = v.s[d] /\ Agrees(d, v.s)
          BY <2>1, <2>5, <3>4, <3>6, <4>2 DEF OnPath, TreeOK
        <5>2. \A g \in SubEpics(d) : r[g] = v.s[g]
          BY <2>1, <3>1, <3>4, <5>1 DEF SubEpics, TreeOK
        <5> HIDE DEF r
        <5> QED
          BY <5>1, <5>2, AgreesKept
      <4> QED
        BY <4>1, <4>2
    <3> QED
      BY <3>2, <3>3, <3>5, <3>6 DEF OnPath
  <2> QED
    BY <2>1, <2>2, <2>3, <2>4, <2>5 DEF WalkOK
<1> QED
  BY <1>1, <1>2

(* What recalculate_epic_status does: it recalculates the epic and all its *)
(* ancestors, and each of them is then in step with its active children.   *)
LEMMA WalkClimbs ==
    ASSUME TreeOK, IsFiniteSet(epics), estatus \in [Epics -> Statuses], NEW x
    PROVE  /\ Walk(x).s \in [Epics -> Statuses] /\ Walk(x).seen \subseteq epics
           /\ Forest(epics, parent) =>
                /\ Walk(x).seen = {e \in epics : x \in Below(epics, parent, e)}
                /\ \A e \in Epics \ Walk(x).seen : Walk(x).s[e] = estatus[e]
                /\ \A e \in Walk(x).seen : Agrees(e, Walk(x).s)
<1> DEFINE N == Cardinality(epics)
           w == CHOOSE w : Climbs(x, N, w)
           S == {n \in 0..N : WalkOK(x, n, w[n])}
           v == w[N]
<1>1. N \in Nat
  BY FS_CardinalityType
<1>2. Climbs(x, N, w)
  BY <1>1, ClimbsExist
<1>3. Walk(x) = v
  BY DEF Walk, Setout, Climb, Stopped, Climbs
<1> HIDE DEF w
<1>4. w[0] = Setout(x) /\ \A n \in 0..N : n + 1 <= N => w[n + 1] = Climb(w[n])
  <2>1. \A n \in 0..N : w[n] = IF n = 0 THEN Setout(x) ELSE Climb(w[n - 1])
    BY <1>2 DEF Climbs
  <2> QED
    BY <1>1, <2>1
<1>5. 0 \in S
  <2>1. WalkOK(x, 0, Setout(x))
    BY FS_EmptySet, BelowInherits DEF WalkOK, Setout, OnPath
  <2> QED
    BY <1>1, <1>4, <2>1
<1>6. ASSUME NEW n \in 0..N, n \in S, n + 1 <= N
      PROVE  n + 1 \in S
  BY <1>1, <1>4, <1>6, ClimbKeeps
<1>7. WalkOK(x, N, v)
  <2> HIDE DEF S
  <2>1. 0..N \subseteq S
    BY <1>1, <1>5, <1>6, UpTo
  <2> QED
    BY <1>1, <2>1 DEF S
<1> HIDE DEF v
<1>8. Stopped(v)
  <2>1. SUFFICES ASSUME Cardinality(v.seen) = N PROVE Stopped(v)
    BY <1>7 DEF WalkOK
  <2>2. v.seen = epics
    BY <1>7, <2>1, FS_Subset DEF WalkOK
  <2> QED
    BY <2>2 DEF Stopped
<1>9. ASSUME Forest(epics, parent)
      PROVE  v.seen = {e \in epics : x \in Below(epics, parent, e)}
  <2>1. OnPath(x, v) /\ v.seen \in SUBSET epics
    BY <1>7, <1>9 DEF WalkOK
  <2>2. v.at \notin epics
    BY <1>8, <1>9, <2>1 DEF Stopped, Forest, OnPath
  <2>3. ASSUME NEW e \in epics \ v.seen, x \in Below(epics, parent, e)
        PROVE  FALSE
    <3>1. Inherits(epics, parent, epics \ v.seen)
      BY <2>1, <2>2 DEF Inherits, OnPath
    <3>2. x \in epics \ v.seen
      BY <2>3, <3>1, BelowMember
    <3> QED
      BY <2>1, <2>2, <3>2 DEF OnPath
  <2> QED
    BY <2>1, <2>3 DEF OnPath
<1> QED
  BY <1>3, <1>7, <1>9 DEF WalkOK, OnPath

-----------------------------------------------------------------------------
(* Programs again: the calls a handler has left, what they will recalculate *)
(* and what is known of them while no two handlers concern one task.       *)

Has(q) == {q[i] : i \in 1..Len(q)}
After(q, i) == {q[j] : j \in (i + 1)..Len(q)}
Told(R) == {a.epic : a \in {b \in R : b.call \in {"recalc", "cleanup"}}}

Writers == {"set", "migrate"}
AboutOne == {"set", "insert", "find", "reroute"} \cup Placing
Alone == {"create", "move", "reroot", "reroute", "find"}
(* Calls that can come later in a program; none of them fails.             *)
Later(a) ==
    \/ a.call \in {"recalc", "cleanup", "drain", "migrate"}
    \/ a.call = "set" /\ a.epic \in Manual

(* A call a of a handler about the tasks ts, on a board with tasks T and   *)
(* homes H, when the calls R come after it: it is about one of the tasks,  *)
(* that is where the call takes it to be; what it takes children from or   *)
(* gives children to is recalculated later.                                *)
CallOK(T, H, a, R, ts) ==
    /\ \A b \in R : Later(b)
    /\ a.call \in AboutOne => a.task \in ts
    /\ a.call \in Writers \cup {"move", "reroot", "reroute"} => a.task \in T
    /\ a.call \in {"create", "insert"} => a.task \notin T
    /\ a.call \in Writers => /\ H[a.task] \in Told(R) \cup {None}
                             /\ \A b \in R : b.call \in Writers => b.task # a.task
    /\ a.call \in {"set", "insert"} => a.epic \in Told(R) \cup {None}
    /\ a.call = "migrate" => H[a.task] = a.epic /\ Told(R) = {a.epic}
    /\ a.call \in {"move", "reroot"} => H[a.task] = a.to
    /\ a.call = "reroot" => a.to = a.epic \/ (a.to \in Groups /\ a.to[1] = a.epic)
    /\ a.call \in {"drain", "cleanup", "drop"} => a.epic \in Groups /\ Told(R) = {a.epic[1]}
    /\ a.call = "drain" => ts = Tasks /\ \A b \in R : b.call \notin Writers
    /\ a.call \in Alone => R = {}
Sound(T, H, q, ts) == \A i \in 1..Len(q) : CallOK(T, H, q[i], After(q, i), ts)

(* Nothing left.                                                           *)
LEMMA NoCalls ==
    /\ Has(<< >>) = {} /\ Told({}) = {}
    /\ \A T, H, ts : Sound(T, H, << >>, ts)
BY DEF Has, Told, Sound

(* One more call to tell of.                                               *)
LEMMA ToldMore ==
    ASSUME NEW a, NEW R
    PROVE  Told({a} \cup R) = (IF a.call \in {"recalc", "cleanup"} THEN {a.epic} ELSE {}) \cup Told(R)
BY DEF Told

(* The end of a program is what it ends in.                                *)
LEMMA AfterShift ==
    ASSUME NEW p \in Seq(CallSet), NEW q \in Seq(CallSet), NEW k \in Nat,
           Len(p) = k + Len(q), \A i \in 1..Len(q) : p[i + k] = q[i]
    PROVE  \A i \in 0..Len(q) : After(p, i + k) = After(q, i)
<1> SUFFICES ASSUME NEW i \in 0..Len(q) PROVE After(p, i + k) = After(q, i)
  OBVIOUS
<1>1. Len(q) \in Nat
  BY LenProperties
<1>2. ASSUME NEW j \in (i + 1)..Len(q) PROVE q[j] \in After(p, i + k)
  <2>1. j + k \in (i + k + 1)..Len(p) /\ p[j + k] = q[j]
    BY <1>1
  <2> QED
    BY <2>1 DEF After
<1>3. ASSUME NEW j \in (i + k + 1)..Len(p) PROVE p[j] \in After(q, i)
  <2>1. j - k \in (i + 1)..Len(q) /\ j - k \in 1..Len(q) /\ (j - k) + k = j
    BY <1>1
  <2>2. p[j] = q[j - k]
    BY <2>1
  <2> QED
    BY <2>1, <2>2 DEF After
<1> QED
  BY <1>2, <1>3 DEF After

(* A program and what follows its first call.                              *)
LEMMA FirstAndRest ==
    ASSUME NEW q \in Seq(CallSet), q # << >>
    PROVE  /\ Has(q) = {Head(q)} \cup Has(Tail(q))
           /\ \A T, H, ts : Sound(T, H, q, ts) =>
                /\ CallOK(T, H, Head(q), Has(Tail(q)), ts)
                /\ Sound(T, H, Tail(q), ts)
<1> DEFINE r == Tail(q)
<1>1. Len(q) \in Nat \ {0} /\ Head(q) = q[1]
  BY EmptySeq
<1>2. r \in Seq(CallSet) /\ Len(r) = Len(q) - 1 /\ \A i \in 1..Len(r) : r[i] = q[i + 1]
  BY HeadTailProperties
<1> HIDE DEF r
<1>3. \A i \in 0..Len(r) : After(q, i + 1) = After(r, i)
  BY <1>1, <1>2, AfterShift
<1>4. Has(r) = After(q, 1)
  <2>1. Has(r) = After(r, 0)
    BY DEF Has, After
  <2> QED
    BY <1>1, <1>2, <1>3, <2>1
<1>5. Has(q) = {q[1]} \cup After(q, 1)
  BY <1>1 DEF Has, After
<1>6. \A i \in 1..Len(r) : r[i] = q[i + 1] /\ After(r, i) = After(q, i + 1) /\ i + 1 \in 1..Len(q)
  BY <1>1, <1>2, <1>3
<1>7. 1 \in 1..Len(q)
  BY <1>1
<1> QED
  BY <1>1, <1>4, <1>5, <1>6, <1>7 DEF Sound, r

(* A program put before another.                                           *)
LEMMA JoinedCalls ==
    ASSUME NEW s \in Seq(CallSet), NEW q \in Seq(CallSet)
    PROVE  /\ s \o q \in Seq(CallSet) /\ Has(s \o q) = Has(s) \cup Has(q)
           /\ \A T, H, ts :
                /\ \A i \in 1..Len(s) : CallOK(T, H, s[i], After(s, i) \cup Has(q), ts)
                /\ Sound(T, H, q, ts)
                => Sound(T, H, s \o q, ts)
<1> DEFINE p == s \o q
           k == Len(s)
<1>1. /\ p \in Seq(CallSet) /\ Len(p) = k + Len(q) /\ Len(q) \in Nat /\ k \in Nat
      /\ \A i \in 1..(k + Len(q)) : p[i] = IF i <= k THEN s[i] ELSE q[i - k]
  BY ConcatProperties, LenProperties
<1> HIDE DEF p, k
<1>2. (\A i \in 1..k : p[i] = s[i]) /\ (\A i \in 1..Len(q) : p[i + k] = q[i])
  BY <1>1
<1>3. \A i \in 0..Len(q) : After(p, i + k) = After(q, i)
  BY <1>1, <1>2, AfterShift
<1>4. Has(q) = After(p, k)
  <2>1. Has(q) = After(q, 0) /\ 0 \in 0..Len(q) /\ 0 + k = k
    BY <1>1 DEF Has, After
  <2> QED
    BY <1>3, <2>1
<1>5. \A i \in 0..k : After(p, i) = After(s, i) \cup After(p, k)
  <2> SUFFICES ASSUME NEW i \in 0..k PROVE After(p, i) = After(s, i) \cup After(p, k)
    OBVIOUS
  <2>1. \A j \in (i + 1)..Len(p) : j \in (i + 1)..k \/ j \in (k + 1)..Len(p)
    BY <1>1
  <2>2. \A j \in (k + 1)..Len(p) : j \in (i + 1)..Len(p)
    BY <1>1
  <2>3. \A j \in (i + 1)..k : j \in (i + 1)..Len(p) /\ p[j] = s[j]
    BY <1>1, <1>2
  <2> QED
    BY <2>1, <2>2, <2>3 DEF After, k
<1>6. Has(p) = Has(s) \cup Has(q)
  <2>1. Has(p) = After(p, 0) /\ Has(s) = After(s, 0) /\ 0 \in 0..k
    BY <1>1 DEF Has, After
  <2> QED
    BY <1>4, <1>5, <2>1
<1>7. ASSUME NEW T, NEW H, NEW ts, Sound(T, H, q, ts),
             \A i \in 1..k : CallOK(T, H, s[i], After(s, i) \cup Has(q), ts)
      PROVE  Sound(T, H, p, ts)
  <2> SUFFICES ASSUME NEW i \in 1..Len(p) PROVE CallOK(T, H, p[i], After(p, i), ts)
    BY DEF Sound
  <2>1. CASE i <= k
    <3>1. i \in 1..k /\ i \in 0..k
      BY <1>1, <2>1
    <3> QED
      BY <1>2, <1>4, <1>5, <1>7, <3>1
  <2>2. CASE i > k
    <3>1. i - k \in 1..Len(q) /\ i - k \in 0..Len(q) /\ (i - k) + k = i
      BY <1>1, <2>2
    <3> QED
      BY <1>2, <1>3, <1>7, <3>1 DEF Sound
  <2> QED
    BY <1>1, <2>1, <2>2
<1> QED
  BY <1>1, <1>6, <1>7 DEF p, k

(* A program with a call put before it.                                    *)
LEMMA OneMoreCall ==
    ASSUME NEW a \in CallSet, NEW q \in Seq(CallSet)
    PROVE  /\ <<a>> \o q \in Seq(CallSet) /\ <<a>> \o q # << >>
           /\ Head(<<a>> \o q) = a /\ Tail(<<a>> \o q) = q
           /\ Has(<<a>> \o q) = {a} \cup Has(q)
           /\ \A T, H, ts : CallOK(T, H, a, Has(q), ts) /\ Sound(T, H, q, ts) =>
                              Sound(T, H, <<a>> \o q, ts)
<1> DEFINE s == <<a>>
           p == s \o q
<1>1. s \in Seq(CallSet) /\ Len(s) = 1 /\ s[1] = a /\ Has(s) = {a} /\ After(s, 1) = {}
  BY DEF Has, After
<1> HIDE DEF s
<1>2. /\ p \in Seq(CallSet) /\ Len(p) = 1 + Len(q) /\ Len(q) \in Nat
      /\ p[1] = a /\ \A i \in 1..Len(q) : p[i + 1] = q[i]
  <2>1. /\ p \in Seq(CallSet) /\ Len(p) = Len(s) + Len(q) /\ Len(q) \in Nat
        /\ \A i \in 1..(Len(s) + Len(q)) : p[i] = IF i <= Len(s) THEN s[i] ELSE q[i - Len(s)]
    <3>1. s \in Seq(CallSet)
      BY <1>1
    <3>2. Len(q) \in Nat
      BY LenProperties
    <3> QED
      BY <3>1, <3>2, ConcatProperties
  <2> HIDE DEF p
  <2>2. Len(s) = 1 /\ s[1] = a
    BY <1>1
  <2>3. 1 \in 1..(1 + Len(q)) /\ \A i \in 1..Len(q) : i + 1 \in 1..(1 + Len(q)) /\ ~ (i + 1 <= 1) /\ (i + 1) - 1 = i
    BY <2>1
  <2> QED
    BY <2>1, <2>2, <2>3
<1>3. Has(p) = {a} \cup Has(q)
  BY <1>1, JoinedCalls
<1>4. ASSUME NEW T, NEW H, NEW ts, CallOK(T, H, a, Has(q), ts), Sound(T, H, q, ts)
      PROVE  Sound(T, H, p, ts)
  <2>1. After(s, 1) \cup Has(q) = Has(q) /\ \A i \in 1..Len(s) : i = 1
    BY <1>1
  <2>2. \A i \in 1..Len(s) : CallOK(T, H, s[i], After(s, i) \cup Has(q), ts)
    BY <1>1, <1>4, <2>1
  <2> QED
    BY <1>1, <1>4, <2>2, JoinedCalls
<1> HIDE DEF p
<1>5. p # << >> /\ Head(p) = a
  BY <1>1, <1>2, EmptySeq
<1>6. Tail(p) = q
  <2>1. Tail(p) \in Seq(CallSet) /\ Len(Tail(p)) = Len(p) - 1
        /\ \A i \in 1..Len(Tail(p)) : Tail(p)[i] = p[i + 1]
    BY <1>2, <1>5, HeadTailProperties
  <2>2. \A i \in 1..Len(q) : Tail(p)[i] = q[i]
    BY <1>2, <2>1
  <2> QED
    BY <1>2, <2>1, <2>2, SeqEqual
<1> QED
  BY <1>2, <1>3, <1>4, <1>5, <1>6 DEF p, s

(* A list of calls, one for each member of a set: no member has two.       *)
LEMMA SetOfInjective ==
    ASSUME NEW S, IsFiniteSet(S)
    PROVE  /\ \A i, j \in 1..Cardinality(S) : i # j => SetOf(S)[i] # SetOf(S)[j]
           /\ \A x \in S : \E i \in 1..Cardinality(S) : SetOf(S)[i] = x
<1> DEFINE n == Cardinality(S)
<1>1. n \in Nat /\ ExistsBijection(1..n, S)
  BY FS_CardinalityType
<1>2. PICK q \in Bijection(1..n, S) : TRUE
  BY <1>1 DEF ExistsBijection
<1>3. q \in [1..n -> S] /\ \A i, j \in DOMAIN q : i # j => q[i] # q[j]
  BY <1>2 DEF Bijection, Injection, IsInjective
<1>4. SetOf(S) \in [1..n -> S] /\ \A i, j \in DOMAIN SetOf(S) : i # j => SetOf(S)[i] # SetOf(S)[j]
  BY <1>3 DEF SetOf
<1>5. SetOf(S) \in Injection(1..n, S)
  BY <1>4 DEF Injection, IsInjective
<1>6. SetOf(S) \in Surjection(1..n, S)
  BY <1>1, <1>5, FS_Injection, FS_Interval
<1> QED
  BY <1>4, <1>6 DEF Surjection

(* ... and each has one.                                                   *)
Lists(s, f, S) ==
    /\ s \in Seq(CallSet) /\ Has(s) = {f[x] : x \in S}
    /\ \A i \in 1..Len(s) : \E x \in S :
         s[i] = f[x] /\ After(s, i) \subseteq {f[y] : y \in S \ {x}}

(* It has one for each of them, and nothing else.                          *)
LEMMA CallForEach ==
    ASSUME NEW S, IsFiniteSet(S), NEW f, \A x \in S : f[x] \in CallSet
    PROVE  Lists([i \in 1..Cardinality(S) |-> f[SetOf(S)[i]]], f, S)
<1> DEFINE n == Cardinality(S)
           s == [i \in 1..n |-> f[SetOf(S)[i]]]
<1>1. n \in Nat /\ SetOf(S) \in [1..n -> S]
  BY SetOfFinite
<1>2. /\ \A i, j \in 1..n : i # j => SetOf(S)[i] # SetOf(S)[j]
      /\ \A x \in S : \E i \in 1..n : SetOf(S)[i] = x
  BY SetOfInjective
<1>3. s \in [1..n -> CallSet]
  BY <1>1
<1>4. s \in Seq(CallSet) /\ Len(s) = n
  BY <1>1, <1>3, SeqDef, LenProperties
<1>5. \A i \in 1..n : s[i] = f[SetOf(S)[i]] /\ SetOf(S)[i] \in S
  BY <1>1
<1> HIDE DEF s
<1>6. Has(s) = {f[x] : x \in S}
  BY <1>2, <1>4, <1>5 DEF Has
<1>7. ASSUME NEW i \in 1..Len(s)
      PROVE  s[i] = f[SetOf(S)[i]] /\ After(s, i) \subseteq {f[y] : y \in S \ {SetOf(S)[i]}}
  <2>1. \A j \in (i + 1)..Len(s) : j \in 1..n /\ j # i
    BY <1>1, <1>4
  <2>2. \A j \in (i + 1)..Len(s) : s[j] = f[SetOf(S)[j]] /\ SetOf(S)[j] \in S \ {SetOf(S)[i]}
    BY <1>2, <1>4, <1>5, <2>1
  <2> QED
    BY <1>4, <1>5, <2>2 DEF After
<1> QED
  BY <1>4, <1>5, <1>6, <1>7 DEF s, Lists

-----------------------------------------------------------------------------
(* The rest of the state keeps its types.                                  *)

HandlersTyped ==
    /\ about \in [Calls -> SUBSET Tasks] /\ begun \subseteq Calls
    /\ \A c \in Calls : Busy(c) => c \in begun
Typed ==
    /\ estatus \in [Epics -> Statuses] /\ tstatus \in [Tasks -> Statuses]
    /\ HandlersTyped
    /\ excused \subseteq Epics /\ lost \subseteq Tasks
    /\ overlap \subseteq {"tree", "tasks", "drop"}

(* A handler that starts, ...                                              *)
LEMMA StartTyped ==
    ASSUME HandlersOK, Typed, NEW c \in Calls, NEW ts \in SUBSET Tasks, NEW q, Start(c, ts, q)
    PROVE  HandlersTyped' /\ overlap' \subseteq {"tree", "tasks", "drop"}
<1>1. /\ begun' = begun \cup {c} /\ todo' = [todo EXCEPT ![c] = q]
      /\ about' = [about EXCEPT ![c] = IF q = << >> THEN {} ELSE ts]
      /\ overlap' \subseteq overlap \cup {"tasks", "tree"}
  BY DEF Start
<1> QED
  BY <1>1 DEF Typed, HandlersTyped, HandlersOK, Busy

(* ... and one that goes on.                                               *)
LEMMA LeftTyped ==
    ASSUME HandlersOK, Typed, NEW c \in Calls, Busy(c), NEW q, Left(c, q), begun' = begun
    PROVE  HandlersTyped'
<1>1. /\ todo' = [todo EXCEPT ![c] = q]
      /\ about' = [about EXCEPT ![c] = IF q = << >> THEN {} ELSE @]
  BY DEF Left
<1> QED
  BY <1>1 DEF Typed, HandlersTyped, HandlersOK, Busy

(* Beginnings keep the types, ...                                          *)
LEMMA BeginTyped ==
    ASSUME Base, Typed, NEW c \in Calls, Begin(c)
    PROVE  Typed'
<1>0. {} \in SUBSET Tasks /\ Tasks \in SUBSET Tasks /\ \A t \in Tasks : {t} \in SUBSET Tasks
  OBVIOUS
<1> USE DEF tree, board
<1>1. ASSUME NEW t \in Tasks, NEW s \in Statuses, SetTaskStatus(c, t, s)
      PROVE  Typed'
  BY <1>0, <1>1, StartTyped DEF SetTaskStatus, Base, Typed
<1>2. ASSUME NEW t \in Tasks, NEW e \in epics, NEW r \in Repos, CreateTask(c, t, e, r)
      PROVE  Typed'
  BY <1>0, <1>2, StartTyped DEF CreateTask, Base, Typed
<1>3. ASSUME NEW t \in Tasks, NEW e \in epics, MoveTask(c, t, e)
      PROVE  Typed'
  BY <1>0, <1>3, StartTyped DEF MoveTask, Base, Typed
<1>4. ASSUME NEW t \in Tasks, DetachTask(c, t)
      PROVE  Typed'
  BY <1>0, <1>4, StartTyped DEF DetachTask, Base, Typed
<1>5. ASSUME NEW t \in Tasks, DeleteTask(c, t)
      PROVE  Typed'
  BY <1>0, <1>5, StartTyped DEF DeleteTask, Base, Typed, ForgetTasks, Forget, Statuses
<1>6. ASSUME NEW t \in Tasks, NEW r \in Repos, ChangeRepo(c, t, r)
      PROVE  Typed'
  BY <1>0, <1>6, StartTyped DEF ChangeRepo, Base, Typed
<1>7. ASSUME NEW e \in epics, Regroup(c, e) \/ Flatten(c, e)
      PROVE  Typed'
  <2>1. PICK q : Start(c, Tasks, q)
    BY <1>7 DEF Regroup, Flatten
  <2>2. HandlersTyped' /\ overlap' \subseteq {"tree", "tasks", "drop"}
    BY <1>0, <2>1, StartTyped DEF Base
  <2>3. UNCHANGED <<estatus, tstatus, excused, lost>>
    BY <1>7 DEF Regroup, Flatten
  <2> QED
    BY <2>2, <2>3 DEF Typed
<1>8. ASSUME NEW e \in epics, SetFlag(c, e)
      PROVE  Typed'
  BY <1>0, <1>8, StartTyped DEF SetFlag, Base, Typed
<1>9. ASSUME NEW e \in epics, NEW s \in Statuses, SetEpicStatus(c, e, s)
      PROVE  Typed'
  BY <1>0, <1>9, StartTyped DEF SetEpicStatus, Base, Typed, TreeOK
<1>10. ASSUME NEW e \in epics, Unparent(c, e) \/ \E p \in epics : Reparent(c, e, p)
       PROVE  Typed'
  BY <1>0, <1>10, StartTyped DEF Unparent, Reparent, Base, Typed
<1> QED
  BY <1>1, <1>2, <1>3, <1>4, <1>5, <1>6, <1>7, <1>8, <1>9, <1>10 DEF Begin

(* ... and so do the other calls.                                          *)
LEMMA ContinueTyped ==
    ASSUME Base, Typed, NEW c \in Calls, Continue(c)
    PROVE  Typed'
<1>1. Busy(c) /\ begun' = begun
  BY DEF Continue, CheckStep, LinkEpic, PlaceTask, SetTaskEpic, InsertTask, FindEpic, RecalcEpic,
         RerouteTask, DrainGroup, CleanupGroup, DropGroup, Next1
<1>2. \E q : Left(c, q)
  BY DEF Continue, CheckStep, LinkEpic, PlaceTask, SetTaskEpic, InsertTask, FindEpic, RecalcEpic,
         RerouteTask, DrainGroup, CleanupGroup, DropGroup, Then, Fail
<1>3. HandlersTyped'
  BY <1>1, <1>2, LeftTyped DEF Base
<1>4. overlap' \subseteq {"tree", "tasks", "drop"}
  BY DEF Continue, CheckStep, LinkEpic, PlaceTask, SetTaskEpic, InsertTask, FindEpic, RecalcEpic,
         RerouteTask, DrainGroup, CleanupGroup, DropGroup, history, Doomed, Typed
<1>5. CASE CheckStep(c) \/ LinkEpic(c) \/ FindEpic(c) \/ RerouteTask(c) \/ DrainGroup(c)
           \/ CleanupGroup(c) \/ SetTaskEpic(c)
  <2>1. UNCHANGED <<estatus, tstatus, excused, lost>>
    BY <1>5 DEF CheckStep, LinkEpic, FindEpic, RerouteTask, DrainGroup, CleanupGroup, SetTaskEpic,
                tree, board, history
  <2> QED
    BY <1>3, <1>4, <2>1 DEF Typed
<1>6. CASE InsertTask(c)
  BY <1>3, <1>4, <1>6 DEF InsertTask, Typed, tree, board, Statuses
<1>7. CASE RecalcEpic(c)
  <2>1. IsFiniteSet(epics)
    BY FS_Subset, TreeAssumption DEF Base, TreeOK
  <2>2. Walk(Arg(c).epic).s \in [Epics -> Statuses]
    BY <2>1, WalkClimbs DEF Base, Typed
  <2>3. estatus' = Walk(Arg(c).epic).s /\ excused' \subseteq excused /\ UNCHANGED <<tstatus, lost>>
    BY <1>7 DEF RecalcEpic, board
  <2> QED
    BY <1>3, <1>4, <2>2, <2>3 DEF Typed
<1>8. CASE PlaceTask(c)
  <2> DEFINE a == Arg(c)
             g == <<a.epic, a.repo>>
  <2>1. tstatus' = tstatus /\ lost' = lost
    BY <1>8 DEF PlaceTask, board
  <2>2. /\ estatus' = estatus \/ estatus' = [estatus EXCEPT ![g] = "open"]
        /\ \/ excused' \subseteq excused
           \/ a.epic \in epics \cap grouped /\ excused' \subseteq excused \cup {g, a.epic}
    BY <1>8 DEF PlaceTask, Overlooked
  <2>3. a.epic \in epics \cap grouped => g \in Epics /\ a.epic \in Epics
    <3>1. Arg(c) \in CallSet /\ a.call \in Placing
      BY <1>1, <1>8, Current DEF Base, PlaceTask, Next1, Placing
    <3> QED
      BY <3>1 DEF CallSet, FormOK, Base, TreeOK, Epics, Groups
  <2>4. estatus' \in [Epics -> Statuses]
    BY <2>2 DEF Typed, Statuses
  <2> QED
    BY <1>3, <1>4, <2>1, <2>2, <2>3, <2>4 DEF Typed
<1>9. CASE DropGroup(c)
  <2>1. /\ estatus' = Forget(estatus, Subtree(Arg(c).epic), "open") /\ excused' \subseteq excused
        /\ \E ts : tstatus' = Forget(tstatus, ts, "open")
        /\ lost' \subseteq lost \cup tasks
    BY <1>9 DEF DropGroup, ForgetEpics, ForgetTasks
  <2> QED
    BY <1>3, <1>4, <2>1 DEF Typed, Forget, Statuses, Base, BoardOK
<1> QED
  BY <1>5, <1>6, <1>7, <1>8, <1>9 DEF Continue

-----------------------------------------------------------------------------
(* What is owed.  While no two handlers concern one task, every epic that  *)
(* is not excused is in step, or below it there is an epic that some       *)
(* handler will still recalculate, whatever becomes of its next call.      *)

(* The epics whose recalculation is certain, of a handler with the calls q *)
(* on a board with tasks T and homes H: those it tells, unless its next    *)
(* call may fail.  A call that puts a task or deletes a group answers for  *)
(* its own epic: it fails only if that is gone.                            *)
Claims(T, H, q) ==
    IF q = << >> THEN {}
    ELSE CASE Head(q).call \in {"check", "link"} -> {}
           [] Head(q).call \in {"insert", "drop"} -> {Head(q).epic}
           [] Head(q).call = "set" /\ Head(q).epic \notin Manual -> {Head(q).epic}
           [] Head(q).call = "find" -> {H[t] : t \in T \cap {Head(q).task}}
           [] OTHER -> Told(Has(q))
Answered(E, P, C, e) == \E x \in C : x \in Below(E, P, e)
Answers(c, e) == Answered(epics, parent, Claims(tasks, home, todo[c]), e)

(* A reparenting recalculates the parent the epic has and the one it gets. *)
MoveTells(c) ==
    Mover(c) => /\ parent[Arg(c).epic] \in Told(Has(Tail(todo[c]))) \cup {None}
                /\ Arg(c).to \in Told(Has(Tail(todo[c]))) \cup {None}
CalmInv ==
    /\ Manual \subseteq epics
    /\ \A c \in Calls : /\ todo[c] = << >> => about[c] = {}
                        /\ Sound(tasks, home, todo[c], about[c]) /\ MoveTells(c)
    /\ \A c, d \in Calls : c # d => about[c] \cap about[d] = {}
    /\ \A e \in epics \ excused : InStep(e) \/ \E c \in Calls : Answers(c, e)
StepInv == TreeInv /\ Typed /\ (overlap = {} => CalmInv)

Leaves(ts) == \A t \in ts : (t \in tasks' <=> t \in tasks) /\ home'[t] = home[t]

(* A handler whose tasks a step leaves alone is as sound as before, and    *)
(* its claims are the same.                                                *)
LEMMA LeftAlone ==
    ASSUME HandlersOK, NEW d \in Calls, Sound(tasks, home, todo[d], about[d]), Leaves(about[d])
    PROVE  /\ Sound(tasks', home', todo[d], about[d])
           /\ Claims(tasks', home', todo[d]) = Claims(tasks, home, todo[d])
<1>1. ASSUME NEW a, NEW R, CallOK(tasks, home, a, R, about[d])
      PROVE  CallOK(tasks', home', a, R, about[d])
  <2>1. a.call \in AboutOne => (a.task \in tasks' <=> a.task \in tasks) /\ home'[a.task] = home[a.task]
    BY <1>1 DEF CallOK, Leaves
  <2>2. a.call \in Writers \cup {"move", "reroot", "reroute", "create", "insert"} => a.call \in AboutOne
    BY DEF Writers, AboutOne, Placing
  <2>3. /\ a.call \in Writers \cup {"move", "reroot", "reroute"} => a.task \in tasks'
        /\ a.call \in {"create", "insert"} => a.task \notin tasks'
    BY <1>1, <2>1, <2>2 DEF CallOK
  <2>4. a.call \in Writers \cup {"move", "reroot"} => home'[a.task] = home[a.task]
    BY <2>1, <2>2
  <2>5. "migrate" \in Writers
    BY DEF Writers
  <2> QED
    BY <1>1, <2>3, <2>4, <2>5 DEF CallOK
<1>2. Sound(tasks', home', todo[d], about[d])
  BY <1>1 DEF Sound
<1>3. Claims(tasks', home', todo[d]) = Claims(tasks, home, todo[d])
  <2>1. CASE todo[d] = << >>
    BY <2>1 DEF Claims
  <2>2. CASE todo[d] # << >>
    <3>1. todo[d] \in Seq(CallSet)
      BY DEF HandlersOK, Programs
    <3>2. CallOK(tasks, home, Head(todo[d]), Has(Tail(todo[d])), about[d])
      BY <2>2, <3>1, FirstAndRest
    <3>3. Head(todo[d]).call = "find" => Head(todo[d]).task \in about[d]
      BY <3>2 DEF CallOK, AboutOne
    <3>4. Head(todo[d]).call = "find" =>
            {home'[t] : t \in tasks' \cap {Head(todo[d]).task}}
              = {home[t] : t \in tasks \cap {Head(todo[d]).task}}
      BY <3>3 DEF Leaves
    <3> QED
      BY <2>2, <3>4 DEF Claims
  <2> QED
    BY <2>1, <2>2
<1> QED
  BY <1>2, <1>3

(* A step of handler c accounts for epic e.                                *)
Accounted(c, e) ==
    \/ InStep(e)'
    \/ Answered(epics', parent', Claims(tasks', home', todo'[c]), e)
    \/ /\ e \in epics \ excused /\ ~ InStep(e) /\ ~ Answers(c, e)
       /\ Below(epics, parent, e) \subseteq Below(epics', parent', e)

(* What a step of handler c must see to: its own program, the tasks of the *)
(* others, the parents they are about to change, and every epic.           *)
LEMMA CalmStep ==
    ASSUME HandlersOK, CalmInv, NEW c \in Calls, OthersStay(c),
           todo'[c] = << >> => about'[c] = {},
           \A d \in Calls \ {c} :
             /\ about'[d] = about[d] /\ about'[c] \cap about[d] = {} /\ Leaves(about[d])
             /\ Mover(d) => parent'[Arg(d).epic] = parent[Arg(d).epic],
           Sound(tasks', home', todo'[c], about'[c]), MoveTells(c)', Manual \subseteq epics',
           \A e \in epics' \ excused' : Accounted(c, e)
    PROVE  CalmInv'
<1>1. ASSUME NEW d \in Calls
      PROVE  /\ todo'[d] = << >> => about'[d] = {}
             /\ Sound(tasks', home', todo'[d], about'[d])
  <2>1. CASE d = c
    BY <2>1
  <2>2. CASE d # c
    <3>1. todo'[d] = todo[d] /\ about'[d] = about[d] /\ Leaves(about[d])
      BY <2>2 DEF OthersStay
    <3>2. (todo[d] = << >> => about[d] = {}) /\ Sound(tasks, home, todo[d], about[d])
      BY DEF CalmInv
    <3> QED
      BY <3>1, <3>2, LeftAlone
  <2> QED
    BY <2>1, <2>2
<1>2. ASSUME NEW d \in Calls PROVE MoveTells(d)'
  <2>1. CASE d # c
    <3>1. todo'[d] = todo[d] /\ (Mover(d) => parent'[Arg(d).epic] = parent[Arg(d).epic]) /\ MoveTells(d)
      BY <2>1 DEF OthersStay, CalmInv
    <3> QED
      BY <3>1 DEF MoveTells, Mover, Arg, Next1, Busy
  <2> QED
    BY <2>1
<1>3. \A d, b \in Calls : d # b => about'[d] \cap about'[b] = {}
  <2>1. SUFFICES ASSUME NEW d \in Calls, NEW b \in Calls, d # b PROVE about'[d] \cap about'[b] = {}
    OBVIOUS
  <2>2. about[d] \cap about[b] = {}
    BY <2>1 DEF CalmInv
  <2> QED
    BY <2>1, <2>2
<1>4. ASSUME NEW e \in epics' \ excused'
      PROVE  InStep(e)' \/ \E d \in Calls : Answers(d, e)'
  <2>1. SUFFICES ASSUME e \in epics \ excused, ~ InStep(e), ~ Answers(c, e),
                        Below(epics, parent, e) \subseteq Below(epics', parent', e)
                 PROVE  \E d \in Calls : Answers(d, e)'
    BY <1>4 DEF Accounted, Answers
  <2>2. PICK d \in Calls : Answers(d, e)
    BY <2>1 DEF CalmInv
  <2>3. d # c
    BY <2>1, <2>2
  <2>4. todo'[d] = todo[d] /\ Leaves(about[d]) /\ Sound(tasks, home, todo[d], about[d])
    BY <2>3 DEF OthersStay, CalmInv
  <2>5. Claims(tasks', home', todo[d]) = Claims(tasks, home, todo[d])
    BY <2>4, LeftAlone
  <2> QED
    BY <2>1, <2>2, <2>4, <2>5 DEF Answers, Answered
<1> QED
  BY <1>1, <1>2, <1>3, <1>4 DEF CalmInv

(* With no handler running nothing is owed.                                *)
LEMMA StepInvSettles ==
    StepInv => EpicsInStep
<1> SUFFICES ASSUME StepInv PROVE EpicsInStep
  OBVIOUS
<1>1. TypeOK
  BY DEF StepInv, TreeInv, Base, TreeOK, BoardOK, HandlersOK, Typed, HandlersTyped, TypeOK, Ends
<1>2. ASSUME \A c \in Calls : ~ Busy(c), overlap = {}, NEW e \in epics \ excused
      PROVE  InStep(e)
  <2>1. \A c \in Calls : ~ Answers(c, e)
    BY <1>2 DEF Busy, Answers, Answered, Claims
  <2> QED
    BY <1>2, <2>1 DEF StepInv, CalmInv
<1> QED
  BY <1>1, <1>2 DEF EpicsInStep

(* Nor is anything at the start.                                           *)
LEMMA InitIsCalm ==
    ASSUME Init
    PROVE  StepInv
<1>1. TreeInv
  BY InitIsTree
<1>2. todo = [c \in Calls |-> << >>] /\ about = [c \in Calls |-> {}] /\ begun = {}
      /\ excused = {} /\ overlap = {} /\ lost = {}
  BY DEF Init
<1>3. Typed
  <2>1. estatus \in [Epics -> Statuses] /\ tstatus \in [Tasks -> Statuses]
    BY DEF Init, Statuses
  <2> QED
    BY <1>2, <2>1 DEF Typed, HandlersTyped, Busy
<1>4. CalmInv
  <2>1. Manual \subseteq epics
    BY DEF Init
  <2>2. \A e \in epics : InStep(e)
    BY DEF Init, InStep
  <2>3. \A c \in Calls : Sound(tasks, home, todo[c], about[c]) /\ ~ Mover(c)
    BY <1>2, NoCalls DEF Mover, Next1, Busy
  <2> QED
    BY <1>2, <2>1, <2>2, <2>3 DEF CalmInv, MoveTells
<1> QED
  BY <1>1, <1>3, <1>4 DEF StepInv

-----------------------------------------------------------------------------
(* Handlers that begin.                                                    *)

(* An epic with the same status and the same active children is in step as *)
(* before.                                                                 *)
LEMMA InStepKept ==
    ASSUME NEW e, estatus'[e] = estatus[e],
           \A g : g \in SubEpics(e)' <=> g \in SubEpics(e),
           \A g \in SubEpics(e) : estatus'[g] = estatus[g],
           \A t \in TasksOf(e) : tstatus[t] # "archived" => t \in TasksOf(e)' /\ tstatus'[t] = tstatus[t],
           \A t \in TasksOf(e)' : tstatus'[t] # "archived" => t \in TasksOf(e) /\ tstatus'[t] = tstatus[t]
    PROVE  InStep(e)' <=> InStep(e)
<1>1. ActiveChildren(e, estatus)' = ActiveChildren(e, estatus)
  BY DEF ActiveChildren
<1> QED
  BY <1>1 DEF InStep

(* Programs of one, two or three calls.                                    *)
LEMMA OneSound ==
    ASSUME NEW a \in CallSet
    PROVE  /\ <<a>> \in Seq(CallSet) /\ <<a>> # << >> /\ Head(<<a>>) = a
           /\ Has(<<a>>) = {a} /\ After(<<a>>, 1) = {} /\ Has(Tail(<<a>>)) = {}
           /\ \A T, H, ts : CallOK(T, H, a, {}, ts) => Sound(T, H, <<a>>, ts)
<1>1. /\ <<a>> \in Seq(CallSet) /\ <<a>> # << >> /\ Head(<<a>>) = a /\ Tail(<<a>>) = << >>
      /\ Len(<<a>>) = 1 /\ <<a>>[1] = a
  OBVIOUS
<1>2. 1..1 = {1} /\ 2..1 = {}
  OBVIOUS
<1>3. Has(<<a>>) = {<<a>>[i] : i \in {1}} /\ After(<<a>>, 1) = {<<a>>[i] : i \in {}}
  BY <1>1, <1>2 DEF Has, After
<1>4. Has(<<a>>) = {a} /\ After(<<a>>, 1) = {}
  BY <1>1, <1>3
<1>5. \A T, H, ts : CallOK(T, H, a, {}, ts) => Sound(T, H, <<a>>, ts)
  BY <1>1, <1>2, <1>4 DEF Sound
<1> QED
  BY <1>1, <1>4, <1>5, NoCalls

(* Of two calls, the first has to allow for the second ...                 *)
LEMMA TwoSound ==
    ASSUME NEW a \in CallSet, NEW b \in CallSet
    PROVE  /\ <<a, b>> \in Seq(CallSet) /\ <<a, b>> # << >> /\ Head(<<a, b>>) = a
           /\ Tail(<<a, b>>) = <<b>> /\ Has(<<a, b>>) = {a, b} /\ Has(Tail(<<a, b>>)) = {b}
           /\ \A T, H, ts : CallOK(T, H, a, {b}, ts) /\ CallOK(T, H, b, {}, ts) =>
                              Sound(T, H, <<a, b>>, ts)
<1>1. /\ <<a, b>> \in Seq(CallSet) /\ <<a, b>> # << >> /\ Head(<<a, b>>) = a
      /\ Tail(<<a, b>>) = <<b>> /\ Len(<<a, b>>) = 2 /\ <<a, b>>[1] = a /\ <<a, b>>[2] = b
  OBVIOUS
<1>2. 1..2 = {1, 2} /\ 2..2 = {2} /\ 3..2 = {}
  OBVIOUS
<1> DEFINE q == <<a, b>>
<1>3. /\ Has(q) = {q[i] : i \in {1, 2}} /\ After(q, 1) = {q[i] : i \in {2}}
      /\ After(q, 2) = {q[i] : i \in {}}
  BY <1>1, <1>2 DEF Has, After
<1>4. Has(q) = {a, b} /\ After(q, 1) = {b} /\ After(q, 2) = {}
  <2>1. q[1] = a /\ q[2] = b
    BY <1>1
  <2> HIDE DEF q
  <2> QED
    BY <1>3, <2>1
<1>5. \A T, H, ts : CallOK(T, H, a, {b}, ts) /\ CallOK(T, H, b, {}, ts) => Sound(T, H, q, ts)
  <2>1. Len(q) = 2 /\ q[1] = a /\ q[2] = b
    BY <1>1
  <2> HIDE DEF q
  <2> QED
    BY <1>2, <1>4, <2>1 DEF Sound
<1>6. Has(<<b>>) = {b}
  BY OneSound
<1> QED
  BY <1>1, <1>4, <1>5, <1>6

(* ... and of three, for the other two.                                    *)
LEMMA ThreeSound ==
    ASSUME NEW a \in CallSet, NEW b \in CallSet, NEW d \in CallSet
    PROVE  /\ <<a, b, d>> \in Seq(CallSet) /\ <<a, b, d>> # << >> /\ Head(<<a, b, d>>) = a
           /\ Tail(<<a, b, d>>) = <<b, d>>
           /\ Has(<<a, b, d>>) = {a, b, d} /\ Has(Tail(<<a, b, d>>)) = {b, d}
           /\ \A T, H, ts :
                CallOK(T, H, a, {b, d}, ts) /\ CallOK(T, H, b, {d}, ts) /\ CallOK(T, H, d, {}, ts)
                  => Sound(T, H, <<a, b, d>>, ts)
<1>1. /\ <<a, b, d>> \in Seq(CallSet) /\ <<a, b, d>> # << >> /\ Head(<<a, b, d>>) = a
      /\ Tail(<<a, b, d>>) = <<b, d>> /\ Len(<<a, b, d>>) = 3
      /\ <<a, b, d>>[1] = a /\ <<a, b, d>>[2] = b /\ <<a, b, d>>[3] = d
  OBVIOUS
<1>2. 1..3 = {1, 2, 3} /\ 2..3 = {2, 3} /\ 3..3 = {3} /\ 4..3 = {}
  OBVIOUS
<1> DEFINE q == <<a, b, d>>
<1>3. /\ Has(q) = {q[i] : i \in {1, 2, 3}} /\ After(q, 1) = {q[i] : i \in {2, 3}}
      /\ After(q, 2) = {q[i] : i \in {3}} /\ After(q, 3) = {q[i] : i \in {}}
  BY <1>1, <1>2 DEF Has, After
<1>4. Has(q) = {a, b, d} /\ After(q, 1) = {b, d} /\ After(q, 2) = {d} /\ After(q, 3) = {}
  <2>1. q[1] = a /\ q[2] = b /\ q[3] = d
    BY <1>1
  <2> HIDE DEF q
  <2> QED
    BY <1>3, <2>1
<1>5. \A T, H, ts :
        CallOK(T, H, a, {b, d}, ts) /\ CallOK(T, H, b, {d}, ts) /\ CallOK(T, H, d, {}, ts)
          => Sound(T, H, q, ts)
  <2>1. Len(q) = 3 /\ q[1] = a /\ q[2] = b /\ q[3] = d
    BY <1>1
  <2> HIDE DEF q
  <2> QED
    BY <1>2, <1>4, <2>1 DEF Sound
<1>6. Has(<<b, d>>) = {b, d}
  BY TwoSound
<1> QED
  BY <1>1, <1>4, <1>5, <1>6

Started(c, ts, q) ==
    /\ todo[c] = << >> /\ todo'[c] = q /\ OthersStay(c)
    /\ about'[c] = IF q = << >> THEN {} ELSE ts
    /\ \A d \in Calls \ {c} : about'[d] = about[d] /\ about[d] \cap ts = {}
    /\ \A e : ~ Answers(c, e)

(* A handler that starts without a race claims nothing before, and         *)
(* concerns tasks that no other one does.                                  *)
LEMMA StartsCalm ==
    ASSUME HandlersOK, Typed, CalmInv, overlap' = {}, NEW c \in Calls, NEW ts \in SUBSET Tasks,
           NEW q, Start(c, ts, q)
    PROVE  Started(c, ts, q)
<1>1. /\ c \notin begun /\ todo' = [todo EXCEPT ![c] = q]
      /\ about' = [about EXCEPT ![c] = IF q = << >> THEN {} ELSE ts]
      /\ \A d \in Calls : ~ (Busy(d) /\ about[d] \cap ts # {})
  BY DEF Start
<1>2. todo[c] = << >>
  BY <1>1 DEF Typed, HandlersTyped, Busy
<1>3. \A d \in Calls \ {c} : about[d] \cap ts = {}
  BY <1>1 DEF CalmInv, Busy
<1>4. \A e : ~ Answers(c, e)
  BY <1>2 DEF Answers, Answered, Claims
<1> QED
  BY <1>1, <1>2, <1>3, <1>4 DEF Started, HandlersOK, OthersStay, Typed, HandlersTyped

Tells(P, q) ==
    q # << >> /\ Head(q).call \in {"check", "link"} =>
      /\ P[Head(q).epic] \in Told(Has(Tail(q))) \cup {None}
      /\ Head(q).to \in Told(Has(Tail(q))) \cup {None}

(* A program that a reparenting's call does not begin tells nothing of     *)
(* parents.                                                                *)
LEMMA TellsMoves ==
    ASSUME NEW c, Tells(parent', todo'[c])
    PROVE  MoveTells(c)'
BY DEF Tells, MoveTells, Mover, Next1, Busy, Arg

Rows == <<epics, parent, estatus, tasks, home, tstatus>>
(* A handler that begins without touching a row.                           *)
LEMMA BeginCalm ==
    ASSUME HandlersOK, Typed, CalmInv, overlap' = {}, NEW c \in Calls, NEW ts \in SUBSET Tasks,
           NEW q, Start(c, ts, q), UNCHANGED Rows, excused' = excused,
           Sound(tasks, home, q, ts), Tells(parent, q)
    PROVE  CalmInv'
<1>1. /\ todo'[c] = q /\ OthersStay(c) /\ about'[c] = IF q = << >> THEN {} ELSE ts
      /\ \A d \in Calls \ {c} : about'[d] = about[d] /\ about[d] \cap ts = {}
      /\ \A e : ~ Answers(c, e)
  <2>1. Started(c, ts, q)
    BY StartsCalm
  <2> QED
    BY <2>1 DEF Started
<1>2. epics' = epics /\ parent' = parent /\ estatus' = estatus /\ tasks' = tasks /\ home' = home
      /\ tstatus' = tstatus
  BY DEF Rows
<1>3. MoveTells(c)'
  BY <1>1, <1>2, TellsMoves
<1>4. Sound(tasks', home', todo'[c], about'[c])
  BY <1>1, <1>2, NoCalls
<1>5. ASSUME NEW e \in epics' \ excused' PROVE Accounted(c, e)
  <2>1. InStep(e)' <=> InStep(e)
    BY <1>2 DEF InStep, ActiveChildren, TasksOf, SubEpics
  <2> QED
    BY <1>1, <1>2, <1>5, <2>1 DEF Accounted
<1>6. \A ds : Leaves(ds)
  BY <1>2 DEF Leaves
<1>7. Manual \subseteq epics'
  BY <1>2 DEF CalmInv
<1> QED
  BY <1>1, <1>2, <1>3, <1>4, <1>5, <1>6, <1>7, CalmStep

(* Calls read back.                                                        *)
LEMMA CallFields ==
    /\ \A e : /\ Recalc(e).call = "recalc" /\ Recalc(e).epic = e
              /\ Cleanup(e).call = "cleanup" /\ Cleanup(e).epic = e
              /\ Drain(e).call = "drain" /\ Drain(e).epic = e
              /\ Drop(e).call = "drop" /\ Drop(e).epic = e
    /\ \A t : Find(t).call = "find" /\ Find(t).task = t
    /\ \A t, e : Set(t, e).call = "set" /\ Set(t, e).task = t /\ Set(t, e).epic = e
    /\ \A t, r : Reroute(t, r).call = "reroute" /\ Reroute(t, r).task = t
    /\ \A t, e, r : /\ Insert(t, e, r).call = "insert" /\ Insert(t, e, r).task = t
                    /\ Insert(t, e, r).epic = e
    /\ \A e, p : Link(e, p).call = "link" /\ Link(e, p).epic = e /\ Link(e, p).to = p
    /\ \A e, p, at : Check(e, p, at).call = "check" /\ Check(e, p, at).epic = e /\ Check(e, p, at).to = p
    /\ \A how, t, e, r, old :
         /\ Place(how, t, e, r, old).call = how /\ Place(how, t, e, r, old).task = t
         /\ Place(how, t, e, r, old).epic = e /\ Place(how, t, e, r, old).to = old
BY DEF Nil, Recalc, Cleanup, Drain, Drop, Find, Set, Reroute, Insert, Link, Check, Place

(* A call to recalculate is always sound.                                  *)
LEMMA RecalcSound ==
    /\ \A e : Later(Recalc(e)) /\ Told({Recalc(e)}) = {e}
    /\ \A T, H, e, R, ts : (\A b \in R : Later(b)) => CallOK(T, H, Recalc(e), R, ts)
<1> SUFFICES ASSUME NEW e
             PROVE  /\ Later(Recalc(e)) /\ Told({Recalc(e)}) = {e}
                    /\ \A T, H, R, ts : (\A b \in R : Later(b)) => CallOK(T, H, Recalc(e), R, ts)
  OBVIOUS
<1>1. Recalc(e).call = "recalc" /\ Recalc(e).epic = e
  BY CallFields
<1>2. Later(Recalc(e)) /\ Told({Recalc(e)}) = {e}
  BY <1>1 DEF Later, Told
<1>3. \A T, H, R, ts : (\A b \in R : Later(b)) => CallOK(T, H, Recalc(e), R, ts)
  BY <1>1 DEF CallOK, AboutOne, Placing, Writers, Alone
<1> QED
  BY <1>2, <1>3

(* The beginnings that touch no row.                                       *)
LEMMA BeginQuietly ==
    ASSUME Base, Typed, CalmInv, overlap' = {}, NEW c \in Calls, NEW t \in Tasks,
           \/ \E e \in epics : MoveTask(c, t, e) \/ \E r \in Repos : CreateTask(c, t, e, r)
           \/ DetachTask(c, t) \/ \E r \in Repos : ChangeRepo(c, t, r)
    PROVE  CalmInv'
<1>0. /\ tasks \subseteq Tasks /\ epics \subseteq Ends /\ None \in Ends
      /\ \A x \in Tasks : home[x] \in Ends
      /\ \A x \in tasks : repo[x] \in Repos
      /\ Plain \subseteq CallSet
      /\ {t} \in SUBSET Tasks
  BY DEF Base, TreeOK, BoardOK, Ends, Plain
<1>1. ASSUME NEW e \in epics, NEW r \in Repos, CreateTask(c, t, e, r)
      PROVE  CalmInv'
  <2> DEFINE a == Place("create", t, e, r, None)
  <2>1. a \in CallSet /\ a.call = "create" /\ a.task = t
    BY <1>0, CallsFormed, CallFields DEF Placing
  <2>2. t \notin tasks /\ Start(c, {t}, <<a>>) /\ UNCHANGED Rows /\ excused' = excused
    BY <1>1 DEF CreateTask, tree, board, Rows
  <2> HIDE DEF a
  <2>3. CallOK(tasks, home, a, {}, {t})
    BY <2>1, <2>2 DEF CallOK, Writers, Alone, AboutOne, Placing
  <2>4. Sound(tasks, home, <<a>>, {t}) /\ Tells(parent, <<a>>)
    BY <2>1, <2>3, OneSound DEF Tells
  <2> QED
    BY <1>0, <2>2, <2>4, BeginCalm DEF Base
<1>2. ASSUME NEW e \in epics, MoveTask(c, t, e)
      PROVE  CalmInv'
  <2> DEFINE a == Place("move", t, e, repo[t], home[t])
  <2>1. /\ t \in tasks /\ Start(c, {t}, <<a>>) /\ UNCHANGED Rows /\ excused' = excused
    BY <1>2 DEF MoveTask, tree, board, Rows
  <2>2. a \in CallSet /\ a.call = "move" /\ a.task = t /\ a.to = home[t]
    BY <1>0, <2>1, CallsFormed, CallFields DEF Placing
  <2> HIDE DEF a
  <2>3. CallOK(tasks, home, a, {}, {t})
    BY <2>1, <2>2 DEF CallOK, Writers, Alone, AboutOne, Placing
  <2>4. Sound(tasks, home, <<a>>, {t}) /\ Tells(parent, <<a>>)
    BY <2>2, <2>3, OneSound DEF Tells
  <2> QED
    BY <1>0, <2>1, <2>4, BeginCalm DEF Base
<1>3. ASSUME DetachTask(c, t)
      PROVE  CalmInv'
  <2> DEFINE a == Set(t, None)
             b == Recalc(home[t])
  <2>1. /\ t \in tasks /\ Start(c, {t}, <<a, b>>) /\ UNCHANGED Rows /\ excused' = excused
    BY <1>3 DEF DetachTask, tree, board, Rows
  <2>2. a \in CallSet /\ b \in CallSet /\ a.call = "set" /\ a.task = t /\ a.epic = None /\ b.call = "recalc"
    BY <1>0, <2>1, CallsFormed, CallFields
  <2>3. Later(b) /\ Told({b}) = {home[t]} /\ CallOK(tasks, home, b, {}, {t})
    BY RecalcSound
  <2> HIDE DEF a, b
  <2>4. CallOK(tasks, home, a, {b}, {t})
    BY <2>1, <2>2, <2>3 DEF CallOK, Writers, Alone, AboutOne, Placing
  <2>5. Sound(tasks, home, <<a, b>>, {t}) /\ Tells(parent, <<a, b>>)
    BY <2>2, <2>3, <2>4, TwoSound DEF Tells
  <2> QED
    BY <1>0, <2>1, <2>5, BeginCalm DEF Base
<1>4. ASSUME NEW r \in Repos, ChangeRepo(c, t, r)
      PROVE  CalmInv'
  <2> DEFINE a == Reroute(t, r)
  <2>1. t \in tasks /\ Start(c, {t}, <<a>>) /\ UNCHANGED Rows /\ excused' = excused
    BY <1>4 DEF ChangeRepo, tree, Rows
  <2>2. a \in CallSet /\ a.call = "reroute" /\ a.task = t
    BY <1>0, CallsFormed, CallFields
  <2> HIDE DEF a
  <2>3. CallOK(tasks, home, a, {}, {t})
    BY <2>1, <2>2 DEF CallOK, Writers, Alone, AboutOne, Placing
  <2>4. Sound(tasks, home, <<a>>, {t}) /\ Tells(parent, <<a>>)
    BY <2>2, <2>3, OneSound DEF Tells
  <2> QED
    BY <1>0, <2>1, <2>4, BeginCalm DEF Base
<1> QED
  BY <1>1, <1>2, <1>3, <1>4

(* A reparenting, or the release of a parent, begins.                      *)
LEMMA BeginMove ==
    ASSUME Base, Typed, CalmInv, overlap' = {}, NEW c \in Calls, NEW e \in epics,
           Unparent(c, e) \/ \E p \in epics : Reparent(c, e, p)
    PROVE  CalmInv'
<1>0. /\ epics \subseteq Ends /\ None \in Ends /\ \A x \in epics : parent[x] \in Ends
      /\ Plain \subseteq CallSet /\ {} \in SUBSET Tasks /\ epics \subseteq Epics
  BY DEF Base, TreeOK, BoardOK, Ends, Plain
<1> DEFINE b == Recalc(parent[e])
<1>1. Later(b) /\ Told({b}) = {parent[e]} /\ b \in CallSet /\ b.call = "recalc" /\ b.epic = parent[e]
  BY <1>0, RecalcSound, CallsFormed, CallFields
<1>2. CASE Unparent(c, e)
  <2> DEFINE a == Link(e, None)
  <2>1. Start(c, {}, <<a, b>>) /\ UNCHANGED Rows /\ excused' = excused /\ e \in Manual
    BY <1>0, <1>2 DEF Unparent, tree, board, Rows, Epics
  <2>2. a \in CallSet /\ a.call = "link" /\ a.epic = e /\ a.to = None
    BY <1>0, <2>1, CallsFormed, CallFields
  <2>3. CallOK(tasks, home, b, {}, {})
    BY RecalcSound
  <2> HIDE DEF a, b
  <2>4. CallOK(tasks, home, a, {b}, {})
    BY <1>1, <2>2 DEF CallOK, Writers, Alone, AboutOne, Placing
  <2>5. Sound(tasks, home, <<a, b>>, {})
    BY <1>1, <2>2, <2>3, <2>4, TwoSound
  <2>6. Tells(parent, <<a, b>>)
    <3>1. Has(Tail(<<a, b>>)) = {b} /\ Head(<<a, b>>) = a
      BY <1>1, <2>2, TwoSound
    <3> QED
      BY <1>1, <2>2, <3>1 DEF Tells
  <2> QED
    BY <1>0, <2>1, <2>5, <2>6, BeginCalm DEF Base
<1>3. ASSUME NEW p \in epics, Reparent(c, e, p)
      PROVE  CalmInv'
  <2> DEFINE a == Check(e, p, parent[p])
             d == Recalc(p)
  <2>1. Start(c, {}, <<a, b, d>>) /\ UNCHANGED Rows /\ excused' = excused /\ e \in Manual
    BY <1>0, <1>3 DEF Reparent, tree, board, Rows, Epics
  <2>2. a \in CallSet /\ a.call = "check" /\ a.epic = e /\ a.to = p
    BY <1>0, <2>1, CallsFormed, CallFields
  <2>3. Later(d) /\ d \in CallSet /\ d.call = "recalc" /\ d.epic = p
    BY <1>0, RecalcSound, CallsFormed, CallFields
  <2>4. CallOK(tasks, home, b, {d}, {}) /\ CallOK(tasks, home, d, {}, {})
    BY <2>3, RecalcSound
  <2> HIDE DEF a, b, d
  <2>5. CallOK(tasks, home, a, {b, d}, {})
    BY <1>1, <2>2, <2>3 DEF CallOK, Writers, Alone, AboutOne, Placing
  <2>6. Sound(tasks, home, <<a, b, d>>, {})
    BY <1>1, <2>2, <2>3, <2>4, <2>5, ThreeSound
  <2>7. Tells(parent, <<a, b, d>>)
    <3>1. Has(Tail(<<a, b, d>>)) = {b, d} /\ Head(<<a, b, d>>) = a
      BY <1>1, <2>2, <2>3, ThreeSound
    <3>2. parent[e] \in Told({b, d}) /\ p \in Told({b, d})
      BY <1>1, <2>3 DEF Told
    <3> QED
      BY <2>2, <3>1, <3>2 DEF Tells
  <2> QED
    BY <1>0, <2>1, <2>6, <2>7, BeginCalm DEF Base
<1> QED
  BY <1>2, <1>3

(* The flag of a root is written alone, ...                                *)
LEMMA BeginFlag ==
    ASSUME Base, Typed, CalmInv, overlap' = {}, NEW c \in Calls, NEW e \in epics, SetFlag(c, e)
    PROVE  CalmInv'
<1>1. Start(c, {}, << >>) /\ UNCHANGED Rows /\ excused' = excused
  BY DEF SetFlag, board, Rows
<1>2. Sound(tasks, home, << >>, {}) /\ Tells(parent, << >>) /\ {} \in SUBSET Tasks
  BY NoCalls DEF Tells
<1> QED
  BY <1>1, <1>2, BeginCalm DEF Base

(* ... or with a regrouping, whose migrations are of different tasks, ...  *)
LEMMA BeginRegroup ==
    ASSUME Base, Typed, CalmInv, overlap' = {}, NEW c \in Calls, NEW e \in epics, Regroup(c, e)
    PROVE  CalmInv'
<1> DEFINE direct == {t \in TasksOf(e) : tstatus[t] # "archived"}
           f == [t \in Tasks |-> Place("migrate", t, e, repo[t], None)]
           s == [i \in 1..Cardinality(direct) |-> f[SetOf(direct)[i]]]
           b == Recalc(e)
           q == s \o <<b>>
<1>0. /\ tasks \subseteq Tasks /\ epics \subseteq Ends /\ None \in Ends
      /\ \A x \in tasks : repo[x] \in Repos
      /\ Plain \subseteq CallSet /\ direct \subseteq tasks /\ direct \subseteq Tasks
      /\ \A t \in direct : home[t] = e
  BY DEF Base, TreeOK, BoardOK, Ends, Plain, TasksOf
<1>1. IsFiniteSet(direct)
  BY <1>0, FS_Subset, TreeAssumption
<1>2. \A t \in direct : /\ f[t] \in CallSet /\ f[t].call = "migrate" /\ f[t].task = t /\ f[t].epic = e
  BY <1>0, CallsFormed, CallFields DEF Placing
<1>3. /\ b \in CallSet /\ Later(b) /\ Told({b}) = {e} /\ b.call = "recalc" /\ b.epic = e
      /\ CallOK(tasks, home, b, {}, Tasks)
  BY <1>0, CallsFormed, CallFields, RecalcSound
<1>4. /\ Start(c, Tasks, q) /\ UNCHANGED Rows /\ excused' = excused
  <2>1. s = Each(direct, LAMBDA t : Place("migrate", t, e, repo[t], None))
    <3>1. \A i \in 1..Cardinality(direct) : SetOf(direct)[i] \in Tasks
      BY <1>0, <1>1, SetOfFinite
    <3> QED
      BY <3>1 DEF Each
  <2>2. Start(c, Tasks, Each(direct, LAMBDA t : Place("migrate", t, e, repo[t], None)) \o <<Recalc(e)>>)
    BY DEF Regroup
  <2> QED
    BY <2>1, <2>2 DEF Regroup, board, Rows
<1>5. /\ s \in Seq(CallSet) /\ Has(s) = {f[t] : t \in direct}
      /\ \A i \in 1..Len(s) : \E t \in direct :
           s[i] = f[t] /\ After(s, i) \subseteq {f[y] : y \in direct \ {t}}
  <2>1. Lists(s, f, direct)
    BY <1>1, <1>2, CallForEach
  <2> QED
    BY <2>1 DEF Lists
<1> HIDE DEF s, f, b
<1>6. <<b>> \in Seq(CallSet) /\ Has(<<b>>) = {b} /\ Sound(tasks, home, <<b>>, Tasks)
  BY <1>3, OneSound
<1>7. ASSUME NEW t \in direct, NEW R \in SUBSET {f[y] : y \in direct \ {t}}
      PROVE  CallOK(tasks, home, f[t], R \cup {b}, Tasks)
  <2>1. \A a \in R : a.call = "migrate" /\ a.task # t /\ a.task \in direct
    BY <1>2, <1>7
  <2>2. \A a \in R \cup {b} : Later(a) /\ (a.call \in Writers => a.task # t)
    BY <1>3, <2>1 DEF Later, Writers
  <2>3. Told(R \cup {b}) = {e}
    BY <1>3, <2>1 DEF Told
  <2> QED
    BY <1>0, <1>2, <2>2, <2>3 DEF CallOK, Writers, Alone, AboutOne, Placing
<1>8. Sound(tasks, home, q, Tasks)
  <2>1. \A i \in 1..Len(s) : CallOK(tasks, home, s[i], After(s, i) \cup Has(<<b>>), Tasks)
    BY <1>5, <1>6, <1>7
  <2> QED
    BY <1>5, <1>6, <2>1, JoinedCalls
<1>9. Tells(parent, q)
  <2>1. q \in Seq(CallSet) /\ Has(q) = {f[t] : t \in direct} \cup {b}
    BY <1>5, <1>6, JoinedCalls
  <2>2. q # << >> => Head(q) \in Has(q)
    BY <2>1, FirstAndRest
  <2> HIDE DEF q
  <2> QED
    BY <1>2, <1>3, <2>1, <2>2 DEF Tells
<1> HIDE DEF q
<1> QED
  BY <1>4, <1>8, <1>9, BeginCalm DEF Base

(* ... or with a flattening, whose drains are of groups of the root.       *)
LEMMA BeginFlatten ==
    ASSUME Base, Typed, CalmInv, overlap' = {}, NEW c \in Calls, NEW e \in epics, Flatten(c, e)
    PROVE  CalmInv'
<1> DEFINE subs == {g \in SubEpics(e) \cap Groups : estatus[g] # "archived"}
           f == [g \in Groups |-> Drain(g)]
           s == [i \in 1..Cardinality(subs) |-> f[SetOf(subs)[i]]]
           b == Recalc(e)
           q == s \o <<b>>
<1>0. /\ epics \subseteq Ends /\ Plain \subseteq CallSet /\ subs \subseteq Groups /\ subs \subseteq Epics
      /\ \A g \in subs : g[1] = e
  BY DEF Base, TreeOK, Ends, Plain, SubEpics, Epics
<1>1. IsFiniteSet(subs)
  BY <1>0, FS_Subset, TreeAssumption
<1>2. \A g \in subs : /\ f[g] \in CallSet /\ f[g].call = "drain" /\ f[g].epic = g
  BY <1>0, CallsFormed, CallFields
<1>3. /\ b \in CallSet /\ Later(b) /\ Told({b}) = {e} /\ b.call = "recalc" /\ b.epic = e
      /\ CallOK(tasks, home, b, {}, Tasks)
  BY <1>0, CallsFormed, CallFields, RecalcSound
<1>4. /\ Start(c, Tasks, q) /\ UNCHANGED Rows /\ excused' = excused
  <2>1. s = Each(subs, Drain)
    <3>1. \A i \in 1..Cardinality(subs) : SetOf(subs)[i] \in Groups
      BY <1>0, <1>1, SetOfFinite
    <3> QED
      BY <3>1 DEF Each
  <2>2. Start(c, Tasks, Each(subs, Drain) \o <<Recalc(e)>>)
    BY DEF Flatten
  <2> QED
    BY <2>1, <2>2 DEF Flatten, board, Rows
<1>5. /\ s \in Seq(CallSet) /\ Has(s) = {f[g] : g \in subs}
      /\ \A i \in 1..Len(s) : \E g \in subs :
           s[i] = f[g] /\ After(s, i) \subseteq {f[y] : y \in subs \ {g}}
  <2>1. Lists(s, f, subs)
    BY <1>1, <1>2, CallForEach
  <2> QED
    BY <2>1 DEF Lists
<1> HIDE DEF s, f, b
<1>6. <<b>> \in Seq(CallSet) /\ Has(<<b>>) = {b} /\ Sound(tasks, home, <<b>>, Tasks)
  BY <1>3, OneSound
<1>7. ASSUME NEW g \in subs, NEW R \in SUBSET {f[y] : y \in subs \ {g}}
      PROVE  CallOK(tasks, home, f[g], R \cup {b}, Tasks)
  <2>1. \A a \in R : a.call = "drain"
    BY <1>2, <1>7
  <2>2. \A a \in R \cup {b} : Later(a) /\ a.call \notin Writers
    BY <1>3, <2>1 DEF Later, Writers
  <2>3. Told(R \cup {b}) = {e}
    BY <1>3, <2>1 DEF Told
  <2> QED
    BY <1>0, <1>2, <2>2, <2>3 DEF CallOK, Writers, Alone, AboutOne, Placing
<1>8. Sound(tasks, home, q, Tasks)
  <2>1. \A i \in 1..Len(s) : CallOK(tasks, home, s[i], After(s, i) \cup Has(<<b>>), Tasks)
    BY <1>5, <1>6, <1>7
  <2> QED
    BY <1>5, <1>6, <2>1, JoinedCalls
<1>9. Tells(parent, q)
  <2>1. q \in Seq(CallSet) /\ Has(q) = {f[g] : g \in subs} \cup {b}
    BY <1>5, <1>6, JoinedCalls
  <2>2. q # << >> => Head(q) \in Has(q)
    BY <2>1, FirstAndRest
  <2> HIDE DEF q
  <2> QED
    BY <1>2, <1>3, <2>1, <2>2 DEF Tells
<1> HIDE DEF q
<1> QED
  BY <1>4, <1>8, <1>9, BeginCalm DEF Base

(* An epic that a step neither concerns nor answers for.                   *)
LEMMA KeptAccounted ==
    ASSUME NEW c, NEW e, e \in epics \ excused, InStep(e)' <=> InStep(e), ~ Answers(c, e),
           epics' = epics, parent' = parent
    PROVE  Accounted(c, e)
<1>1. CASE InStep(e)
  BY <1>1 DEF Accounted
<1>2. CASE ~ InStep(e)
  BY <1>2 DEF Accounted
<1> QED
  BY <1>1, <1>2

(* A handler that begins by writing the status of a task answers for the   *)
(* task's epic, which is the only one it concerns.                         *)
LEMMA BeginStatus ==
    ASSUME Base, Typed, CalmInv, overlap' = {}, NEW c \in Calls, NEW t \in Tasks, NEW s \in Statuses,
           SetTaskStatus(c, t, s)
    PROVE  CalmInv'
<1> DEFINE a == Find(t)
<1>1. /\ t \in tasks /\ tstatus' = [tstatus EXCEPT ![t] = s] /\ Start(c, {t}, <<a>>)
      /\ UNCHANGED <<tree, tasks, home, excused>> /\ {t} \in SUBSET Tasks
  BY DEF SetTaskStatus
<1>2. Started(c, {t}, <<a>>)
  BY <1>1, StartsCalm DEF Base
<1>3. a \in CallSet /\ a.call = "find" /\ a.task = t
  BY CallsFormed, CallFields DEF Plain
<1> HIDE DEF a
<1>4. /\ <<a>> # << >> /\ Head(<<a>>) = a /\ Sound(tasks, home, <<a>>, {t}) /\ Tells(parent, <<a>>)
  <2>1. CallOK(tasks, home, a, {}, {t})
    BY <1>1, <1>3 DEF CallOK, Writers, Alone, AboutOne, Placing
  <2> QED
    BY <1>3, <2>1, OneSound DEF Tells
<1>5. epics' = epics /\ parent' = parent /\ estatus' = estatus /\ tasks' = tasks /\ home' = home
      /\ excused' = excused
  BY <1>1 DEF tree
<1>6. /\ todo'[c] = <<a>> /\ OthersStay(c) /\ about'[c] = {t}
      /\ \A d \in Calls \ {c} : about'[d] = about[d] /\ about[d] \cap {t} = {}
      /\ \A e : ~ Answers(c, e)
  BY <1>2, <1>4 DEF Started
<1>7. MoveTells(c)'
  BY <1>4, <1>5, <1>6, TellsMoves
<1>8. ASSUME NEW e \in epics' \ excused' PROVE Accounted(c, e)
  <2>1. CASE e = home[t]
    <3>1. Claims(tasks', home', todo'[c]) = {home[t]}
      <4>1. Claims(tasks, home, <<a>>) = {home[x] : x \in tasks \cap {t}}
        BY <1>3, <1>4 DEF Claims
      <4> QED
        BY <1>1, <1>5, <1>6, <4>1
    <3>2. e \in Below(epics, parent, e)
      BY <1>5, <1>8, BelowInherits
    <3> QED
      BY <1>5, <2>1, <3>1, <3>2 DEF Accounted, Answered
  <2>2. CASE e # home[t]
    <3>1. t \notin TasksOf(e) /\ TasksOf(e)' = TasksOf(e) /\ SubEpics(e)' = SubEpics(e)
      BY <1>5, <2>2 DEF TasksOf, SubEpics
    <3>2. \A x \in TasksOf(e) : tstatus'[x] = tstatus[x]
      BY <1>1, <3>1 DEF TasksOf, Base, BoardOK, Typed
    <3>3. InStep(e)' <=> InStep(e)
      BY <1>5, <3>1, <3>2, InStepKept
    <3>4. e \in epics \ excused /\ ~ Answers(c, e)
      BY <1>5, <1>6, <1>8
    <3> QED
      BY <1>5, <3>3, <3>4, KeptAccounted
  <2> QED
    BY <2>1, <2>2
<1>9. \A ds : Leaves(ds)
  BY <1>5 DEF Leaves
<1>10. Manual \subseteq epics' /\ Sound(tasks', home', todo'[c], about'[c])
  BY <1>4, <1>5, <1>6 DEF CalmInv
<1>11. \A d \in Calls \ {c} : /\ about'[d] = about[d] /\ about'[c] \cap about[d] = {} /\ Leaves(about[d])
                              /\ Mover(d) => parent'[Arg(d).epic] = parent[Arg(d).epic]
  BY <1>5, <1>6, <1>9
<1>12. todo'[c] = << >> => about'[c] = {}
  BY <1>4, <1>6
<1> QED
  BY <1>6, <1>7, <1>8, <1>10, <1>11, <1>12, CalmStep DEF Base

(* The deletion of an archived task concerns no epic.                      *)
LEMMA BeginDelete ==
    ASSUME Base, Typed, CalmInv, overlap' = {}, NEW c \in Calls, NEW t \in Tasks, DeleteTask(c, t)
    PROVE  CalmInv'
<1>1. /\ t \in tasks /\ tstatus[t] = "archived" /\ ForgetTasks({t}) /\ Start(c, {t}, << >>)
      /\ UNCHANGED <<tree, excused>> /\ {t} \in SUBSET Tasks
  BY DEF DeleteTask
<1>2. Started(c, {t}, << >>)
  BY <1>1, StartsCalm DEF Base
<1>3. epics' = epics /\ parent' = parent /\ estatus' = estatus /\ excused' = excused
  BY <1>1 DEF tree
<1>4. /\ todo'[c] = << >> /\ OthersStay(c) /\ about'[c] = {}
      /\ \A d \in Calls \ {c} : about'[d] = about[d] /\ about[d] \cap {t} = {}
      /\ \A e : ~ Answers(c, e)
  BY <1>2 DEF Started
<1>5. \A x \in Tasks \ {t} : (x \in tasks' <=> x \in tasks) /\ home'[x] = home[x] /\ tstatus'[x] = tstatus[x]
  BY <1>1 DEF ForgetTasks, Forget, Base, BoardOK, Typed
<1>6. \A d \in Calls \ {c} : Leaves(about[d])
  <2>1. \A d \in Calls \ {c} : about[d] \subseteq Tasks \ {t}
    BY <1>4 DEF Typed, HandlersTyped
  <2> QED
    BY <1>5, <2>1 DEF Leaves
<1>7. ASSUME NEW e \in epics' \ excused' PROVE Accounted(c, e)
  <2>1. tasks \subseteq Tasks /\ tasks' \subseteq tasks \ {t}
    BY <1>1 DEF Base, BoardOK, ForgetTasks
  <2>2. SubEpics(e)' = SubEpics(e)
    BY <1>3 DEF SubEpics
  <2>3. \A x \in TasksOf(e) : tstatus[x] # "archived" => x \in TasksOf(e)' /\ tstatus'[x] = tstatus[x]
    BY <1>1, <1>5, <2>1 DEF TasksOf
  <2>4. \A x \in TasksOf(e)' : x \in TasksOf(e) /\ tstatus'[x] = tstatus[x]
    BY <1>5, <2>1 DEF TasksOf
  <2>5. InStep(e)' <=> InStep(e)
    BY <1>3, <2>2, <2>3, <2>4, InStepKept
  <2>6. e \in epics \ excused /\ ~ Answers(c, e)
    BY <1>3, <1>4, <1>7
  <2> QED
    BY <1>3, <2>5, <2>6, KeptAccounted
<1>8. MoveTells(c)' /\ Sound(tasks', home', todo'[c], about'[c]) /\ Manual \subseteq epics'
  BY <1>3, <1>4, NoCalls DEF MoveTells, Mover, Next1, Busy, CalmInv
<1>9. \A d \in Calls \ {c} : /\ about'[d] = about[d] /\ about'[c] \cap about[d] = {} /\ Leaves(about[d])
                             /\ Mover(d) => parent'[Arg(d).epic] = parent[Arg(d).epic]
  BY <1>3, <1>4, <1>6
<1> QED
  BY <1>4, <1>7, <1>8, <1>9, CalmStep DEF Base

(* A status set by hand excuses its epic, and its parent is recalculated.  *)
LEMMA BeginPlacement ==
    ASSUME Base, Typed, CalmInv, overlap' = {}, NEW c \in Calls, NEW e \in epics, NEW s \in Statuses,
           SetEpicStatus(c, e, s)
    PROVE  CalmInv'
<1> DEFINE a == Recalc(parent[e])
<1>1. /\ estatus' = [estatus EXCEPT ![e] = s] /\ excused' = excused \cup {e} /\ Start(c, {}, <<a>>)
      /\ UNCHANGED <<epics, parent, board>> /\ {} \in SUBSET Tasks
  BY DEF SetEpicStatus
<1>2. Started(c, {}, <<a>>)
  BY <1>1, StartsCalm DEF Base
<1>3. /\ a \in CallSet /\ a.call = "recalc" /\ a.epic = parent[e] /\ Told({a}) = {parent[e]}
      /\ CallOK(tasks, home, a, {}, {})
  BY CallsFormed, CallFields, RecalcSound DEF Plain, Base, TreeOK, Ends
<1> HIDE DEF a
<1>4. /\ <<a>> # << >> /\ Head(<<a>>) = a /\ Sound(tasks, home, <<a>>, {}) /\ Tells(parent, <<a>>)
      /\ Has(<<a>>) = {a}
  BY <1>3, OneSound DEF Tells
<1>5. epics' = epics /\ parent' = parent /\ tasks' = tasks /\ home' = home /\ tstatus' = tstatus
  BY <1>1 DEF board
<1>6. /\ todo'[c] = <<a>> /\ OthersStay(c) /\ about'[c] = {}
      /\ \A d \in Calls \ {c} : about'[d] = about[d]
      /\ \A x : ~ Answers(c, x)
  BY <1>2, <1>4 DEF Started
<1>7. MoveTells(c)'
  BY <1>4, <1>5, <1>6, TellsMoves
<1>8. ASSUME NEW d \in epics' \ excused' PROVE Accounted(c, d)
  <2>1. d \in epics \ excused /\ d # e /\ e \in Epics /\ d \in Epics
    BY <1>1, <1>5, <1>8 DEF Base, TreeOK
  <2>2. CASE d = parent[e]
    <3>1. Claims(tasks', home', todo'[c]) = {parent[e]}
      BY <1>3, <1>4, <1>5, <1>6 DEF Claims
    <3>2. d \in Below(epics, parent, d)
      BY <2>1, BelowInherits
    <3> QED
      BY <1>5, <2>2, <3>1, <3>2 DEF Accounted, Answered
  <2>3. CASE d # parent[e]
    <3>1. TasksOf(d)' = TasksOf(d) /\ SubEpics(d)' = SubEpics(d) /\ e \notin SubEpics(d)
      BY <1>5, <2>3 DEF TasksOf, SubEpics
    <3>2. estatus'[d] = estatus[d] /\ \A x \in SubEpics(d) : estatus'[x] = estatus[x]
      BY <1>1, <2>1, <3>1 DEF SubEpics, Base, TreeOK, Typed
    <3>3. InStep(d)' <=> InStep(d)
      BY <1>5, <3>1, <3>2, InStepKept
    <3>4. d \in epics \ excused /\ ~ Answers(c, d)
      BY <1>6, <2>1
    <3> QED
      BY <1>5, <3>3, <3>4, KeptAccounted
  <2> QED
    BY <2>2, <2>3
<1>9. \A ds : Leaves(ds)
  BY <1>5 DEF Leaves
<1>10. Manual \subseteq epics' /\ Sound(tasks', home', todo'[c], about'[c])
  BY <1>4, <1>5, <1>6 DEF CalmInv
<1>11. \A d \in Calls \ {c} : /\ about'[d] = about[d] /\ about'[c] \cap about[d] = {} /\ Leaves(about[d])
                              /\ Mover(d) => parent'[Arg(d).epic] = parent[Arg(d).epic]
  BY <1>5, <1>6, <1>9
<1> QED
  BY <1>6, <1>7, <1>8, <1>10, <1>11, CalmStep DEF Base

(* So beginnings keep what is owed.                                        *)
LEMMA BeginKeepsCalm ==
    ASSUME Base, Typed, CalmInv, overlap' = {}, NEW c \in Calls, Begin(c)
    PROVE  CalmInv'
BY BeginStatus, BeginDelete, BeginPlacement, BeginQuietly, BeginMove, BeginFlag, BeginRegroup,
   BeginFlatten DEF Begin

-----------------------------------------------------------------------------
(* Handlers that go on.                                                    *)

(* The claims of a program that cannot fail are what it tells.             *)
LEMMA LaterClaims ==
    ASSUME NEW q \in Seq(CallSet), \A b \in Has(q) : Later(b)
    PROVE  /\ \A T, H : Claims(T, H, q) = Told(Has(q))
           /\ q # << >> => Head(q).call \notin {"check", "link"}
<1>1. CASE q = << >>
  BY <1>1, NoCalls DEF Claims
<1>2. CASE q # << >>
  <2>1. Later(Head(q))
    BY <1>2, FirstAndRest
  <2> QED
    BY <1>2, <2>1 DEF Claims, Later
<1> QED
  BY <1>1, <1>2

(* A handler's next call and the rest of its program.                      *)
LEMMA Going ==
    ASSUME HandlersOK, CalmInv, NEW c \in Calls, Busy(c)
    PROVE  LET p == Tail(todo[c]) IN
           /\ Arg(c) \in CallSet /\ p \in Seq(CallSet)
           /\ CallOK(tasks, home, Arg(c), Has(p), about[c])
           /\ Sound(tasks, home, p, about[c])
           /\ Has(todo[c]) = {Arg(c)} \cup Has(p)
           /\ \A b \in Has(p) : Later(b)
<1> DEFINE p == Tail(todo[c])
<1>1. todo[c] \in Seq(CallSet) /\ todo[c] # << >> /\ Arg(c) = Head(todo[c])
  BY DEF HandlersOK, Programs, Busy, Arg
<1>2. Arg(c) \in CallSet /\ p \in Seq(CallSet)
  BY <1>1, HeadTailProperties
<1>3. Sound(tasks, home, todo[c], about[c])
  BY DEF CalmInv
<1>4. /\ CallOK(tasks, home, Arg(c), Has(p), about[c]) /\ Sound(tasks, home, p, about[c])
      /\ Has(todo[c]) = {Arg(c)} \cup Has(p)
  BY <1>1, <1>3, FirstAndRest
<1>5. \A b \in Has(p) : Later(b)
  BY <1>4 DEF CallOK
<1> QED
  BY <1>2, <1>4, <1>5

(* What a handler answers for, by its next call.                           *)
LEMMA NowClaims ==
    ASSUME HandlersOK, CalmInv, NEW c \in Calls, Busy(c)
    PROVE  Claims(tasks, home, todo[c]) =
             CASE Arg(c).call \in {"check", "link"} -> {}
               [] Arg(c).call \in {"insert", "drop"} -> {Arg(c).epic}
               [] Arg(c).call = "set" /\ Arg(c).epic \notin Manual -> {Arg(c).epic}
               [] Arg(c).call = "find" -> {home[t] : t \in tasks \cap {Arg(c).task}}
               [] OTHER -> (IF Arg(c).call \in {"recalc", "cleanup"} THEN {Arg(c).epic} ELSE {})
                             \cup Told(Has(Tail(todo[c])))
<1>1. todo[c] # << >> /\ Head(todo[c]) = Arg(c)
  BY DEF Busy, Arg
<1>2. Has(todo[c]) = {Arg(c)} \cup Has(Tail(todo[c]))
  BY Going
<1>3. Told(Has(todo[c])) = (IF Arg(c).call \in {"recalc", "cleanup"} THEN {Arg(c).epic} ELSE {})
                             \cup Told(Has(Tail(todo[c])))
  BY <1>2, ToldMore
<1> QED
  BY <1>1, <1>3 DEF Claims

(* A handler that goes on concerns no new task.                            *)
LEMMA LeftCalm ==
    ASSUME HandlersOK, Typed, CalmInv, NEW c \in Calls, NEW q, Left(c, q),
           \A d \in Calls \ {c} :
             /\ Leaves(about[d])
             /\ Mover(d) => parent'[Arg(d).epic] = parent[Arg(d).epic],
           Sound(tasks', home', q, about[c]), Tells(parent', q), Manual \subseteq epics',
           \A e \in epics' \ excused' : Accounted(c, e)
    PROVE  CalmInv'
<1>1. /\ todo' = [todo EXCEPT ![c] = q]
      /\ about' = [about EXCEPT ![c] = IF q = << >> THEN {} ELSE @]
  BY DEF Left
<1>2. /\ todo'[c] = q /\ OthersStay(c) /\ about'[c] = (IF q = << >> THEN {} ELSE about[c])
      /\ \A d \in Calls \ {c} : about'[d] = about[d]
  BY <1>1 DEF HandlersOK, OthersStay, Typed, HandlersTyped
<1>3. \A d \in Calls \ {c} : about'[c] \cap about[d] = {}
  BY <1>2 DEF CalmInv
<1>4. Sound(tasks', home', todo'[c], about'[c]) /\ MoveTells(c)'
  BY <1>2, NoCalls, TellsMoves
<1> QED
  BY <1>2, <1>3, <1>4, CalmStep

(* An answer that touches no row answers for what the call did.            *)
LEMMA QuietCalm ==
    ASSUME HandlersOK, Typed, CalmInv, NEW c \in Calls, NEW q, Left(c, q),
           UNCHANGED Rows, excused' = excused,
           Sound(tasks, home, q, about[c]), Tells(parent, q),
           \A e : \A x \in Claims(tasks, home, todo[c]) :
             x \in Below(epics, parent, e) => Answered(epics, parent, Claims(tasks, home, q), e)
    PROVE  CalmInv'
<1>1. /\ epics' = epics /\ parent' = parent /\ estatus' = estatus /\ tasks' = tasks /\ home' = home
      /\ tstatus' = tstatus
  BY DEF Rows
<1>2. ASSUME NEW e \in epics' \ excused' PROVE Accounted(c, e)
  <2>1. InStep(e)' <=> InStep(e)
    BY <1>1 DEF InStep, ActiveChildren, TasksOf, SubEpics
  <2>2. todo'[c] = q
    BY DEF Left, HandlersOK
  <2>3. CASE Answers(c, e)
    <3>1. Answered(epics, parent, Claims(tasks, home, q), e)
      BY <2>3 DEF Answers, Answered
    <3> QED
      BY <1>1, <2>2, <3>1 DEF Accounted
  <2>4. CASE ~ Answers(c, e)
    BY <1>1, <1>2, <2>1, <2>4, KeptAccounted
  <2> QED
    BY <2>3, <2>4
<1>3. \A d \in Calls \ {c} : /\ Leaves(about[d])
                             /\ Mover(d) => parent'[Arg(d).epic] = parent[Arg(d).epic]
  BY <1>1 DEF Leaves
<1>4. Sound(tasks', home', q, about[c]) /\ Tells(parent', q) /\ Manual \subseteq epics'
  BY <1>1 DEF CalmInv
<1> QED
  BY <1>2, <1>3, <1>4, LeftCalm

(* One call more before calls that cannot fail.                            *)
LEMMA ThenOne ==
    ASSUME NEW a \in CallSet, NEW p \in Seq(CallSet)
    PROVE  LET q == <<a>> \o p IN
           /\ q \in Seq(CallSet) /\ q # << >> /\ Head(q) = a /\ Tail(q) = p /\ Has(q) = {a} \cup Has(p)
           /\ \A T, H, ts : CallOK(T, H, a, Has(p), ts) /\ Sound(T, H, p, ts) => Sound(T, H, q, ts)
BY OneMoreCall

(* What it then tells, ...                                                 *)
LEMMA ThenTold ==
    ASSUME NEW a \in CallSet, NEW p \in Seq(CallSet)
    PROVE  Told(Has(<<a>> \o p))
             = (IF a.call \in {"recalc", "cleanup"} THEN {a.epic} ELSE {}) \cup Told(Has(p))
<1>1. Has(<<a>> \o p) = {a} \cup Has(p)
  BY OneMoreCall
<1> QED
  BY <1>1, ToldMore

(* ... and claims.                                                         *)
LEMMA ThenClaims ==
    ASSUME NEW a \in CallSet, NEW p \in Seq(CallSet), \A b \in Has(p) : Later(b), Later(a), NEW T, NEW H
    PROVE  Claims(T, H, <<a>> \o p) = Told(Has(<<a>> \o p))
<1> DEFINE q == <<a>> \o p
<1>1. q \in Seq(CallSet) /\ Has(q) = {a} \cup Has(p)
  BY OneMoreCall
<1> HIDE DEF q
<1>2. \A b \in Has(q) : Later(b)
  BY <1>1
<1>3. Claims(T, H, q) = Told(Has(q))
  BY <1>1, <1>2, LaterClaims
<1> QED
  BY <1>3 DEF q

(* A step of the cycle check.                                              *)
LEMMA CheckCalm ==
    ASSUME Base, Typed, CalmInv, NEW c \in Calls, CheckStep(c)
    PROVE  CalmInv'
<1> DEFINE a == Arg(c)
           p == Tail(todo[c])
           b1 == Link(a.epic, a.to)
           b2 == Check(a.epic, a.to, parent[a.task])
<1>0. HandlersOK /\ Busy(c) /\ Next1(c, "check") /\ Mover(c)
  BY DEF Base, CheckStep, Next1, Mover
<1>1. /\ a.call = "check" /\ a \in CallSet /\ p \in Seq(CallSet) /\ CallOK(tasks, home, a, Has(p), about[c])
      /\ Sound(tasks, home, p, about[c]) /\ \A b \in Has(p) : Later(b)
  BY <1>0, Going, Current
<1>2. UNCHANGED Rows /\ excused' = excused
  BY DEF CheckStep, tree, board, history, Rows
<1>3. Claims(tasks, home, todo[c]) = {}
  BY <1>0, <1>1, NowClaims
<1>4. parent[a.epic] \in Told(Has(p)) \cup {None} /\ a.to \in Told(Has(p)) \cup {None}
  BY <1>0 DEF CalmInv, MoveTells
<1>5. a.epic \in Manual /\ a.to \in Epics /\ a.to \in Ends
  BY <1>1 DEF CallSet, FormOK, Ends
<1>6. CASE Fail(c)
  <2>1. Left(c, << >>) /\ Sound(tasks, home, << >>, about[c]) /\ Tells(parent, << >>)
    BY <1>6, NoCalls DEF Fail, Tells
  <2> QED
    BY <1>0, <1>2, <1>3, <2>1, QuietCalm
<1>7. CASE Then(c, <<b1>>)
  <2>1. b1 \in CallSet /\ b1.call = "link" /\ b1.epic = a.epic /\ b1.to = a.to
    BY <1>5, CallsFormed, CallFields
  <2> DEFINE q == <<b1>> \o p
  <2>2. Left(c, q)
    BY <1>7 DEF Then
  <2> HIDE DEF b1
  <2>3. CallOK(tasks, home, b1, Has(p), about[c])
    BY <1>1, <2>1 DEF CallOK, AboutOne, Writers, Alone, Placing
  <2>4. Sound(tasks, home, q, about[c]) /\ Head(q) = b1 /\ Tail(q) = p
    BY <1>1, <2>1, <2>3, ThenOne
  <2>5. Tells(parent, q)
    BY <1>4, <2>1, <2>4 DEF Tells
  <2> HIDE DEF q, p
  <2> QED
    BY <1>0, <1>2, <1>3, <2>2, <2>4, <2>5, QuietCalm
<1>8. CASE a.task \in epics /\ Then(c, <<b2>>)
  <2>1. parent[a.task] \in Ends
    BY <1>8 DEF Base, TreeOK
  <2>2. b2 \in CallSet /\ b2.call = "check" /\ b2.epic = a.epic /\ b2.to = a.to
    BY <1>5, <2>1, CallsFormed, CallFields
  <2> DEFINE q == <<b2>> \o p
  <2>3. Left(c, q)
    BY <1>8 DEF Then
  <2> HIDE DEF b2
  <2>4. CallOK(tasks, home, b2, Has(p), about[c])
    BY <1>1, <2>2 DEF CallOK, AboutOne, Writers, Alone, Placing
  <2>5. Sound(tasks, home, q, about[c]) /\ Head(q) = b2 /\ Tail(q) = p
    BY <1>1, <2>2, <2>4, ThenOne
  <2>6. Tells(parent, q)
    BY <1>4, <2>2, <2>5 DEF Tells
  <2> HIDE DEF q, p
  <2> QED
    BY <1>0, <1>2, <1>3, <2>3, <2>5, <2>6, QuietCalm
<1> QED
  BY <1>6, <1>7, <1>8 DEF CheckStep

(* The read of the task's epic before a recalculation.                     *)
LEMMA FindCalm ==
    ASSUME Base, Typed, CalmInv, NEW c \in Calls, FindEpic(c)
    PROVE  CalmInv'
<1> DEFINE a == Arg(c)
           p == Tail(todo[c])
           b == Recalc(home[a.task])
<1>0. HandlersOK /\ Busy(c) /\ Next1(c, "find")
  BY DEF Base, FindEpic, Next1
<1>1. /\ a.call = "find" /\ a \in CallSet /\ p \in Seq(CallSet) /\ CallOK(tasks, home, a, Has(p), about[c])
      /\ Sound(tasks, home, p, about[c]) /\ \A x \in Has(p) : Later(x)
  BY <1>0, Going, Current
<1>2. UNCHANGED Rows /\ excused' = excused
  BY DEF FindEpic, tree, board, history, Rows
<1>3. Claims(tasks, home, todo[c]) = {home[t] : t \in tasks \cap {a.task}}
  BY <1>0, <1>1, NowClaims
<1>4. CASE a.task \in tasks
  <2>1. b \in CallSet /\ b.call = "recalc" /\ b.epic = home[a.task] /\ Later(b)
    <3>1. home[a.task] \in Ends
      BY <1>4 DEF Base, BoardOK
    <3> QED
      BY <3>1, CallsFormed, CallFields, RecalcSound DEF Plain
  <2>2. CallOK(tasks, home, b, Has(p), about[c])
    BY <1>1, RecalcSound
  <2> DEFINE q == <<b>> \o p
  <2>3. Left(c, q)
    <3>1. Then(c, <<b>>)
      BY <1>4 DEF FindEpic
    <3> QED
      BY <3>1 DEF Then
  <2> HIDE DEF b
  <2>4. /\ Sound(tasks, home, q, about[c]) /\ Head(q) = b
        /\ Claims(tasks, home, q) = Told(Has(q)) /\ home[a.task] \in Told(Has(q))
    <3>1. Sound(tasks, home, q, about[c]) /\ Head(q) = b
      BY <1>1, <2>1, <2>2, ThenOne
    <3>2. Told(Has(q)) = {home[a.task]} \cup Told(Has(p))
      BY <1>1, <2>1, ThenTold
    <3>3. Claims(tasks, home, q) = Told(Has(q))
      BY <1>1, <2>1, ThenClaims
    <3> QED
      BY <3>1, <3>2, <3>3
  <2>5. Tells(parent, q)
    BY <2>1, <2>4 DEF Tells
  <2> HIDE DEF q, p
  <2>6. \A x \in Claims(tasks, home, todo[c]) : x \in Claims(tasks, home, q)
    BY <1>3, <2>4
  <2> QED
    BY <1>0, <1>2, <2>3, <2>4, <2>5, <2>6, QuietCalm DEF Answered
<1>5. CASE a.task \notin tasks
  <2>1. Then(c, << >>)
    BY <1>5 DEF FindEpic
  <2>2. Left(c, p)
    BY <1>1, <2>1, ConcatEmptySeq DEF Then
  <2>3. Tells(parent, p)
    BY <1>1, LaterClaims DEF Tells
  <2>4. Claims(tasks, home, todo[c]) = {}
    BY <1>3, <1>5
  <2> HIDE DEF p
  <2> QED
    BY <1>0, <1>1, <1>2, <2>2, <2>3, <2>4, QuietCalm
<1> QED
  BY <1>4, <1>5

(* The decision whether a task must be routed again.                       *)
LEMMA RerouteCalm ==
    ASSUME Base, Typed, CalmInv, NEW c \in Calls, RerouteTask(c)
    PROVE  CalmInv'
<1> DEFINE a == Arg(c)
           p == Tail(todo[c])
           t == a.task
           root == IF t \in tasks /\ home[t] \in epics THEN RootOf(home[t]) ELSE None
           b == Place("reroot", t, root, a.repo, home[t])
<1>0. HandlersOK /\ Busy(c) /\ Next1(c, "reroute")
  BY DEF Base, RerouteTask, Next1
<1>1. /\ a.call = "reroute" /\ a \in CallSet /\ p \in Seq(CallSet) /\ CallOK(tasks, home, a, Has(p), about[c])
      /\ Sound(tasks, home, p, about[c]) /\ \A x \in Has(p) : Later(x)
  BY <1>0, Going, Current
<1>2. Has(p) = {} /\ t \in tasks /\ t \in about[c] /\ a.repo \in Repos
  BY <1>1 DEF CallOK, Alone, AboutOne, Writers, CallSet, FormOK
<1>3. UNCHANGED Rows /\ excused' = excused
  BY DEF RerouteTask, tree, board, history, Rows
<1>4. Claims(tasks, home, todo[c]) = {}
  BY <1>0, <1>1, <1>2, NowClaims, NoCalls
<1>5. Then(c, IF root = None THEN << >> ELSE <<b>>)
  BY DEF RerouteTask
<1>6. CASE root = None
  <2>1. Left(c, p)
    BY <1>1, <1>5, <1>6, ConcatEmptySeq DEF Then
  <2>2. Tells(parent, p)
    BY <1>1, LaterClaims DEF Tells
  <2> HIDE DEF p
  <2> QED
    BY <1>0, <1>1, <1>3, <1>4, <2>1, <2>2, QuietCalm
<1>7. CASE root # None
  <2>1. home[t] \in Ends /\ root \in Ends /\ t \in Tasks
        /\ (home[t] = root \/ (home[t] \in Groups /\ home[t][1] = root))
    BY <1>2, <1>7, TreeAssumption DEF RootOf, Base, BoardOK, TreeOK, Ends, Epics
  <2> HIDE DEF root
  <2>2. b \in CallSet /\ b.call = "reroot" /\ b.task = t /\ b.epic = root /\ b.to = home[t]
    BY <1>2, <2>1, CallsFormed, CallFields DEF Placing, Plain
  <2> HIDE DEF b
  <2>3. CallOK(tasks, home, b, Has(p), about[c])
    BY <1>2, <2>1, <2>2 DEF CallOK, AboutOne, Writers, Alone
  <2> DEFINE q == <<b>> \o p
  <2>4. Left(c, q)
    BY <1>5, <1>7 DEF Then
  <2>5. Sound(tasks, home, q, about[c]) /\ Head(q) = b
    BY <1>1, <2>2, <2>3, ThenOne
  <2>6. Tells(parent, q)
    BY <2>2, <2>5 DEF Tells
  <2> HIDE DEF q, p
  <2> QED
    BY <1>0, <1>3, <1>4, <2>4, <2>5, <2>6, QuietCalm
<1> QED
  BY <1>6, <1>7

(* The emptiness read of a group's cleanup.                                *)
LEMMA CleanupCalm ==
    ASSUME Base, Typed, CalmInv, NEW c \in Calls, CleanupGroup(c)
    PROVE  CalmInv'
<1> DEFINE a == Arg(c)
           p == Tail(todo[c])
           g == a.epic
<1>0. HandlersOK /\ Busy(c) /\ Next1(c, "cleanup")
  BY DEF Base, CleanupGroup, Next1
<1>1. /\ a.call = "cleanup" /\ a \in CallSet /\ p \in Seq(CallSet) /\ CallOK(tasks, home, a, Has(p), about[c])
      /\ Sound(tasks, home, p, about[c]) /\ \A x \in Has(p) : Later(x)
  BY <1>0, Going, Current
<1>2. g \in Groups /\ Told(Has(p)) = {g[1]} /\ g \in Ends
  BY <1>1 DEF CallOK, Ends, Epics
<1>3. UNCHANGED Rows /\ excused' = excused
  BY DEF CleanupGroup, tree, board, history, Rows
<1>4. Claims(tasks, home, todo[c]) = {g, g[1]}
  <2>1. Claims(tasks, home, todo[c]) = {g} \cup Told(Has(p))
    BY <1>0, <1>1, NowClaims
  <2> QED
    BY <1>2, <2>1
<1>5. CASE g \notin epics /\ Then(c, << >>)
  <2>1. Left(c, p)
    BY <1>1, <1>5, ConcatEmptySeq DEF Then
  <2>2. Tells(parent, p) /\ Claims(tasks, home, p) = {g[1]}
    BY <1>1, <1>2, LaterClaims DEF Tells
  <2>3. \A e : g \notin Below(epics, parent, e)
    BY <1>5, BelowInherits
  <2> HIDE DEF p, g
  <2> QED
    BY <1>0, <1>1, <1>3, <1>4, <2>1, <2>2, <2>3, QuietCalm DEF Answered
<1>6. CASE Then(c, <<Recalc(g)>>)
  <2> DEFINE b == Recalc(g)
             q == <<b>> \o p
  <2>1. b \in CallSet /\ b.call = "recalc" /\ b.epic = g /\ Later(b)
        /\ CallOK(tasks, home, b, Has(p), about[c])
    BY <1>1, <1>2, CallsFormed, CallFields, RecalcSound DEF Plain
  <2>2. Left(c, q)
    BY <1>6 DEF Then
  <2> HIDE DEF b
  <2>3. /\ Sound(tasks, home, q, about[c]) /\ Head(q) = b
        /\ Claims(tasks, home, q) = {g} \cup {g[1]}
    <3>1. Sound(tasks, home, q, about[c]) /\ Head(q) = b
      BY <1>1, <2>1, ThenOne
    <3>2. Told(Has(q)) = {g} \cup {g[1]}
      BY <1>1, <1>2, <2>1, ThenTold
    <3>3. Claims(tasks, home, q) = Told(Has(q))
      BY <1>1, <2>1, ThenClaims
    <3> QED
      BY <3>1, <3>2, <3>3
  <2>4. Tells(parent, q)
    BY <2>1, <2>3 DEF Tells
  <2> HIDE DEF q, p, g
  <2> QED
    BY <1>0, <1>3, <1>4, <2>2, <2>3, <2>4, QuietCalm DEF Answered
<1>7. CASE g \in epics /\ Then(c, <<Drop(g)>>)
  <2> DEFINE b == Drop(g)
             q == <<b>> \o p
  <2>1. b \in CallSet /\ b.call = "drop" /\ b.epic = g
    BY <1>2, CallsFormed, CallFields
  <2>2. Left(c, q)
    BY <1>7 DEF Then
  <2> HIDE DEF b
  <2>3. CallOK(tasks, home, b, Has(p), about[c])
    BY <1>1, <1>2, <2>1 DEF CallOK, AboutOne, Writers, Alone, Placing
  <2>4. Sound(tasks, home, q, about[c]) /\ Head(q) = b /\ q # << >>
    BY <1>1, <2>1, <2>3, ThenOne
  <2>5. Tells(parent, q) /\ Claims(tasks, home, q) = {g}
    BY <2>1, <2>4 DEF Tells, Claims
  <2>6. \A e : g[1] \in Below(epics, parent, e) => g \in Below(epics, parent, e)
    <3>1. parent[g] = g[1]
      BY <1>2, <1>7 DEF Base, TreeOK
    <3> QED
      BY <1>7, <3>1, BelowInherits DEF Inherits
  <2> HIDE DEF q, p, g
  <2> QED
    BY <1>0, <1>3, <1>4, <2>2, <2>4, <2>5, <2>6, QuietCalm DEF Answered
<1> QED
  BY <1>2, <1>5, <1>6, <1>7 DEF CleanupGroup

(* The reads of a flattening: every task of the group goes to the root.    *)
LEMMA DrainCalm ==
    ASSUME Base, Typed, CalmInv, NEW c \in Calls, DrainGroup(c)
    PROVE  CalmInv'
<1> DEFINE a == Arg(c)
           p == Tail(todo[c])
           g == a.epic
           f == [t \in Tasks |-> Set(t, g[1])]
           s == [i \in 1..Cardinality(TasksOf(g)) |-> f[SetOf(TasksOf(g))[i]]]
           b == Cleanup(g)
           r == <<b>> \o p
           q == s \o r
<1>0. HandlersOK /\ Busy(c) /\ Next1(c, "drain")
  BY DEF Base, DrainGroup, Next1
<1>1. /\ a.call = "drain" /\ a \in CallSet /\ p \in Seq(CallSet) /\ CallOK(tasks, home, a, Has(p), about[c])
      /\ Sound(tasks, home, p, about[c]) /\ \A x \in Has(p) : Later(x)
  BY <1>0, Going, Current
<1>2. /\ g \in Groups /\ Told(Has(p)) = {g[1]} /\ g \in Ends /\ about[c] = Tasks
      /\ \A x \in Has(p) : x.call \notin Writers
  BY <1>1 DEF CallOK, Ends, Epics
<1>3. UNCHANGED Rows /\ excused' = excused
  BY DEF DrainGroup, tree, board, history, Rows
<1>4. Claims(tasks, home, todo[c]) = {g[1]}
  <2>1. Claims(tasks, home, todo[c]) = {} \cup Told(Has(p))
    BY <1>0, <1>1, NowClaims
  <2> QED
    BY <1>2, <2>1
<1>5. g[1] \in Manual /\ g[1] \in Ends /\ TasksOf(g) \subseteq Tasks /\ TasksOf(g) \subseteq tasks
  BY <1>2, TreeAssumption DEF Groups, Ends, Epics, TasksOf, Base, BoardOK
<1>6. IsFiniteSet(TasksOf(g))
  BY <1>5, FS_Subset, TreeAssumption
<1>7. /\ b \in CallSet /\ b.call = "cleanup" /\ b.epic = g
      /\ \A t \in TasksOf(g) : /\ f[t] \in CallSet /\ f[t].call = "set" /\ f[t].task = t /\ f[t].epic = g[1]
  BY <1>2, <1>5, CallsFormed, CallFields DEF Plain
<1>8. Lists(s, f, TasksOf(g))
  BY <1>6, <1>7, CallForEach
<1>9. Left(c, q)
  <2>1. Then(c, Each(TasksOf(g), LAMBDA t : Set(t, g[1])) \o <<Cleanup(g)>>)
    BY DEF DrainGroup
  <2>2. s = Each(TasksOf(g), LAMBDA t : Set(t, g[1]))
    <3>1. \A i \in 1..Cardinality(TasksOf(g)) : SetOf(TasksOf(g))[i] \in Tasks
      BY <1>5, <1>6, SetOfFinite
    <3> QED
      BY <3>1 DEF Each
  <2>3. Then(c, s \o <<b>>)
    BY <2>1, <2>2
  <2> HIDE DEF s, b
  <2>4. s \in Seq(CallSet) /\ <<b>> \in Seq(CallSet)
    BY <1>7, <1>8 DEF Lists
  <2>5. (s \o <<b>>) \o p = s \o (<<b>> \o p)
    <3> DEFINE u == <<b>>
    <3>1. u \in Seq(CallSet) /\ s \in Seq(CallSet) /\ p \in Seq(CallSet)
      BY <1>1, <2>4
    <3> HIDE DEF u, p
    <3>2. (s \o u) \o p = s \o (u \o p)
      BY <3>1, ConcatAssociative
    <3> QED
      BY <3>2 DEF u
  <2> QED
    BY <2>3, <2>5 DEF Then
<1> HIDE DEF s, f, b, p, g
<1>10. CallOK(tasks, home, b, Has(p), about[c]) /\ Later(b)
  BY <1>1, <1>2, <1>7 DEF CallOK, AboutOne, Writers, Alone, Placing, Later
<1>11. /\ r \in Seq(CallSet) /\ Sound(tasks, home, r, about[c]) /\ Has(r) = {b} \cup Has(p)
  BY <1>1, <1>7, <1>10, ThenOne
<1>12. Told(Has(r)) = {g} \cup {g[1]}
  BY <1>1, <1>2, <1>7, ThenTold
<1> HIDE DEF r
<1>13. ASSUME NEW t \in TasksOf(g), NEW R \in SUBSET {f[y] : y \in TasksOf(g) \ {t}}
       PROVE  CallOK(tasks, home, f[t], R \cup Has(r), about[c])
  <2>1. \A x \in R : x.call = "set" /\ x.epic = g[1] /\ x.task # t
    BY <1>7, <1>13
  <2>2. \A x \in R \cup Has(r) : Later(x) /\ (x.call \in Writers => x.task # t)
    BY <1>1, <1>2, <1>5, <1>7, <1>10, <1>11, <2>1 DEF Later, Writers
  <2>3. g \in Told(R \cup Has(r)) /\ g[1] \in Told(R \cup Has(r))
    BY <1>12 DEF Told
  <2>4. home[t] = g /\ t \in tasks /\ t \in about[c]
    BY <1>2, <1>5 DEF TasksOf
  <2> QED
    BY <1>7, <2>2, <2>3, <2>4 DEF CallOK, AboutOne, Writers, Alone, Placing
<1>14. Sound(tasks, home, q, about[c]) /\ q \in Seq(CallSet) /\ Has(q) = Has(s) \cup Has(r)
  <2>1. s \in Seq(CallSet) /\ \A i \in 1..Len(s) : CallOK(tasks, home, s[i], After(s, i) \cup Has(r), about[c])
    BY <1>8, <1>13 DEF Lists
  <2> QED
    BY <1>11, <2>1, JoinedCalls
<1>15. \A x \in Has(q) : Later(x)
  <2>1. Has(s) = {f[t] : t \in TasksOf(g)}
    BY <1>8 DEF Lists
  <2> QED
    BY <1>1, <1>5, <1>7, <1>10, <1>11, <1>14, <2>1 DEF Later
<1> HIDE DEF q
<1>16. Claims(tasks, home, q) = Told(Has(q)) /\ Tells(parent, q)
  BY <1>14, <1>15, LaterClaims DEF Tells
<1>17. g[1] \in Claims(tasks, home, q)
  BY <1>12, <1>14, <1>16 DEF Told
<1> QED
  BY <1>0, <1>3, <1>4, <1>9, <1>14, <1>16, <1>17, QuietCalm DEF Answered

(* A recalculation: the epics it saw are in step, the others hear of it no *)
(* more than before.                                                       *)
LEMMA RecalcCalm ==
    ASSUME Base, Typed, CalmInv, Forest(epics, parent), NEW c \in Calls, RecalcEpic(c)
    PROVE  CalmInv'
<1> DEFINE a == Arg(c)
           p == Tail(todo[c])
           w == Walk(a.epic)
<1>0. HandlersOK /\ Busy(c) /\ Next1(c, "recalc")
  BY DEF Base, RecalcEpic, Next1
<1>1. /\ a.call = "recalc" /\ a \in CallSet /\ p \in Seq(CallSet) /\ CallOK(tasks, home, a, Has(p), about[c])
      /\ Sound(tasks, home, p, about[c]) /\ \A x \in Has(p) : Later(x)
  BY <1>0, Going, Current
<1>2. Claims(tasks, home, todo[c]) = {a.epic} \cup Told(Has(p))
  BY <1>0, <1>1, NowClaims
<1>3. /\ epics' = epics /\ parent' = parent /\ tasks' = tasks /\ home' = home /\ tstatus' = tstatus
      /\ estatus' = w.s /\ excused' = excused \ w.seen
  BY DEF RecalcEpic, board
<1>4. /\ w.s \in [Epics -> Statuses] /\ w.seen = {e \in epics : a.epic \in Below(epics, parent, e)}
      /\ \A e \in Epics \ w.seen : w.s[e] = estatus[e]
      /\ \A e \in w.seen : Agrees(e, w.s)
  <2>1. IsFiniteSet(epics)
    BY FS_Subset, TreeAssumption DEF Base, TreeOK
  <2> QED
    BY <2>1, WalkClimbs DEF Base, Typed
<1> HIDE DEF w
<1>5. Left(c, p) /\ todo'[c] = p
  <2>1. Then(c, << >>)
    BY DEF RecalcEpic
  <2>2. Left(c, p)
    BY <1>1, <2>1, ConcatEmptySeq DEF Then
  <2> QED
    BY <1>0, <2>2 DEF Left, HandlersOK
<1>6. Claims(tasks, home, p) = Told(Has(p)) /\ Tells(parent, p)
  BY <1>1, LaterClaims DEF Tells
<1>7. ASSUME NEW e \in epics' \ excused' PROVE Accounted(c, e)
  <2>1. CASE e \in w.seen
    <3>1. Agrees(e, w.s)
      BY <1>4, <2>1
    <3>2. InStep(e)'
      BY <1>3, <3>1 DEF Agrees, InStep, ActiveChildren, TasksOf, SubEpics
    <3> QED
      BY <3>2 DEF Accounted
  <2>2. CASE e \notin w.seen
    <3>1. e \in epics \ excused /\ e \in Epics /\ a.epic \notin Below(epics, parent, e)
      BY <1>3, <1>4, <1>7, <2>2 DEF Base, TreeOK
    <3>2. \A g \in SubEpics(e) : g \notin w.seen /\ g \in Epics
      <4>1. \A g \in SubEpics(e) : g \in epics /\ parent[g] = e /\ g \in Below(epics, parent, e)
        BY <3>1, BelowInherits DEF SubEpics, Inherits
      <4>2. \A g \in SubEpics(e) : a.epic \notin Below(epics, parent, g)
        BY <3>1, <4>1, BelowWithin
      <4> QED
        BY <1>4, <4>1, <4>2 DEF Base, TreeOK
    <3>3. estatus'[e] = estatus[e] /\ \A g \in SubEpics(e) : estatus'[g] = estatus[g]
      BY <1>3, <1>4, <2>2, <3>1, <3>2
    <3>4. SubEpics(e)' = SubEpics(e) /\ TasksOf(e)' = TasksOf(e)
      BY <1>3 DEF SubEpics, TasksOf
    <3>5. InStep(e)' <=> InStep(e)
      BY <1>3, <3>3, <3>4, InStepKept
    <3>6. CASE Answers(c, e)
      <4>1. PICK x \in Claims(tasks, home, todo[c]) : x \in Below(epics, parent, e)
        BY <3>6 DEF Answers, Answered
      <4>2. x \in Claims(tasks, home, p)
        BY <1>2, <1>6, <3>1, <4>1
      <4> QED
        BY <1>3, <1>5, <4>1, <4>2 DEF Accounted, Answered
    <3>7. CASE ~ Answers(c, e)
      BY <1>3, <3>1, <3>5, <3>7, KeptAccounted
    <3> QED
      BY <3>6, <3>7
  <2> QED
    BY <2>1, <2>2
<1>8. \A d \in Calls \ {c} : /\ Leaves(about[d])
                             /\ Mover(d) => parent'[Arg(d).epic] = parent[Arg(d).epic]
  BY <1>3 DEF Leaves
<1>9. Sound(tasks', home', p, about[c]) /\ Tells(parent', p) /\ Manual \subseteq epics'
  BY <1>1, <1>3, <1>6 DEF CalmInv
<1> HIDE DEF p
<1> QED
  BY <1>0, <1>5, <1>7, <1>8, <1>9, LeftCalm

(* The write of a reparenting, the only one under way.                     *)
LEMMA LinkCalm ==
    ASSUME Base, Typed, CalmInv, NEW c \in Calls, \A d \in Calls \ {c} : ~ Mover(d), LinkEpic(c)
    PROVE  CalmInv'
<1> DEFINE a == Arg(c)
           p == Tail(todo[c])
           old == parent[a.epic]
<1>0. HandlersOK /\ Busy(c) /\ Next1(c, "link") /\ Mover(c)
  BY DEF Base, LinkEpic, Next1, Mover
<1>1. /\ a.call = "link" /\ a \in CallSet /\ p \in Seq(CallSet)
      /\ Sound(tasks, home, p, about[c]) /\ \A x \in Has(p) : Later(x)
  BY <1>0, Going, Current
<1>2. Claims(tasks, home, todo[c]) = {}
  BY <1>0, <1>1, NowClaims
<1>3. /\ epics' = epics /\ tasks' = tasks /\ home' = home /\ tstatus' = tstatus
      /\ estatus' = estatus /\ excused' = excused
  BY DEF LinkEpic, board
<1>4. \A d \in Calls \ {c} : /\ Leaves(about[d])
                             /\ Mover(d) => parent'[Arg(d).epic] = parent[Arg(d).epic]
  BY <1>3 DEF Leaves
<1>5. Manual \subseteq epics' /\ \A e : ~ Answers(c, e)
  BY <1>2, <1>3 DEF CalmInv, Answers, Answered
<1>6. CASE parent' = parent /\ Fail(c)
  <2>1. Left(c, << >>) /\ Sound(tasks', home', << >>, about[c]) /\ Tells(parent', << >>)
    BY <1>6, NoCalls DEF Fail, Tells
  <2>2. ASSUME NEW e \in epics' \ excused' PROVE Accounted(c, e)
    <3>1. InStep(e)' <=> InStep(e)
      BY <1>3, <1>6 DEF InStep, ActiveChildren, TasksOf, SubEpics
    <3> QED
      BY <1>3, <1>5, <1>6, <2>2, <3>1, KeptAccounted
  <2> QED
    BY <1>0, <1>4, <1>5, <2>1, <2>2, LeftCalm
<1>7. CASE /\ a.epic \in epics /\ a.to \in epics \cup {None}
           /\ parent' = [parent EXCEPT ![a.epic] = a.to] /\ Then(c, << >>)
  <2>1. Left(c, p) /\ todo'[c] = p
    <3>1. Left(c, p)
      BY <1>1, <1>7, ConcatEmptySeq DEF Then
    <3> QED
      BY <1>0, <3>1 DEF Left, HandlersOK
  <2>2. Claims(tasks, home, p) = Told(Has(p)) /\ Tells(parent', p) /\ Sound(tasks', home', p, about[c])
    BY <1>1, <1>3, LaterClaims DEF Tells
  <2>3. old \in Told(Has(p)) \cup {None} /\ a.to \in Told(Has(p)) \cup {None}
    BY <1>0 DEF CalmInv, MoveTells
  <2>4. parent'[a.epic] = a.to /\ \A d \in epics \ {a.epic} : parent'[d] = parent[d]
    BY <1>7 DEF Base, TreeOK
  <2> HIDE DEF p
  <2>5. ASSUME NEW e \in epics' \ excused' PROVE Accounted(c, e)
    <3> DEFINE now == Below(epics, parent', e)
    <3>1. e \in epics \ excused /\ e # None /\ ~ Answers(c, e) /\ e \in now
      BY <1>3, <1>5, <2>5, TreeAssumption, BelowInherits DEF Base, TreeOK
    <3>2. CASE \E x \in Told(Has(p)) : x \in now
      BY <1>3, <2>1, <2>2, <3>2 DEF Accounted, Answered
    <3>3. CASE \A x \in Told(Has(p)) : x \notin now
      <4>1. old \notin now /\ a.to \notin now
        <5>1. None \notin now
          BY BelowInherits, TreeAssumption DEF Base, TreeOK
        <5> HIDE DEF now, old
        <5> QED
          BY <2>3, <3>3, <5>1
      <4>2. old # e /\ a.to # e
        BY <3>1, <4>1
      <4>3. \A d \in epics : parent'[d] = e <=> parent[d] = e
        BY <2>4, <4>2
      <4>4. SubEpics(e)' = SubEpics(e) /\ TasksOf(e)' = TasksOf(e)
        BY <1>3, <4>3 DEF SubEpics, TasksOf
      <4>5. InStep(e)' <=> InStep(e)
        BY <1>3, <4>4, InStepKept
      <4>6. Below(epics, parent, e) \subseteq now
        <5>1. Inherits(epics, parent', now) /\ now \in SUBSET epics
          BY BelowInherits
        <5>2. Inherits(epics, parent, now)
          BY <2>4, <4>1, <5>1 DEF Inherits
        <5> HIDE DEF now
        <5> QED
          BY <3>1, <5>1, <5>2, BelowMember
      <4>7. CASE InStep(e)
        BY <4>5, <4>7 DEF Accounted
      <4>8. CASE ~ InStep(e)
        BY <1>3, <3>1, <4>6, <4>8 DEF Accounted
      <4> QED
        BY <4>7, <4>8
    <3> QED
      BY <3>2, <3>3
  <2> QED
    BY <1>0, <1>4, <1>5, <2>1, <2>2, <2>5, LeftCalm
<1> QED
  BY <1>6, <1>7 DEF LinkEpic

(* Calls that come later are sound as before when another task is put      *)
(* somewhere.                                                              *)
LEMMA PutSound ==
    ASSUME NEW T, NEW H, NEW U, NEW G, NEW t, NEW q \in Seq(CallSet), NEW ts, Sound(T, H, q, ts),
           \A b \in Has(q) : Later(b) /\ (b.call \in Writers => b.task # t),
           T \subseteq U, \A x \in T \ {t} : G[x] = H[x]
    PROVE  Sound(U, G, q, ts)
<1>1. ASSUME NEW i \in 1..Len(q)
      PROVE  CallOK(U, G, q[i], After(q, i), ts)
  <2>1. CallOK(T, H, q[i], After(q, i), ts) /\ q[i] \in Has(q)
    BY <1>1 DEF Sound, Has
  <2>2. Later(q[i]) /\ (q[i].call \in Writers => q[i].task # t)
    BY <2>1
  <2>3. q[i].call \in Writers => q[i].task \in T /\ G[q[i].task] = H[q[i].task]
    BY <2>1, <2>2 DEF CallOK
  <2>4. q[i].call \notin {"move", "reroot", "reroute", "create", "insert", "check", "link", "drop", "find"}
    BY <2>2 DEF Later
  <2>5. "migrate" \in Writers
    BY DEF Writers
  <2> QED
    BY <2>1, <2>3, <2>4, <2>5 DEF CallOK
<1> QED
  BY <1>1 DEF Sound

(* A task is put somewhere: the epic it leaves and the one it gets will    *)
(* both be recalculated.                                                   *)
LEMMA PutCalm ==
    ASSUME Base, Typed, CalmInv, NEW c \in Calls, Busy(c), NEW t \in Tasks, t \in about[c],
           Left(c, Tail(todo[c])), UNCHANGED <<epics, parent, estatus, excused>>, tasks \subseteq tasks',
           \A x \in Tasks \ {t} : (x \in tasks' <=> x \in tasks) /\ home'[x] = home[x] /\ tstatus'[x] = tstatus[x],
           tasks' \subseteq Tasks,
           t \in tasks => home[t] \in Told(Has(Tail(todo[c]))) \cup {None},
           home'[t] \in Told(Has(Tail(todo[c]))) \cup {None},
           Claims(tasks, home, todo[c]) \subseteq Told(Has(Tail(todo[c]))) \cup {None},
           \A b \in Has(Tail(todo[c])) : b.call \in Writers => b.task \in tasks /\ b.task # t
    PROVE  CalmInv'
<1> DEFINE p == Tail(todo[c])
<1>0. HandlersOK /\ tasks \subseteq Tasks
  BY DEF Base, BoardOK
<1>1. p \in Seq(CallSet) /\ Sound(tasks, home, p, about[c]) /\ \A x \in Has(p) : Later(x)
  BY <1>0, Going
<1>2. Claims(tasks', home', p) = Told(Has(p)) /\ Tells(parent', p) /\ todo'[c] = p
  BY <1>0, <1>1, LaterClaims DEF Tells, Left, HandlersOK
<1>3. Sound(tasks', home', p, about[c])
  <2>1. \A x \in tasks \ {t} : home'[x] = home[x]
    BY <1>0
  <2> HIDE DEF p
  <2>2. \A b \in Has(p) : Later(b) /\ (b.call \in Writers => b.task # t)
    BY <1>1 DEF p
  <2> QED
    BY <1>1, <2>1, <2>2, PutSound
<1>4. \A d \in Calls \ {c} : /\ Leaves(about[d])
                             /\ Mover(d) => parent'[Arg(d).epic] = parent[Arg(d).epic]
  <2>1. \A d \in Calls \ {c} : about[d] \subseteq Tasks \ {t}
    BY DEF CalmInv, Typed, HandlersTyped
  <2> QED
    BY <2>1 DEF Leaves
<1>5. Manual \subseteq epics'
  BY DEF CalmInv
<1>6. ASSUME NEW e \in epics' \ excused' PROVE Accounted(c, e)
  <2>1. e \in epics \ excused /\ e # None /\ e \in Below(epics, parent, e)
    BY <1>6, TreeAssumption, BelowInherits DEF Base, TreeOK
  <2>2. CASE \E x \in Told(Has(p)) : x \in Below(epics, parent, e)
    BY <1>2, <2>2 DEF Accounted, Answered
  <2>3. CASE \A x \in Told(Has(p)) : x \notin Below(epics, parent, e)
    <3>1. None \notin Below(epics, parent, e)
      BY BelowInherits, TreeAssumption DEF Base, TreeOK
    <3>2. ~ Answers(c, e)
      <4>1. \A x \in Claims(tasks, home, todo[c]) : x \notin Below(epics, parent, e)
        BY <2>3, <3>1
      <4> QED
        BY <4>1 DEF Answers, Answered
    <3>3. (t \in tasks => home[t] # e) /\ home'[t] # e
      BY <2>1, <2>3
    <3>4. SubEpics(e)' = SubEpics(e)
      BY DEF SubEpics
    <3>5. /\ \A x \in TasksOf(e) : x \in TasksOf(e)' /\ tstatus'[x] = tstatus[x]
          /\ \A x \in TasksOf(e)' : x \in TasksOf(e) /\ tstatus'[x] = tstatus[x]
      BY <1>0, <3>3 DEF TasksOf
    <3>6. InStep(e)' <=> InStep(e)
      BY <3>4, <3>5, InStepKept
    <3> QED
      BY <2>1, <3>2, <3>6, KeptAccounted
  <2> QED
    BY <2>2, <2>3
<1> HIDE DEF p
<1>7. Left(c, p)
  BY DEF p
<1> QED
  BY <1>0, <1>2, <1>3, <1>4, <1>5, <1>6, <1>7, LeftCalm

(* A write that fails leaves the handler nothing to do, and it answered    *)
(* only for an epic that is gone.                                          *)
LEMMA FailCalm ==
    ASSUME Base, Typed, CalmInv, NEW c \in Calls, Fail(c), UNCHANGED Rows, excused' = excused,
           Claims(tasks, home, todo[c]) \cap epics = {}
    PROVE  CalmInv'
<1>1. Left(c, << >>) /\ Sound(tasks, home, << >>, about[c]) /\ Tells(parent, << >>)
  BY NoCalls DEF Fail, Tells
<1>2. \A e : \A x \in Claims(tasks, home, todo[c]) : x \notin Below(epics, parent, e)
  BY BelowInherits
<1> QED
  BY <1>1, <1>2, QuietCalm DEF Base

(* The write of a task's epic.                                             *)
LEMMA SetCalm ==
    ASSUME Base, Typed, CalmInv, NEW c \in Calls, SetTaskEpic(c)
    PROVE  CalmInv'
<1> DEFINE a == Arg(c)
           p == Tail(todo[c])
<1>0. HandlersOK /\ Busy(c) /\ Next1(c, "set")
  BY DEF Base, SetTaskEpic, Next1
<1>1. /\ a.call = "set" /\ a \in CallSet /\ CallOK(tasks, home, a, Has(p), about[c]) /\ p \in Seq(CallSet)
      /\ Sound(tasks, home, p, about[c]) /\ \A x \in Has(p) : Later(x)
  BY <1>0, Going, Current
<1>2. /\ a.task \in tasks /\ a.task \in about[c] /\ a.task \in Tasks
      /\ home[a.task] \in Told(Has(p)) \cup {None} /\ a.epic \in Told(Has(p)) \cup {None}
      /\ \A b \in Has(p) : b.call \in Writers => b.task # a.task
  BY <1>1 DEF CallOK, AboutOne, Writers, Base, BoardOK
<1>3. Claims(tasks, home, todo[c]) = IF a.epic \notin Manual THEN {a.epic} ELSE Told(Has(p))
  BY <1>0, <1>1, NowClaims
<1>4. /\ epics' = epics /\ parent' = parent /\ estatus' = estatus /\ excused' = excused
      /\ tasks' = tasks /\ tstatus' = tstatus
  BY DEF SetTaskEpic, tree
<1>5. CASE /\ a.epic \in epics \cup {None} /\ home' = [home EXCEPT ![a.task] = a.epic] /\ Then(c, << >>)
  <2>1. Left(c, p)
    BY <1>1, <1>5, ConcatEmptySeq DEF Then
  <2>2. home'[a.task] = a.epic /\ \A x \in Tasks \ {a.task} : home'[x] = home[x]
    BY <1>2, <1>5 DEF Base, BoardOK
  <2>3. \A b \in Has(p) : b.call \in Writers => b.task \in tasks /\ b.task # a.task
    <3>1. ASSUME NEW b \in Has(p), b.call \in Writers PROVE b.task \in tasks
      <4>1. PICK i \in 1..Len(p) : b = p[i]
        BY <3>1 DEF Has
      <4> QED
        BY <1>1, <3>1, <4>1 DEF Sound, CallOK
    <3> QED
      BY <1>2, <3>1
  <2>4. Claims(tasks, home, todo[c]) \subseteq Told(Has(p)) \cup {None} /\ tasks \subseteq Tasks
    BY <1>2, <1>3 DEF Base, BoardOK
  <2> QED
    BY <1>0, <1>2, <1>4, <2>1, <2>2, <2>3, <2>4, PutCalm
<1>6. CASE a.epic \notin epics \cup {None} /\ home' = home /\ Fail(c)
  <2>1. a.epic \notin Manual
    BY <1>6 DEF CalmInv
  <2>2. UNCHANGED Rows /\ Claims(tasks, home, todo[c]) \cap epics = {}
    BY <1>3, <1>4, <1>6, <2>1 DEF Rows
  <2> QED
    BY <1>4, <1>6, <2>2, FailCalm
<1> QED
  BY <1>2, <1>5, <1>6 DEF SetTaskEpic

(* The insert of a task.                                                   *)
LEMMA InsertCalm ==
    ASSUME Base, Typed, CalmInv, NEW c \in Calls, InsertTask(c)
    PROVE  CalmInv'
<1> DEFINE a == Arg(c)
           p == Tail(todo[c])
<1>0. HandlersOK /\ Busy(c) /\ Next1(c, "insert")
  BY DEF Base, InsertTask, Next1
<1>1. /\ a.call = "insert" /\ a \in CallSet /\ CallOK(tasks, home, a, Has(p), about[c]) /\ p \in Seq(CallSet)
      /\ Sound(tasks, home, p, about[c]) /\ \A x \in Has(p) : Later(x)
  BY <1>0, Going, Current
<1>2. /\ a.task \notin tasks /\ a.task \in about[c] /\ a.task \in Tasks
      /\ a.epic \in Told(Has(p)) \cup {None}
  BY <1>1 DEF CallOK, AboutOne, CallSet, FormOK
<1>3. Claims(tasks, home, todo[c]) = {a.epic}
  BY <1>0, <1>1, NowClaims
<1>4. epics' = epics /\ parent' = parent /\ estatus' = estatus /\ excused' = excused
  BY DEF InsertTask, tree
<1>5. CASE /\ tasks' = tasks \cup {a.task} /\ home' = [home EXCEPT ![a.task] = a.epic]
           /\ tstatus' = [tstatus EXCEPT ![a.task] = "open"] /\ Then(c, << >>)
  <2>1. Left(c, p)
    BY <1>1, <1>5, ConcatEmptySeq DEF Then
  <2>2. /\ home'[a.task] = a.epic
        /\ \A x \in Tasks \ {a.task} : home'[x] = home[x] /\ tstatus'[x] = tstatus[x] /\ (x \in tasks' <=> x \in tasks)
    BY <1>2, <1>5 DEF Base, BoardOK, Typed
  <2>3. \A b \in Has(p) : b.call \in Writers => b.task \in tasks /\ b.task # a.task
    <3>1. ASSUME NEW b \in Has(p), b.call \in Writers PROVE b.task \in tasks
      <4>1. PICK i \in 1..Len(p) : b = p[i]
        BY <3>1 DEF Has
      <4> QED
        BY <1>1, <3>1, <4>1 DEF Sound, CallOK
    <3> QED
      BY <1>2, <3>1
  <2>4. Claims(tasks, home, todo[c]) \subseteq Told(Has(p)) \cup {None} /\ tasks \subseteq tasks' /\ tasks' \subseteq Tasks
    BY <1>2, <1>3, <1>5 DEF Base, BoardOK
  <2> QED
    BY <1>0, <1>2, <1>4, <2>1, <2>2, <2>3, <2>4, PutCalm
<1>6. CASE a.epic \notin epics /\ UNCHANGED board /\ Fail(c)
  <2>1. UNCHANGED Rows /\ Claims(tasks, home, todo[c]) \cap epics = {}
    BY <1>3, <1>4, <1>6 DEF Rows, board
  <2> QED
    BY <1>4, <1>6, <2>1, FailCalm
<1> QED
  BY <1>5, <1>6 DEF InsertTask

(* The delete of a group that is still empty.                              *)
LEMMA DropCalm ==
    ASSUME Base, Typed, CalmInv, NEW c \in Calls, Bare(Arg(c).epic), DropGroup(c)
    PROVE  CalmInv'
<1> DEFINE a == Arg(c)
           p == Tail(todo[c])
           g == a.epic
           gone == Below(epics, parent, g)
<1>0. HandlersOK /\ Busy(c) /\ Next1(c, "drop")
  BY DEF Base, DropGroup, Next1
<1>1. /\ a.call = "drop" /\ a \in CallSet /\ CallOK(tasks, home, a, Has(p), about[c]) /\ p \in Seq(CallSet)
      /\ Sound(tasks, home, p, about[c]) /\ \A x \in Has(p) : Later(x)
  BY <1>0, Going, Current
<1>2. g \in Groups /\ Told(Has(p)) = {g[1]} /\ g \notin Manual
  BY <1>1, TreeAssumption DEF CallOK
<1>3. Claims(tasks, home, todo[c]) = {g}
  BY <1>0, <1>1, NowClaims
<1>4. gone \subseteq {g}
  BY BelowLeaf DEF Bare
<1>5. {t \in tasks : home[t] \in gone} = {}
  BY <1>4 DEF Bare
<1>6. /\ ForgetEpics(gone) /\ ForgetTasks({}) /\ excused' = excused \ gone
      /\ IF gone = {} THEN Fail(c) ELSE Then(c, << >>)
  <2>1. Subtree(g) = gone
    BY SubtreeIsBelow
  <2> QED
    BY <1>5, <2>1 DEF DropGroup
<1>7. tasks' = tasks /\ home' = home /\ tstatus' = tstatus
  BY <1>6 DEF ForgetTasks, Forget, Base, BoardOK, Typed
<1>8. Cut(epics, parent, g, epics', parent')
  BY <1>6 DEF Cut, ForgetEpics, Forget, Base, TreeOK
<1>9. epics' = epics \ gone /\ \A e \in Epics \ gone : parent'[e] = parent[e] /\ estatus'[e] = estatus[e]
  BY <1>6 DEF ForgetEpics, Forget, Base, TreeOK, Typed
<1>10. Manual \subseteq epics' /\ \A d \in Calls \ {c} :
         /\ Leaves(about[d])
         /\ Mover(d) => parent'[Arg(d).epic] = parent[Arg(d).epic]
  <2>1. \A d \in Calls : Mover(d) => Arg(d).epic \in Manual
    BY <1>0, ArgForms
  <2>2. Manual \subseteq Epics \ gone
    BY <1>2, <1>4 DEF Epics
  <2>3. \A ds : Leaves(ds)
    BY <1>7 DEF Leaves
  <2>4. Manual \subseteq epics'
    BY <1>9, <2>2 DEF CalmInv
  <2> HIDE DEF gone
  <2> QED
    BY <1>9, <2>1, <2>2, <2>3, <2>4
<1> HIDE DEF gone
<1>11. CASE gone = {}
  <2>1. g \notin epics
    BY <1>11, BelowInherits DEF gone
  <2>2. UNCHANGED Rows /\ excused' = excused /\ Fail(c)
    BY <1>6, <1>7, <1>11 DEF Rows, ForgetEpics, Forget, Base, TreeOK, Typed
  <2> QED
    BY <1>3, <2>1, <2>2, FailCalm
<1>12. CASE gone # {}
  <2>1. Left(c, p) /\ todo'[c] = p
    <3>1. Left(c, p)
      BY <1>1, <1>6, <1>12, ConcatEmptySeq DEF Then
    <3> QED
      BY <1>0, <3>1 DEF Left, HandlersOK
  <2>2. Claims(tasks', home', p) = {g[1]} /\ Tells(parent', p) /\ Sound(tasks', home', p, about[c])
    BY <1>1, <1>2, <1>7, LaterClaims DEF Tells
  <2>3. gone = {g} /\ g \in epics /\ parent[g] = g[1]
    BY <1>2, <1>4, <1>12, BelowInherits DEF gone, Base, TreeOK
  <2> HIDE DEF p, g
  <2>4. ASSUME NEW e \in epics' \ excused' PROVE Accounted(c, e)
    <3>1. e \in epics \ excused /\ e # g /\ e \in Epics /\ e \in epics'
      BY <1>6, <1>9, <2>3, <2>4 DEF Base, TreeOK
    <3>2. Below(epics, parent, e) \ gone \subseteq Below(epics', parent', e)
      BY <1>8, <3>1, CutBelow DEF gone
    <3>3. CASE g \in Below(epics, parent, e)
      <4>1. g[1] \in Below(epics, parent, e)
        BY <2>3, <3>1, <3>3, BelowParent
      <4>2. g[1] # g
        BY <1>2, TreeAssumption DEF Groups
      <4> QED
        BY <2>1, <2>2, <2>3, <3>2, <4>1, <4>2 DEF Accounted, Answered
    <3>4. CASE g \notin Below(epics, parent, e)
      <4>1. Below(epics, parent, e) \subseteq Below(epics', parent', e)
        BY <2>3, <3>2, <3>4
      <4>2. ~ Answers(c, e)
        BY <1>3, <3>4 DEF Answers, Answered
      <4>3. parent[g] # e
        BY <2>3, <3>1, <3>4, BelowInherits DEF Inherits
      <4>4. /\ \A d : d \in SubEpics(e)' <=> d \in SubEpics(e)
            /\ \A d \in SubEpics(e) : estatus'[d] = estatus[d]
        BY <1>9, <2>3, <4>3 DEF SubEpics, Base, TreeOK
      <4>5. TasksOf(e)' = TasksOf(e) /\ estatus'[e] = estatus[e]
        BY <1>7, <1>9, <2>3, <3>1 DEF TasksOf
      <4>6. InStep(e)' <=> InStep(e)
        BY <1>7, <4>4, <4>5, InStepKept
      <4>7. CASE InStep(e)
        BY <4>6, <4>7 DEF Accounted
      <4>8. CASE ~ InStep(e)
        BY <3>1, <4>1, <4>2, <4>8 DEF Accounted
      <4> QED
        BY <4>7, <4>8
    <3> QED
      BY <3>3, <3>4
  <2> QED
    BY <1>0, <1>10, <2>1, <2>2, <2>4, LeftCalm
<1> QED
  BY <1>11, <1>12

(* Two calls before a program.                                             *)
LEMMA TwoThen ==
    ASSUME NEW a \in CallSet, NEW b \in CallSet, NEW p \in Seq(CallSet)
    PROVE  /\ <<a, b>> \o p \in Seq(CallSet) /\ <<a, b>> \o p # << >> /\ Head(<<a, b>> \o p) = a
           /\ \A T, H, ts :
                CallOK(T, H, a, {b} \cup Has(p), ts) /\ CallOK(T, H, b, Has(p), ts) /\ Sound(T, H, p, ts)
                  => Sound(T, H, <<a, b>> \o p, ts)
<1> DEFINE s == <<a, b>>
           q == s \o p
<1>1. s \in Seq(CallSet) /\ Len(s) = 2 /\ s[1] = a /\ s[2] = b
  OBVIOUS
<1>2. 1..2 = {1, 2} /\ 2..2 = {2} /\ 3..2 = {}
  OBVIOUS
<1> HIDE DEF s
<1>3. After(s, 1) = {b} /\ After(s, 2) = {}
  <2>1. After(s, 1) = {s[i] : i \in {2}} /\ After(s, 2) = {s[i] : i \in {}}
    BY <1>1, <1>2 DEF After
  <2> QED
    BY <1>1, <2>1
<1>4. /\ q \in Seq(CallSet) /\ Len(q) = 2 + Len(p) /\ Len(p) \in Nat
      /\ \A i \in 1..(2 + Len(p)) : q[i] = IF i <= 2 THEN s[i] ELSE p[i - 2]
  <2>1. Len(p) \in Nat
    BY LenProperties
  <2>2. /\ q \in Seq(CallSet) /\ Len(q) = Len(s) + Len(p)
        /\ \A i \in 1..(Len(s) + Len(p)) : q[i] = IF i <= Len(s) THEN s[i] ELSE p[i - Len(s)]
    BY <1>1, ConcatProperties
  <2> HIDE DEF q
  <2> QED
    BY <1>1, <2>1, <2>2
<1>5. ASSUME NEW T, NEW H, NEW ts,
             CallOK(T, H, a, {b} \cup Has(p), ts), CallOK(T, H, b, Has(p), ts), Sound(T, H, p, ts)
      PROVE  Sound(T, H, q, ts)
  <2>1. After(s, 1) \cup Has(p) = {b} \cup Has(p) /\ After(s, 2) \cup Has(p) = Has(p)
    BY <1>3
  <2>2. \A i \in 1..Len(s) : CallOK(T, H, s[i], After(s, i) \cup Has(p), ts)
    BY <1>1, <1>2, <1>5, <2>1
  <2> QED
    BY <1>1, <1>5, <2>2, JoinedCalls
<1> HIDE DEF q
<1>6. q # << >> /\ Head(q) = a
  <2>1. q[1] = a
    BY <1>1, <1>4
  <2> QED
    BY <1>4, <2>1, EmptySeq, HeadTailProperties
<1> QED
  BY <1>4, <1>5, <1>6 DEF q, s

(* A program that has no call is the empty one.                            *)
LEMMA HasNone ==
    ASSUME NEW p \in Seq(CallSet), Has(p) = {}
    PROVE  p = << >> /\ \A s \in Seq(CallSet) : s \o p = s
<1>1. p = << >>
  <2>1. Len(p) \in Nat
    BY LenProperties
  <2>2. Len(p) = 0
    BY <2>1 DEF Has
  <2> QED
    BY <2>2, EmptySeq
<1> QED
  BY <1>1, ConcatEmptySeq

(* The calls that follow a routing: sound before what the routing's own    *)
(* calls were sound before, and the first of them puts the task.           *)
PutsFirst(q, e) == q # << >> /\ Head(q).call \in {"set", "insert"} /\ Head(q).epic = e

(* A task that is created, ...                                             *)
LEMMA CreateSound ==
    ASSUME NEW T, NEW H, NEW ts, NEW a \in CallSet, NEW p \in Seq(CallSet), NEW e \in Ends,
           a.call = "create", CallOK(T, H, a, Has(p), ts)
    PROVE  Sound(T, H, Placed(a, e) \o p, ts) /\ PutsFirst(Placed(a, e) \o p, e)
<1> DEFINE x == Insert(a.task, e, a.repo)
           y == Recalc(e)
<1>1. a.task \in Tasks /\ a.repo \in Repos /\ a.task \in ts /\ a.task \notin T /\ Has(p) = {}
  BY DEF CallSet, FormOK, CallOK, AboutOne, Placing, Alone
<1>2. /\ x \in CallSet /\ x.call = "insert" /\ x.task = a.task /\ x.epic = e
      /\ y \in CallSet /\ y.call = "recalc" /\ y.epic = e /\ Later(y) /\ Told({y}) = {e}
      /\ CallOK(T, H, y, {}, ts)
  BY <1>1, CallsFormed, CallFields, RecalcSound DEF Plain
<1>3. Placed(a, e) = <<x, y>>
  BY DEF Placed
<1> HIDE DEF x, y
<1>4. CallOK(T, H, x, {y}, ts)
  BY <1>1, <1>2 DEF CallOK, AboutOne, Writers, Alone, Placing
<1>5. Sound(T, H, <<x, y>>, ts) /\ <<x, y>> # << >> /\ Head(<<x, y>>) = x /\ <<x, y>> \in Seq(CallSet)
  BY <1>2, <1>4, TwoSound
<1>6. <<x, y>> \o p = <<x, y>>
  BY <1>1, <1>5, HasNone
<1> QED
  BY <1>2, <1>3, <1>5, <1>6 DEF PutsFirst

(* ... moved, ...                                                          *)
LEMMA MoveSound ==
    ASSUME NEW T, NEW H, NEW ts, NEW a \in CallSet, NEW p \in Seq(CallSet), NEW e \in Ends,
           a.call = "move", CallOK(T, H, a, Has(p), ts)
    PROVE  Sound(T, H, Placed(a, e) \o p, ts) /\ PutsFirst(Placed(a, e) \o p, e)
<1> DEFINE x == Set(a.task, e)
           y == Recalc(a.to)
           z == Recalc(e)
<1>1. /\ a.task \in Tasks \cup Ends /\ a.to \in Ends /\ a.task \in ts /\ a.task \in T /\ Has(p) = {}
      /\ H[a.task] = a.to
  BY DEF CallSet, FormOK, CallOK, AboutOne, Placing, Alone
<1>2. /\ x \in CallSet /\ x.call = "set" /\ x.task = a.task /\ x.epic = e
      /\ y \in CallSet /\ y.call = "recalc" /\ y.epic = a.to /\ Later(y)
      /\ z \in CallSet /\ z.call = "recalc" /\ z.epic = e /\ Later(z)
      /\ CallOK(T, H, y, {z}, ts) /\ CallOK(T, H, z, {}, ts)
  <2>1. x \in CallSet /\ y \in CallSet /\ z \in CallSet
    BY <1>1, CallsFormed DEF Plain
  <2>2. x.call = "set" /\ x.task = a.task /\ x.epic = e /\ y.call = "recalc" /\ y.epic = a.to
        /\ z.call = "recalc" /\ z.epic = e
    BY CallFields
  <2>3. Later(y) /\ Later(z)
    BY RecalcSound
  <2>4. CallOK(T, H, y, {z}, ts) /\ CallOK(T, H, z, {}, ts)
    BY <2>3, RecalcSound
  <2> QED
    BY <2>1, <2>2, <2>3, <2>4
<1>3. Placed(a, e) = <<x, y, z>>
  BY DEF Placed
<1> HIDE DEF x, y, z
<1>4. a.to \in Told({y, z}) /\ e \in Told({y, z})
  BY <1>2 DEF Told
<1>5. CallOK(T, H, x, {y, z}, ts)
  BY <1>1, <1>2, <1>4 DEF CallOK, AboutOne, Writers, Alone, Placing
<1>6. /\ Sound(T, H, <<x, y, z>>, ts) /\ <<x, y, z>> # << >> /\ Head(<<x, y, z>>) = x
      /\ <<x, y, z>> \in Seq(CallSet)
  BY <1>2, <1>5, ThreeSound
<1>7. <<x, y, z>> \o p = <<x, y, z>>
  BY <1>1, <1>6, HasNone
<1> QED
  BY <1>2, <1>3, <1>6, <1>7 DEF PutsFirst

(* ... migrated by a regrouping, ...                                       *)
LEMMA MigrateSound ==
    ASSUME NEW T, NEW H, NEW ts, NEW a \in CallSet, NEW p \in Seq(CallSet), NEW e \in Ends,
           a.call = "migrate", CallOK(T, H, a, Has(p), ts), Sound(T, H, p, ts)
    PROVE  Sound(T, H, Placed(a, e) \o p, ts) /\ PutsFirst(Placed(a, e) \o p, e)
<1> DEFINE x == Set(a.task, e)
           y == Recalc(e)
<1>1. /\ a.task \in Tasks \cup Ends /\ a.task \in ts /\ a.task \in T /\ H[a.task] = a.epic
      /\ Told(Has(p)) = {a.epic} /\ \A b \in Has(p) : Later(b) /\ (b.call \in Writers => b.task # a.task)
  BY DEF CallSet, FormOK, CallOK, AboutOne, Placing, Alone, Writers
<1>2. /\ x \in CallSet /\ x.call = "set" /\ x.task = a.task /\ x.epic = e
      /\ y \in CallSet /\ y.call = "recalc" /\ y.epic = e /\ Later(y)
      /\ CallOK(T, H, y, Has(p), ts)
  BY <1>1, CallsFormed, CallFields, RecalcSound DEF Plain
<1>3. Placed(a, e) = <<x, y>>
  BY DEF Placed
<1> HIDE DEF x, y
<1>4. Told({y} \cup Has(p)) = {e} \cup {a.epic}
  <2>1. Told({y} \cup Has(p)) = {e} \cup Told(Has(p))
    BY <1>2, ToldMore
  <2> QED
    BY <1>1, <2>1
<1>5. CallOK(T, H, x, {y} \cup Has(p), ts)
  <2>1. \A b \in {y} \cup Has(p) : Later(b) /\ (b.call \in Writers => b.task # a.task)
    BY <1>1, <1>2 DEF Writers
  <2> QED
    BY <1>1, <1>2, <1>4, <2>1 DEF CallOK, AboutOne, Alone, Placing
<1>6. Sound(T, H, <<x, y>> \o p, ts) /\ <<x, y>> \o p # << >> /\ Head(<<x, y>> \o p) = x
  BY <1>2, <1>5, TwoThen
<1> QED
  BY <1>2, <1>3, <1>6 DEF PutsFirst

(* ... or rerouted.                                                        *)
LEMMA RerootSound ==
    ASSUME NEW T, NEW H, NEW ts, NEW a \in CallSet, NEW p \in Seq(CallSet), NEW e \in Ends,
           a.call = "reroot", e # a.to, CallOK(T, H, a, Has(p), ts)
    PROVE  Sound(T, H, Placed(a, e) \o p, ts) /\ PutsFirst(Placed(a, e) \o p, e)
<1> DEFINE x == Set(a.task, e)
           y == Recalc(e)
           m == Cleanup(a.to)
           z == Recalc(a.epic)
           mid == IF a.to # a.epic THEN <<m>> ELSE << >>
           s == <<x, y>>
           o == <<z>>
           r == mid \o o
           q == Placed(a, e)
<1>1. /\ a.task \in Tasks \cup Ends /\ a.to \in Ends /\ a.epic \in Ends
      /\ a.task \in ts /\ a.task \in T /\ Has(p) = {} /\ H[a.task] = a.to
      /\ a.to = a.epic \/ (a.to \in Groups /\ a.to[1] = a.epic)
  BY DEF CallSet, FormOK, CallOK, AboutOne, Placing, Alone
<1>2. /\ x \in CallSet /\ x.call = "set" /\ x.task = a.task /\ x.epic = e
      /\ y \in CallSet /\ y.call = "recalc" /\ y.epic = e
      /\ m \in CallSet /\ m.call = "cleanup" /\ m.epic = a.to
      /\ z \in CallSet /\ z.call = "recalc" /\ z.epic = a.epic
  <2>1. x \in CallSet /\ y \in CallSet /\ z \in CallSet /\ m \in CallSet
    BY <1>1, CallsFormed DEF Plain
  <2> QED
    BY <2>1, CallFields
<1>3. Later(y) /\ Later(z) /\ Told({z}) = {a.epic} /\ CallOK(T, H, z, {}, ts)
  BY RecalcSound
<1>4. q = (s \o mid) \o o
  BY DEF Placed
<1> HIDE DEF x, y, m, z
<1>5. /\ o \in Seq(CallSet) /\ Has(o) = {z} /\ Sound(T, H, o, ts)
  BY <1>2, <1>3, OneSound
<1>6. s \in Seq(CallSet) /\ mid \in Seq(CallSet)
  BY <1>2, OneSound, TwoSound, EmptySeq
<1> HIDE DEF q, s, o
<1>7. /\ r \in Seq(CallSet) /\ Sound(T, H, r, ts) /\ \A b \in Has(r) : Later(b) /\ b.call \notin Writers
      /\ a.to \in Told(Has(r))
  <2>1. CASE a.to = a.epic
    <3>1. r = o
      BY <1>5, <2>1, ConcatEmptySeq
    <3>2. Has(r) = {z} /\ a.to \in Told({z})
      BY <1>3, <1>5, <2>1, <3>1
    <3> QED
      BY <1>2, <1>3, <1>5, <3>1, <3>2 DEF Writers
  <2>2. CASE a.to # a.epic
    <3>1. r = <<m>> \o o
      BY <2>2
    <3> HIDE DEF r
    <3>2. CallOK(T, H, m, {z}, ts)
      BY <1>1, <1>2, <1>3, <2>2 DEF CallOK, AboutOne, Writers, Alone, Placing
    <3>3. r \in Seq(CallSet) /\ Has(r) = {m} \cup {z} /\ Sound(T, H, r, ts)
      BY <1>2, <1>5, <3>1, <3>2, ThenOne
    <3>4. Later(m) /\ a.to \in Told({m} \cup {z})
      BY <1>2 DEF Later, Told
    <3> QED
      BY <1>2, <1>3, <3>3, <3>4 DEF Writers
  <2> QED
    BY <2>1, <2>2
<1>8. q = s \o r
  <2>1. o \in Seq(CallSet) /\ s \in Seq(CallSet) /\ mid \in Seq(CallSet)
    BY <1>5, <1>6
  <2> HIDE DEF mid
  <2>2. (s \o mid) \o o = s \o (mid \o o)
    BY <2>1, ConcatAssociative
  <2> QED
    BY <1>4, <2>2
<1> HIDE DEF r
<1>9. Told({y} \cup Has(r)) = {e} \cup Told(Has(r))
  BY <1>2, ToldMore
<1>10. CallOK(T, H, x, {y} \cup Has(r), ts)
  <2>1. \A b \in {y} \cup Has(r) : Later(b) /\ b.call \notin Writers
    BY <1>2, <1>3, <1>7 DEF Writers
  <2> QED
    BY <1>1, <1>2, <1>7, <1>9, <2>1 DEF CallOK, AboutOne, Alone, Placing
<1>11. CallOK(T, H, y, Has(r), ts)
  BY <1>2, <1>7 DEF CallOK, AboutOne, Alone, Placing, Writers
<1>12. Sound(T, H, q, ts) /\ q # << >> /\ Head(q) = x /\ q \in Seq(CallSet)
  BY <1>2, <1>7, <1>8, <1>10, <1>11, TwoThen DEF s
<1>13. q \o p = q
  BY <1>1, <1>12, HasNone
<1> QED
  BY <1>2, <1>12, <1>13 DEF PutsFirst, q

(* A routing with something to do puts the task first; one without it is a *)
(* reroute that leads back to where the task is.                           *)
LEMMA PlacedSound ==
    ASSUME NEW T, NEW H, NEW ts, NEW a \in CallSet, NEW p \in Seq(CallSet), NEW e \in Ends,
           a.call \in Placing, CallOK(T, H, a, Has(p), ts), Sound(T, H, p, ts)
    PROVE  /\ Placed(a, e) # << >> =>
                Sound(T, H, Placed(a, e) \o p, ts) /\ PutsFirst(Placed(a, e) \o p, e)
           /\ Placed(a, e) = << >> => a.call = "reroot" /\ Placed(a, e) \o p = p
<1>1. CASE a.call = "create"
  <2>1. Placed(a, e) # << >>
    BY <1>1 DEF Placed
  <2> QED
    BY <1>1, <2>1, CreateSound
<1>2. CASE a.call = "move"
  <2>1. Placed(a, e) # << >>
    BY <1>2 DEF Placed
  <2> QED
    BY <1>2, <2>1, MoveSound
<1>3. CASE a.call = "migrate"
  <2>1. Placed(a, e) # << >>
    BY <1>3 DEF Placed
  <2> QED
    BY <1>3, <2>1, MigrateSound
<1>4. CASE a.call = "reroot" /\ e # a.to
  BY <1>4, RerootSound, ConcatEmptySeq
<1>5. CASE a.call = "reroot" /\ e = a.to
  <2>1. Placed(a, e) = << >>
    BY <1>5 DEF Placed
  <2> QED
    BY <1>5, <2>1, ConcatEmptySeq
<1> QED
  BY <1>1, <1>2, <1>3, <1>4, <1>5 DEF Placing

(* A call that puts a task answers for the epic it puts it under.          *)
LEMMA PutClaims ==
    ASSUME NEW T, NEW H, NEW q, NEW e, PutsFirst(q, e)
    PROVE  /\ e \notin Manual => Claims(T, H, q) = {e}
           /\ \A P : Tells(P, q)
BY DEF PutsFirst, Claims, Tells

(* A group under its root g[1], there already or new: only the root has    *)
(* another child, and no subtree loses anything.                           *)
LEMMA GroupUnder ==
    ASSUME TreeOK, NEW g \in Groups, g[1] \in epics, epics' = epics \cup {g},
           parent' = [parent EXCEPT ![g] = g[1]]
    PROVE  /\ parent'[g] = g[1] /\ g[1] # g
           /\ \A d \in Epics \ {g} : parent'[d] = parent[d]
           /\ g \in epics => parent' = parent /\ epics' = epics
           /\ \A e \in epics : Below(epics, parent, e) \subseteq Below(epics', parent', e)
           /\ \A e \in Epics \ {g[1]} : SubEpics(e)' = SubEpics(e) /\ g \notin SubEpics(e)
<1>1. g \in Epics /\ g[1] \notin Groups /\ g[1] # g /\ epics \subseteq Epics
  BY TreeAssumption DEF Groups, Epics, TreeOK
<1>2. parent'[g] = g[1] /\ \A d \in Epics \ {g} : parent'[d] = parent[d]
  BY <1>1 DEF TreeOK
<1>3. g \in epics => parent[g] = g[1]
  BY DEF TreeOK
<1>4. g \in epics => parent' = parent /\ epics' = epics
  BY <1>1, <1>3 DEF TreeOK
<1>5. \A e \in epics : Below(epics, parent, e) \subseteq Below(epics', parent', e)
  <2>1. CASE g \in epics
    BY <1>4, <2>1
  <2>2. CASE g \notin epics
    <3>1. \A d \in epics : parent[d] # g
      BY <1>1, <2>2, TreeAssumption DEF TreeOK
    <3>2. Grown(epics, parent, g, epics', parent')
      BY <1>1, <1>2, <2>2, <3>1 DEF Grown
    <3> QED
      BY <2>2, <3>2, GrownBelow
  <2> QED
    BY <2>1, <2>2
<1>6. ASSUME NEW e \in Epics \ {g[1]}
      PROVE  SubEpics(e)' = SubEpics(e) /\ g \notin SubEpics(e)
  <2>1. \A d \in epics \cup {g} : parent'[d] = e => d # g
    BY <1>2
  <2>2. g \in epics => parent[g] # e
    BY <1>3
  <2> QED
    BY <1>1, <1>2, <2>1, <2>2 DEF SubEpics
<1> QED
  BY <1>1, <1>2, <1>4, <1>5, <1>6

(* A routing that leaves the tree alone.                                   *)
LEMMA StayCalm ==
    ASSUME Base, Typed, CalmInv, NEW c \in Calls, PlaceTask(c), Arg(c).epic \notin epics \cap grouped
    PROVE  CalmInv'
<1> DEFINE a == Arg(c)
           p == Tail(todo[c])
           q == Placed(a, a.epic) \o p
<1>0. HandlersOK /\ Busy(c) /\ a.call \in Placing
  BY DEF Base, PlaceTask, Next1, Arg, Placing
<1>1. /\ a \in CallSet /\ CallOK(tasks, home, a, Has(p), about[c]) /\ p \in Seq(CallSet)
      /\ Sound(tasks, home, p, about[c]) /\ \A x \in Has(p) : Later(x)
  BY <1>0, Going
<1>2. Claims(tasks, home, todo[c]) = Told(Has(p))
  <2>1. Claims(tasks, home, todo[c]) = {} \cup Told(Has(p))
    BY <1>0, NowClaims DEF Placing
  <2> QED
    BY <2>1
<1>3. UNCHANGED Rows /\ excused' = excused
  BY DEF PlaceTask, board, Rows
<1>4. Claims(tasks, home, p) = Told(Has(p)) /\ Tells(parent, p)
  BY <1>1, LaterClaims DEF Tells
<1>5. CASE Left(c, p)
  <2> HIDE DEF p
  <2> QED
    BY <1>0, <1>1, <1>2, <1>3, <1>4, <1>5, QuietCalm DEF Answered
<1>6. CASE Left(c, q) /\ a.call # "migrate"
  <2>1. a.epic \in Ends
    BY <1>1 DEF CallSet
  <2>2. Claims(tasks, home, todo[c]) = {}
    <3>1. Has(p) = {}
      BY <1>0, <1>1, <1>6 DEF CallOK, Alone, Placing
    <3> QED
      BY <1>2, <3>1, NoCalls
  <2>3. CASE Placed(a, a.epic) = << >>
    BY <1>0, <1>1, <1>5, <1>6, <2>1, <2>3, PlacedSound
  <2>4. CASE Placed(a, a.epic) # << >>
    <3>1. Sound(tasks, home, q, about[c]) /\ PutsFirst(q, a.epic)
      BY <1>0, <1>1, <2>1, <2>4, PlacedSound
    <3>2. Tells(parent, q)
      BY <3>1, PutClaims
    <3> HIDE DEF q
    <3> QED
      BY <1>0, <1>3, <1>6, <2>2, <3>1, <3>2, QuietCalm
  <2> QED
    BY <2>3, <2>4
<1>7. IF a.call = "migrate" THEN Left(c, p) ELSE Left(c, q)
  <2>1. Then(c, IF a.call = "migrate" THEN << >> ELSE Placed(a, a.epic))
    BY DEF PlaceTask
  <2> QED
    BY <1>1, <2>1, ConcatEmptySeq DEF Then
<1> QED
  BY <1>5, <1>6, <1>7

(* A routing into a group: the group may be new, or live again.            *)
LEMMA RouteCalm ==
    ASSUME Base, Typed, CalmInv, NEW c \in Calls, PlaceTask(c), Arg(c).epic \in epics \cap grouped
    PROVE  CalmInv'
<1> DEFINE a == Arg(c)
           p == Tail(todo[c])
           g == <<a.epic, a.repo>>
           fresh == g \notin epics \/ estatus[g] = "archived"
           q == Placed(a, g) \o p
<1>0. HandlersOK /\ Busy(c) /\ a.call \in Placing
  BY DEF Base, PlaceTask, Next1, Arg, Placing
<1>1. /\ a \in CallSet /\ CallOK(tasks, home, a, Has(p), about[c]) /\ p \in Seq(CallSet)
      /\ Sound(tasks, home, p, about[c]) /\ \A x \in Has(p) : Later(x)
  BY <1>0, Going
<1>2. /\ g \in Groups /\ g \in Epics /\ g \in Ends /\ g[1] = a.epic /\ a.epic \in epics /\ g \notin Manual
  BY <1>0, <1>1, TreeAssumption DEF CallSet, FormOK, Base, TreeOK, Groups, Epics, Ends
<1>3. /\ epics' = epics \cup {g} /\ parent' = [parent EXCEPT ![g] = a.epic]
      /\ estatus' = IF fresh THEN [estatus EXCEPT ![g] = "open"] ELSE estatus
      /\ excused' = IF fresh THEN excused \cup {g} \cup Overlooked(a, g) ELSE excused
      /\ Left(c, q) /\ tasks' = tasks /\ home' = home /\ tstatus' = tstatus
  BY DEF PlaceTask, board, Then
<1>4. /\ parent'[g] = a.epic /\ a.epic # g
      /\ \A d \in Epics \ {g} : parent'[d] = parent[d]
      /\ \A e \in epics : Below(epics, parent, e) \subseteq Below(epics', parent', e)
      /\ \A e \in Epics \ {a.epic} : SubEpics(e)' = SubEpics(e) /\ g \notin SubEpics(e)
      /\ g \in epics => parent' = parent /\ epics' = epics
  BY <1>2, <1>3, GroupUnder DEF Base
<1>5. Claims(tasks, home, todo[c]) \subseteq {a.epic}
  <2>1. Claims(tasks, home, todo[c]) = {} \cup Told(Has(p))
    BY <1>0, NowClaims DEF Placing
  <2>2. a.call # "migrate" => Has(p) = {}
    BY <1>0, <1>1 DEF CallOK, Alone, Placing
  <2>3. a.call = "migrate" => Told(Has(p)) = {a.epic}
    BY <1>1 DEF CallOK
  <2> QED
    BY <2>1, <2>2, <2>3, NoCalls
<1>6. Manual \subseteq epics' /\ \A d \in Calls \ {c} :
        /\ Leaves(about[d])
        /\ Mover(d) => parent'[Arg(d).epic] = parent[Arg(d).epic]
  <2>1. \A d \in Calls : Mover(d) => Arg(d).epic \in Manual
    BY <1>0, ArgForms
  <2>2. Manual \subseteq Epics \ {g}
    BY <1>2 DEF Epics
  <2>3. \A ds : Leaves(ds)
    BY <1>3 DEF Leaves
  <2>4. Manual \subseteq epics'
    BY <1>3 DEF CalmInv
  <2> HIDE DEF g
  <2> QED
    BY <1>4, <2>1, <2>2, <2>3, <2>4
<1>7. todo'[c] = q
  BY <1>0, <1>3 DEF Left, HandlersOK
<1> HIDE DEF fresh, q, p, g
<1>8. \A e \in Epics \ {g} : estatus'[e] = estatus[e]
  BY <1>3 DEF Typed
<1>9. ASSUME NEW e \in epics' \ excused', e # g, e # a.epic
      PROVE  /\ e \in epics \ excused /\ (InStep(e)' <=> InStep(e))
             /\ Below(epics, parent, e) \subseteq Below(epics', parent', e)
  <2>1. e \in epics \ excused /\ e \in Epics
    BY <1>3, <1>9 DEF Base, TreeOK
  <2>2. SubEpics(e)' = SubEpics(e) /\ TasksOf(e)' = TasksOf(e) /\ SubEpics(e) \subseteq Epics \ {g}
    BY <1>3, <1>4, <1>9, <2>1 DEF TasksOf, SubEpics, Base, TreeOK
  <2>3. estatus'[e] = estatus[e] /\ \A d \in SubEpics(e) : estatus'[d] = estatus[d]
    BY <1>8, <1>9, <2>1, <2>2
  <2>4. InStep(e)' <=> InStep(e)
    BY <1>3, <2>2, <2>3, InStepKept
  <2> QED
    BY <1>4, <2>1, <2>4
<1>10. CASE Placed(a, g) # << >>
  <2>1. Sound(tasks, home, q, about[c]) /\ PutsFirst(q, g)
    BY <1>0, <1>1, <1>2, <1>10, PlacedSound DEF q
  <2>2. Claims(tasks', home', q) = {g} /\ Tells(parent', q) /\ Sound(tasks', home', q, about[c])
    BY <1>2, <1>3, <2>1, PutClaims
  <2>3. ASSUME NEW e \in epics' \ excused' PROVE Accounted(c, e)
    <3>1. CASE g \in Below(epics', parent', e)
      BY <1>7, <2>2, <3>1 DEF Accounted, Answered
    <3>2. CASE g \notin Below(epics', parent', e)
      <4>1. a.epic \notin Below(epics', parent', e)
        <5>1. g \in epics' /\ parent'[g] = a.epic
          BY <1>3, <1>4
        <5>2. Inherits(epics', parent', Below(epics', parent', e))
          BY BelowInherits
        <5> QED
          BY <3>2, <5>1, <5>2 DEF Inherits
      <4>2. e # g /\ e # a.epic
        BY <2>3, <3>2, <4>1, BelowInherits
      <4>3. /\ e \in epics \ excused /\ (InStep(e)' <=> InStep(e))
            /\ Below(epics, parent, e) \subseteq Below(epics', parent', e)
        BY <1>9, <2>3, <4>2
      <4>4. ~ Answers(c, e)
        BY <1>5, <4>1, <4>3 DEF Answers, Answered
      <4>5. CASE InStep(e)
        BY <4>3, <4>5 DEF Accounted
      <4>6. CASE ~ InStep(e)
        BY <4>3, <4>4, <4>6 DEF Accounted
      <4> QED
        BY <4>5, <4>6
    <3> QED
      BY <3>1, <3>2
  <2> QED
    BY <1>0, <1>3, <1>6, <2>2, <2>3, LeftCalm
<1>11. CASE Placed(a, g) = << >>
  <2>1. a.call = "reroot" /\ q = p
    BY <1>0, <1>1, <1>2, <1>11, PlacedSound DEF q
  <2>2. Claims(tasks, home, todo[c]) = {}
    <3>1. Has(p) = {}
      BY <1>1, <2>1 DEF CallOK, Alone
    <3>2. Claims(tasks, home, todo[c]) = {} \cup Told(Has(p))
      BY <1>0, <2>1, NowClaims DEF p
    <3> QED
      BY <3>1, <3>2, NoCalls
  <2>3. Tells(parent', q) /\ Sound(tasks', home', q, about[c])
    BY <1>1, <1>3, <2>1, LaterClaims DEF Tells
  <2>4. ASSUME NEW e \in epics' \ excused' PROVE Accounted(c, e)
    <3>1. ~ Answers(c, e)
      BY <2>2 DEF Answers, Answered
    <3>2. CASE fresh
      <4>1. e # g /\ e # a.epic
        BY <1>3, <1>11, <2>4, <3>2 DEF Overlooked
      <4>2. /\ e \in epics \ excused /\ (InStep(e)' <=> InStep(e))
            /\ Below(epics, parent, e) \subseteq Below(epics', parent', e)
        BY <1>9, <2>4, <4>1
      <4>3. CASE InStep(e)
        BY <4>2, <4>3 DEF Accounted
      <4>4. CASE ~ InStep(e)
        BY <3>1, <4>2, <4>4 DEF Accounted
      <4> QED
        BY <4>3, <4>4
    <3>3. CASE ~ fresh
      <4>1. epics' = epics /\ parent' = parent /\ estatus' = estatus /\ excused' = excused
        BY <1>3, <1>4, <3>3 DEF fresh
      <4>2. SubEpics(e)' = SubEpics(e) /\ TasksOf(e)' = TasksOf(e)
        BY <1>3, <4>1 DEF SubEpics, TasksOf
      <4>3. InStep(e)' <=> InStep(e)
        BY <1>3, <4>1, <4>2, InStepKept
      <4> QED
        BY <2>4, <3>1, <4>1, <4>3, KeptAccounted
    <3> QED
      BY <3>2, <3>3
  <2> QED
    BY <1>0, <1>3, <1>6, <2>3, <2>4, LeftCalm
<1> QED
  BY <1>10, <1>11

-----------------------------------------------------------------------------
(* A later state is without an overlap only if the earlier one was.        *)
LEMMA OverlapStays ==
    ASSUME NEW c \in Calls, Begin(c) \/ Continue(c), overlap' = {}
    PROVE  overlap = {}
<1>1. ASSUME NEW ts, NEW q, Start(c, ts, q) PROVE overlap = {}
  BY <1>1 DEF Start
<1>2. CASE Begin(c)
  <2>1. ASSUME NEW t \in Tasks,
               \/ \E s \in Statuses : SetTaskStatus(c, t, s)
               \/ \E e \in epics : MoveTask(c, t, e) \/ \E r \in Repos : CreateTask(c, t, e, r)
               \/ DetachTask(c, t) \/ DeleteTask(c, t) \/ \E r \in Repos : ChangeRepo(c, t, r)
        PROVE  overlap = {}
    BY <1>1, <2>1 DEF SetTaskStatus, CreateTask, MoveTask, DetachTask, ChangeRepo, DeleteTask
  <2>2. ASSUME NEW e \in epics, Regroup(c, e) \/ Flatten(c, e)
        PROVE  overlap = {}
    <3>1. PICK q : Start(c, Tasks, q)
      BY <2>2 DEF Regroup, Flatten
    <3> QED
      BY <1>1, <3>1
  <2>3. ASSUME NEW e \in epics,
               \/ SetFlag(c, e) \/ Unparent(c, e) \/ \E s \in Statuses : SetEpicStatus(c, e, s)
               \/ \E p \in epics : Reparent(c, e, p)
        PROVE  overlap = {}
    BY <1>1, <2>3 DEF SetFlag, SetEpicStatus, Reparent, Unparent
  <2> QED
    BY <1>2, <2>1, <2>2, <2>3 DEF Begin
<1>3. CASE Continue(c)
  BY <1>3 DEF Continue, CheckStep, LinkEpic, PlaceTask, SetTaskEpic, InsertTask, FindEpic, RecalcEpic,
     RerouteTask, DrainGroup, CleanupGroup, DropGroup, Doomed, history
<1> QED
  BY <1>2, <1>3

(* Every later step of a handler keeps what is owed: without an overlap    *)
(* the hierarchy is a forest, a link is made by the only reparenting, and  *)
(* a group that is deleted is bare.                                        *)
LEMMA ContinueKeepsCalm ==
    ASSUME TreeInv, Typed, CalmInv, overlap = {}, NEW c \in Calls, Continue(c)
    PROVE  CalmInv'
<1>1. Base /\ Forest(epics, parent)
  BY DEF TreeInv, AcyclicUnlessRaced, Acyclic, Forest
<1>2. CASE CheckStep(c) \/ FindEpic(c) \/ RerouteTask(c) \/ CleanupGroup(c) \/ DrainGroup(c)
  BY <1>1, <1>2, CheckCalm, FindCalm, RerouteCalm, CleanupCalm, DrainCalm
<1>3. CASE RecalcEpic(c)
  BY <1>1, <1>3, RecalcCalm
<1>4. CASE LinkEpic(c)
  <2>1. \A d \in Calls \ {c} : ~ Mover(d)
    BY <1>4 DEF TreeInv, OneMover, Mover, LinkEpic
  <2> QED
    BY <1>1, <1>4, <2>1, LinkCalm
<1>5. CASE PlaceTask(c)
  BY <1>1, <1>5, StayCalm, RouteCalm
<1>6. CASE SetTaskEpic(c) \/ InsertTask(c)
  BY <1>1, <1>6, SetCalm, InsertCalm
<1>7. CASE DropGroup(c)
  <2>1. Bare(Arg(c).epic)
    BY <1>7 DEF TreeInv, DropsOK, DropGroup
  <2> QED
    BY <1>1, <1>7, <2>1, DropCalm
<1> QED
  BY <1>2, <1>3, <1>4, <1>5, <1>6, <1>7 DEF Continue

(* The strengthening of EpicsInStep is inductive.                          *)
LEMMA NextKeepsStep ==
    ASSUME StepInv, Next
    PROVE  StepInv'
<1>1. PICK c \in Calls : Begin(c) \/ Continue(c)
  BY DEF Next
<1>2. TreeInv'
  BY NextKeeps DEF StepInv
<1>3. Base /\ TreeInv /\ Typed
  BY DEF StepInv, TreeInv
<1>4. Typed'
  BY <1>1, <1>3, BeginTyped, ContinueTyped
<1>5. ASSUME overlap' = {} PROVE CalmInv'
  <2>1. overlap = {} /\ CalmInv
    BY <1>1, <1>5, OverlapStays DEF StepInv
  <2> QED
    BY <1>1, <1>3, <1>5, <2>1, BeginKeepsCalm, ContinueKeepsCalm
<1> QED
  BY <1>2, <1>4, <1>5 DEF StepInv

(* A stuttering step keeps it too.                                         *)
LEMMA StutterKeepsStep ==
    ASSUME StepInv, UNCHANGED vars
    PROVE  StepInv'
<1>1. /\ UNCHANGED <<epics, parent, estatus, grouped>> /\ UNCHANGED <<tasks, home, tstatus, repo>>
      /\ UNCHANGED <<todo, about, begun>> /\ UNCHANGED <<excused, overlap, lost>>
  BY DEF vars, tree, board, handlers, history
<1>2. TreeInv'
  BY StutterKeeps DEF StepInv
<1>3. Typed'
  BY <1>1 DEF StepInv, Typed, HandlersTyped, Busy
<1>4. ASSUME overlap' = {} PROVE CalmInv'
  <2>1. CalmInv /\ Manual \subseteq epics'
    BY <1>1, <1>4 DEF StepInv, CalmInv
  <2>2. \A c \in Calls : MoveTells(c)' <=> MoveTells(c)
    BY <1>1 DEF MoveTells, Mover, Next1, Busy, Arg
  <2>3. \A e : InStep(e)' <=> InStep(e)
    BY <1>1 DEF InStep, ActiveChildren, SubEpics, TasksOf
  <2>4. \A c, e : Answers(c, e)' <=> Answers(c, e)
    BY <1>1 DEF Answers
  <2> QED
    BY <1>1, <2>1, <2>2, <2>3, <2>4 DEF CalmInv
<1> QED
  BY <1>2, <1>3, <1>4 DEF StepInv

(* EpicsInStep: once no handler runs, and if no two overlapped on a task   *)
(* or on the hierarchy, the handlers of service/tasks/crud.rs, epics.rs    *)
(* and grouping.rs have made every recalculate_epic_status that they owed: *)
(* an epic is done exactly when its active children are, except where its  *)
(* status was set by hand since, or a reroute unarchived a group of it and *)
(* returned.                                                               *)
THEOREM EpicsStayInStep ==
    Spec => []EpicsInStep
<1>1. Init => StepInv
  BY InitIsCalm
<1>2. StepInv /\ [Next]_vars => StepInv'
  BY NextKeepsStep, StutterKeepsStep
<1>3. StepInv => EpicsInStep
  BY StepInvSettles
<1> QED
  BY <1>1, <1>2, <1>3, PTL DEF Spec

=============================================================================
