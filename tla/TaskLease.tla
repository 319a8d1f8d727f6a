------------------------------ MODULE TaskLease -----------------------------
(***************************************************************************)
(* What the dispatch claim promises about one task, whatever the number of *)
(* callers: the right to provision it is a lease that one caller at a time *)
(* holds, and that ends either in a launched agent, after which nobody     *)
(* else may acquire it, or back where it was.                              *)
(***************************************************************************)
CONSTANT Callers

VARIABLE lease      \* [state |-> "free" | "held" | "launched", by |-> its holder]

Free == [state |-> "free"]
Held(c) == [state |-> "held", by |-> c]
Launched == [state |-> "launched"]

LeaseInit == lease \in {Free, Launched}
Acquire(c) == lease = Free /\ lease' = Held(c)
Return(c) == lease = Held(c) /\ lease' = Free
Launch(c) == lease = Held(c) /\ lease' = Launched
LeaseNext == \E c \in Callers : Acquire(c) \/ Return(c) \/ Launch(c)

LeaseSpec == LeaseInit /\ [][LeaseNext]_lease
=============================================================================
