--------------------------- MODULE MCPoolCapacity ---------------------------
(* Small instances of PoolCapacity for TLC. *)
EXTENDS PoolCapacity, TLC

CONSTANTS r1, r2, r3

Pool(mode) == [kind |-> "pool", mode |-> mode, target |-> None]
Pinned(a) == [kind |-> "pinned", mode |-> "none", target |-> a]
Metadata(a) == [kind |-> "metadata", mode |-> "none", target |-> a]

AnyJob == {Pool("none"), Pool("soft"), Pool("hard"), Pinned(1), Metadata(1)}
PlainJobs == {Pool("none")}

OneBackend == <<{1, 2}>>
SplitBackends == <<{1}, {2}>>

(* Every access token starts out usable. *)
UsableInit == Init /\ usable = [a \in Accounts |-> TRUE]
UsableSpec == UsableInit /\ [][Next]_vars
FairUsableSpec == UsableSpec /\ Fairness

(* Bound: after the outside event one of the requests is a plain one, and     *)
(* none has soft affinity; every pair of jobs runs without it.               *)
Plain(j) == j.kind = "pool" /\ j.mode = "none"
FewJobs ==
    events' > 0 =>
        /\ \E r \in Requests : Plain(job'[r])
        /\ \A r \in Requests : job'[r].mode # "soft"

RequestSymmetry == Permutations(Requests)
=============================================================================
