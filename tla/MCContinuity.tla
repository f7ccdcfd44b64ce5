---------------------------- MODULE MCContinuity ----------------------------
(* Small instances of Continuity for TLC. *)
EXTENDS Continuity, TLC

CONSTANTS q1, q2, q3, q4, accountA, accountB, none

RequestSymmetry == Permutations(Requests)
Mixed == {[a \in Accounts |-> IF a = accountA THEN "responses" ELSE "chat"]}
AllResponses == {[a \in Accounts |-> "responses"]}

(* Bound: at most one request of the public namespace, and that one alone.    *)
PublicAlone ==
    LET Busy == {r \in Requests : pc'[r] \notin {"idle", "done", "failed"}}
        Public == {r \in Requests : asked'[r].tenant = "public" /\ pc'[r] \notin {"idle", "failed"}}
    IN  /\ Cardinality(Public) <= 1
        /\ Public \cap Busy # {} => Busy \subseteq Public
=============================================================================
