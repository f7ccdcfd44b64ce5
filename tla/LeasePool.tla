------------------------------ MODULE LeasePool ------------------------------
(***************************************************************************)
(* What the credential pool promises about leases, without scheduling: an  *)
(* account carries a set of leases, a request holds at most one of them,   *)
(* and an ordinary request is granted a lease only while its account       *)
(* carries fewer than Limit.  Exempt requests (catalog discovery) are      *)
(* granted at any load.                                                    *)
(***************************************************************************)
EXTENDS Naturals, FiniteSets

CONSTANTS Accounts,  (* the accounts that can be leased      *)
          Requests,  (* the goroutines that ask for a lease  *)
          Limit      (* GROK_ACCOUNT_MAX_INFLIGHT            *)

VARIABLES leased,    (* leased[a]: the requests that hold a lease on a *)
          exempt     (* the requests the limit does not apply to       *)

vars == <<leased, exempt>>

Holds(r) == \E a \in Accounts : r \in leased[a]

Init ==
    /\ leased = [a \in Accounts |-> {}]
    /\ exempt = {}

(* What a request is for can change only while it holds nothing. *)
Classify(r) ==
    /\ ~Holds(r)
    /\ exempt' \in {exempt \cup {r}, exempt \ {r}}
    /\ UNCHANGED leased

Grant(r, a) ==
    /\ ~Holds(r)
    /\ r \in exempt \/ Cardinality(leased[a]) < Limit
    /\ leased' = [leased EXCEPT ![a] = @ \cup {r}]
    /\ UNCHANGED exempt

Return(r, a) ==
    /\ r \in leased[a]
    /\ leased' = [leased EXCEPT ![a] = @ \ {r}]
    /\ UNCHANGED exempt

Next ==
    \E r \in Requests :
        \/ Classify(r)
        \/ \E a \in Accounts : Grant(r, a) \/ Return(r, a)

Spec == Init /\ [][Next]_vars
=============================================================================
