------------------------ MODULE MCInferenceAttempts ------------------------
(* Two accounts of one backend at first.  Two requests: a stream that can     *)
(* only be rendered for that backend, beside one that is pinned to an         *)
(* account; or one of the two alone; or a single proxied GET.                 *)
EXTENDS InferenceAttempts, TLC

CONSTANTS r1, r2, a1, a2, chat, responses

MCMixes == {(r1 :> {"streaming"}) @@ (r2 :> {"pinned"}),
            (r1 :> {"streaming"}) @@ (r2 :> {"absent"}),
            (r1 :> {"absent"}) @@ (r2 :> {"pinned"}),
            (r1 :> {"proxied"}) @@ (r2 :> {"absent"})}
MCRenderable == [r \in Requests |-> IF r = r1 THEN {responses} ELSE Backends]
MCRetries == [a \in Accounts |-> IF a = a1 THEN Unset ELSE 0]
MCFirstCatalog == [a \in Accounts |-> responses]

(* Bound: the pin is to account a1 and to the backend it offers; the accounts *)
(* have been idle for long when a request begins alone, and not when there    *)
(* are two.                                                                   *)
FirstInit ==
    /\ Init
    /\ \A r \in Pinned : loop[r].pin = a1 /\ loop[r].expected = responses
    /\ LET since == IF \E r \in Requests : "absent" \in role[r] THEN "longAgo" ELSE "recent"
       IN  lastInference = [a \in Accounts |-> since]
FirstSpec == FirstInit /\ [][Next]_vars /\ Fairness
=============================================================================
