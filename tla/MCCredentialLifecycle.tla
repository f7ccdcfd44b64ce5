----------------------- MODULE MCCredentialLifecycle -----------------------
(* Small instances of CredentialLifecycle for TLC. *)
EXTENDS CredentialLifecycle, TLC

CONSTANTS req1, req2, loop, admin

RequestsAndLoop == {req1, req2, loop}
Everybody == {req1, loop, admin}
LoopAndRequest == {req1, loop}

RequestsLoopRoles == [t \in {req1, req2, loop} |->
                        IF t = loop THEN {"scan", "due", "refresh"} ELSE {"use"}]
EverybodyRoles == [t \in Everybody |->
                     CASE t = req1 -> {"use"}
                       [] t = loop -> {"scan", "due"}
                       [] t = admin -> {"import", "delete"}]
LoopRequestRoles == [t \in LoopAndRequest |->
                       IF t = loop THEN {"scan", "due", "refresh"} ELSE {"use"}]

ScanOnlyRoles == [t \in Everybody |->
                    CASE t = req1 -> {"use"}
                      [] t = loop -> {"scan"}
                      [] t = admin -> {"import", "delete"}]

(* Bound: the administrator imports before the outside event and deletes      *)
(* after it.                                                                 *)
ImportsFirst ==
    pc[admin] = "idle" =>
        /\ pc'[admin] = "importStart" => events = 0
        /\ pc'[admin] = "deleteStart" => events > 0

=============================================================================
