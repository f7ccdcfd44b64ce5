------------------------ MODULE CredentialLifecycle ------------------------
(***************************************************************************)
(* The life of one credential: the OAuth refresh and its backoff, recovery *)
(* after a 401, disabling, cooldowns, deletion, import, the directory scan,*)
(* the persisted scheduler state, and the auth file that is shared with    *)
(* sibling processes under a file lock.                                    *)
(*                                                                         *)
(* A version stands for one pair of access and refresh token; 0 is no      *)
(* credential.  An in-memory account is an object that goroutines keep     *)
(* pointers to after the pool has dropped it.  What is compared for        *)
(* equality with an earlier reading is represented by a flag that is       *)
(* cleared when the original changes: sameGen[t] for the generation t      *)
(* leased, and match for the size and mtime of the auth file.  The code    *)
(* between two lock operations on account.mu, Pool.mu, the refresh lock    *)
(* and the file lock is one step.  Reasons are kept where the code         *)
(* compares them; model cooldowns and other accounts are left out.         *)
(***************************************************************************)
EXTENDS Naturals, FiniteSets

CONSTANTS Threads,      (* goroutines of this process                          *)
          Roles,        (* Roles[t]: the operations t may start                *)
          MaxVersion,   (* bound: token pairs ever issued                      *)
          MaxFailures,  (* maxConsecutiveRefreshFailures                       *)
          Faults,       (* the faults and outside events a run considers       *)
          MaxEvents     (* bound: outside events                               *)

Versions == 1..MaxVersion
None == 0
Objects == 1..(Cardinality(Threads) + 1)
Free == "free"
Sibling == "sibling"

Ops == {"use", "due", "refresh", "delete", "import", "scan"}
FaultKinds == {"transient", "lostResponse", "writeFails", "cancel", "rateLimit",
               "quota", "expire", "revoke", "restart", "rotate", "login", "logout"}

ASSUME ConstantsAssumption ==
    /\ IsFiniteSet(Threads)
    /\ Roles \in [Threads -> SUBSET Ops]
    /\ MaxVersion \in Nat \ {0}
    /\ MaxFailures \in Nat \ {0}
    /\ Faults \subseteq FaultKinds
    /\ MaxEvents \in Nat
    /\ Free \notin Threads /\ Sibling \notin Threads

VARIABLES
    pc,         (* where each goroutine is                                      *)
    my,         (* its local variables                                          *)
    sameGen,    (* the generation it observed is still that of its object       *)
    objects,    (* the account structs                                          *)
    current,    (* Pool.accounts: the object of this account                    *)
    states,     (* Pool.states: the entry of this account                       *)
    cache,      (* Pool.files: the entry of its auth file                       *)
    reading,    (* what the scan under mutationMu has read                      *)
    mutex,      (* mutationMu                                                   *)
    stateFile,  (* .grokcli2api-state.json                                      *)
    file,       (* the credential in the auth file                              *)
    flock,      (* the holder of the lock file                                  *)
    refreshTok, (* what the identity provider thinks of each refresh token      *)
    access,     (* what each access token is worth                              *)
    events      (* outside events so far                                        *)

memory == <<objects, current, states, cache, reading, mutex>>
disk == <<stateFile, file, flock>>
tokens == <<refreshTok, access>>
vars == <<pc, my, sameGen, objects, current, states, cache, reading, mutex,
          stateFile, file, flock, refreshTok, access, events>>

Reasons == {"enabled", "removed", "restored", "refresh_invalid", "refresh_exhausted",
            "authentication_failed", "quota_exhausted"}
Cooldowns == {"none", "rate_limited", "refresh_backoff"}
Penalties == (Reasons \ {"enabled", "removed", "restored"}) \cup (Cooldowns \ {"none"})

EmptyFrame == [op |-> "none", obj |-> None, leased |-> None, cred |-> None, next |-> None,
               again |-> FALSE, then |-> "end", keep |-> FALSE, penalty |-> "none"]
EmptyState == [disabled |-> FALSE, fingerprint |-> None, cool |-> "none"]
NewObject(v) == [cred |-> v, status |-> "enabled", cool |-> "none", deleting |-> FALSE,
                 locked |-> FALSE, fails |-> 0]

-----------------------------------------------------------------------------
(* Helpers.                                                                  *)

Go(t, from, to) == pc[t] = from /\ pc' = [pc EXCEPT ![t] = to]

(* t's operation returns to its caller. *)
Return(t) == /\ pc' = [pc EXCEPT ![t] = "idle"]
             /\ my' = [my EXCEPT ![t] = EmptyFrame]
             /\ sameGen' = [sameGen EXCEPT ![t] = FALSE]

Usable(v) == access[v] \in {"fresh", "due", "revoked"}
NeedsRefresh(v) == access[v] \in {"due", "expired"}
Rejected(v) == access[v] \in {"revoked", "expired"}
Unissued == {v \in Versions : refreshTok[v] = "unissued"}
NextVersion == CHOOSE v \in Unissued : \A w \in Unissued : v <= w

(* account.generation.Add(1): who observed an earlier one can tell. *)
Bumped(e) == [t \in Threads |-> sameGen[t] /\ my[t].obj # e]

(* Memory for a new account struct: one that nobody points to. *)
Unused == {e \in Objects : e # current /\ \A t \in Threads : my[t].obj # e}
Fresh == CHOOSE e \in Unused : \A f \in Unused : e <= f

(* The auth file gets a new size and mtime. *)
FileReplaced(v) == /\ file' = v
                   /\ cache' = [cache EXCEPT !.match = FALSE]
                   /\ reading' = [reading EXCEPT !.match = FALSE]

Interruptible(t) == "cancel" \in Faults /\ my[t].op # "due"
Forced(t) == my[t].then = "retry" \/ my[t].op = "refresh"

Init ==
    /\ pc = [t \in Threads |-> "idle"]
    /\ my = [t \in Threads |-> EmptyFrame]
    /\ sameGen = [t \in Threads |-> FALSE]
    /\ objects = [e \in Objects |-> NewObject(IF e = 1 THEN 1 ELSE None)]
    /\ current = 1
    /\ states = EmptyState
    /\ cache = [has |-> TRUE, match |-> TRUE, cred |-> 1]
    /\ reading = [cred |-> None, match |-> FALSE]
    /\ mutex = Free
    /\ stateFile = EmptyState
    /\ file = 1
    /\ flock = Free
    /\ refreshTok = [v \in Versions |-> IF v = 1 THEN "accepted" ELSE "unissued"]
    /\ access = [v \in Versions |-> "fresh"]
    /\ events = 0

-----------------------------------------------------------------------------
(* A goroutine starts an operation: a request uses the account, the          *)
(* background loop refreshes what is due or scans the directory, the         *)
(* catalog refresh forces a refresh, the administrator imports or deletes.   *)

Start(t, op) ==
    /\ op \in Roles[t]
    /\ Go(t, "idle", CASE op = "use" -> "acquire"
                       [] op \in {"due", "refresh"} -> "lookup"
                       [] op = "delete" -> "deleteStart"
                       [] op = "import" -> "importStart"
                       [] op = "scan" -> "scanStart")
    /\ my' = [my EXCEPT ![t].op = op]
    /\ UNCHANGED <<sameGen, memory, disk, tokens, events>>

Available == /\ current # None
             /\ objects[current].status = "enabled"
             /\ objects[current].cool = "none"

(* Acquire, for this account, and ensureUsable; PoolCapacity has the rest. *)
Acquire(t) ==
    /\ pc[t] = "acquire"
    /\ \/ /\ Available
          /\ Go(t, "acquire", IF Usable(objects[current].cred) THEN "lease" ELSE "enter")
          /\ my' = [my EXCEPT ![t].obj = current, ![t].then = "lease"]
          /\ UNCHANGED sameGen
       \/ ~Available /\ Return(t)
    /\ UNCHANGED <<memory, disk, tokens, events>>

(* newLease: the credential and its generation, read together. *)
Lease(t) ==
    /\ Go(t, "lease", "send")
    /\ my' = [my EXCEPT ![t].leased = objects[my[t].obj].cred]
    /\ sameGen' = [sameGen EXCEPT ![t] = TRUE]
    /\ UNCHANGED <<memory, disk, tokens, events>>

(* The upstream's answer, and what the retry loop does to the account.       *)
(* RefreshIfUnchanged looks the account up again by its id; the generations  *)
(* of two objects can be equal by chance.                                    *)
Send(t) ==
    /\ pc[t] = "send"
    /\ \/ /\ ~Rejected(my[t].leased)
          /\ Return(t)
       \/ /\ Rejected(my[t].leased) /\ ~my[t].again /\ current # None
          /\ Go(t, "send", "enter")
          /\ my' = [my EXCEPT ![t].again = TRUE, ![t].then = "retry", ![t].obj = current]
          /\ \E equal \in BOOLEAN :
                sameGen' = [sameGen EXCEPT ![t] = IF my[t].obj = current THEN @ ELSE equal]
       \/ /\ Rejected(my[t].leased) /\ (my[t].again \/ current = None)
          /\ Go(t, "send", "penalty")
          /\ my' = [my EXCEPT ![t].penalty = "authentication_failed"]
          /\ UNCHANGED sameGen
       \/ /\ "rateLimit" \in Faults
          /\ Go(t, "send", "penalty")
          /\ my' = [my EXCEPT ![t].penalty = "rate_limited"]
          /\ UNCHANGED sameGen
       \/ /\ "quota" \in Faults
          /\ Go(t, "send", "deleteStart")
          /\ UNCHANGED <<my, sameGen>>
    /\ UNCHANGED <<memory, disk, tokens, events>>

(* refreshAllDue, or the forced refresh of a catalog request. *)
Lookup(t) ==
    /\ pc[t] = "lookup"
    /\ LET due == /\ current # None
                  /\ \/ my[t].op = "refresh"
                     \/ /\ objects[current].status = "enabled"
                        /\ NeedsRefresh(objects[current].cred)
       IN \/ /\ due
             /\ Go(t, "lookup", "enter")
             /\ my' = [my EXCEPT ![t].obj = current]
             /\ UNCHANGED sameGen
          \/ ~due /\ Return(t)
    /\ UNCHANGED <<memory, disk, tokens, events>>

-----------------------------------------------------------------------------
(* refreshCredential, and credential.refresh inside it.                      *)

(* Wrong variant: the generation is not compared. *)
EnterUncompared(t) ==
    LET e == my[t].obj
    IN /\ Go(t, "enter", "check")
       /\ ~objects[e].locked
       /\ objects' = [objects EXCEPT ![e].locked = TRUE]
       /\ UNCHANGED <<my, sameGen, current, states, cache, reading, mutex, disk, tokens, events>>

(* acquireRefresh; another refresh may have been enough meanwhile. *)
Enter(t) ==
    LET e == my[t].obj
        enough == my[t].then = "retry" /\ ~sameGen[t]
    IN /\ Go(t, "enter", IF enough THEN "refreshed" ELSE "check")
       /\ ~objects[e].locked
       /\ objects' = [objects EXCEPT ![e].locked = TRUE]
       /\ UNCHANGED <<my, sameGen, current, states, cache, reading, mutex, disk, tokens, events>>

Check(t) ==
    LET a == objects[my[t].obj]
        to == IF a.status # "enabled" THEN "refused"
              ELSE IF ~Forced(t) /\ ~NeedsRefresh(a.cred) THEN "refreshed" ELSE "flock"
    IN /\ Go(t, "check", to)
       /\ my' = [my EXCEPT ![t].cred = a.cred]
       /\ UNCHANGED <<sameGen, memory, disk, tokens, events>>

Flock(t) ==
    /\ Go(t, "flock", "reread")
    /\ flock = Free
    /\ flock' = t
    /\ UNCHANGED <<my, sameGen, memory, stateFile, file, tokens, events>>

(* Wrong variant: what a sibling wrote is not read before the exchange. *)
RereadNothing(t) ==
    /\ Go(t, "reread", "exchange")
    /\ UNCHANGED <<my, sameGen, memory, disk, tokens, events>>

(* Under the file lock: adopt what a sibling has refreshed, else refresh     *)
(* what is on disk, or what is in memory if the file has lost it.            *)
Reread(t) ==
    LET adopt == file # None /\ file # my[t].cred /\ Usable(file)
    IN /\ Go(t, "reread", IF adopt THEN "apply" ELSE "exchange")
       /\ my' = [my EXCEPT ![t].next = IF adopt THEN file ELSE None,
                           ![t].cred = IF adopt \/ file = None THEN @ ELSE file]
       /\ flock' = IF adopt THEN Free ELSE flock
       /\ UNCHANGED <<sameGen, memory, stateFile, file, tokens, events>>

(* The provider rotates the token: the old one is used up. *)
Rotate(v, worth) == /\ refreshTok[v] = "accepted"
                    /\ Unissued # {}
                    /\ refreshTok' = [refreshTok EXCEPT ![v] = worth, ![NextVersion] =
                                          IF worth = "spent" THEN "accepted" ELSE "lost"]

Exchange(t) ==
    /\ Go(t, "exchange", "write")
    /\ Rotate(my[t].cred, "spent")
    /\ my' = [my EXCEPT ![t].next = NextVersion]
    /\ UNCHANGED <<sameGen, memory, disk, access, events>>

(* The provider has rotated but its answer is lost; the same token is sent   *)
(* again, up to three times.                                                 *)
LoseResponse(t) ==
    /\ "lostResponse" \in Faults
    /\ Go(t, "exchange", "exchange")
    /\ Rotate(my[t].cred, "lost")
    /\ UNCHANGED <<my, sameGen, memory, disk, access, events>>

(* A refresh that failed for a reason of its own is counted against the      *)
(* account, which cools down, or is disabled when the failure is permanent   *)
(* or the last of MaxFailures in a row.  A permanent failure counts as well. *)
Failed(t, permanent) ==
    LET e == my[t].obj
        penalty == IF permanent THEN "refresh_invalid"
                   ELSE IF objects[e].fails + 1 >= MaxFailures THEN "refresh_exhausted"
                   ELSE "refresh_backoff"
    IN /\ pc' = [pc EXCEPT ![t] = "penalty"]
       /\ my' = [my EXCEPT ![t].penalty = penalty]
       /\ objects' = [objects EXCEPT ![e].fails = @ + 1]
       /\ UNCHANGED <<sameGen, current, states, mutex, stateFile, access>>

(* invalid_grant or invalid_client. *)
PermanentFailure(t) ==
    /\ pc[t] = "exchange"
    /\ refreshTok[my[t].cred] # "accepted"
    /\ Failed(t, TRUE)
    /\ flock' = Free
    /\ UNCHANGED <<cache, reading, file, refreshTok, events>>

(* The lock, the endpoint or the provider times out or answers nonsense. *)
TransientFailure(t) ==
    /\ \/ "transient" \in Faults /\ pc[t] = "exchange"
       \/ pc[t] = "exchange" /\ refreshTok[my[t].cred] = "accepted" /\ Unissued = {}
       \/ pc[t] = "flock" /\ flock # Free
    /\ Failed(t, FALSE)
    /\ flock' = IF flock = t THEN Free ELSE flock
    /\ UNCHANGED <<cache, reading, file, refreshTok, events>>

(* The caller's context ends; that is not counted. *)
Cancelled(t) ==
    /\ Interruptible(t)
    /\ pc[t] \in {"flock", "exchange"}
    /\ Go(t, pc[t], "refused")
    /\ flock' = IF flock = t THEN Free ELSE flock
    /\ UNCHANGED <<my, sameGen, memory, stateFile, file, tokens, events>>

(* writeCredentialAtomicMode, read back, and the file lock released. *)
Write(t) ==
    /\ Go(t, "write", "apply")
    /\ FileReplaced(my[t].next)
    /\ flock' = Free
    /\ UNCHANGED <<my, sameGen, objects, current, states, mutex, stateFile, tokens, events>>

WriteFails(t) ==
    /\ "writeFails" \in Faults
    /\ pc[t] = "write"
    /\ Failed(t, FALSE)
    /\ refreshTok' = [refreshTok EXCEPT ![my[t].cred] = "lost", ![my[t].next] = "lost"]
    /\ flock' = Free
    /\ UNCHANGED <<cache, reading, file, events>>

(* The new credential goes into the account, under account.mu. *)
Apply(t) ==
    LET e == my[t].obj
        keep == objects[e].cool = "rate_limited"
        counted == [objects EXCEPT ![e].fails = 0]
    IN /\ pc[t] = "apply"
       /\ \/ /\ objects[e].deleting
             /\ Go(t, "apply", "refused")
             /\ objects' = counted
             /\ UNCHANGED <<my, sameGen>>
          \/ /\ ~objects[e].deleting
             /\ Go(t, "apply", "applyStates")
             /\ objects' = [counted EXCEPT ![e].cred = my[t].next, ![e].status = "enabled",
                                           ![e].cool = IF keep THEN @ ELSE "none"]
             /\ my' = [my EXCEPT ![t].keep = keep]
             /\ sameGen' = Bumped(e)
       /\ UNCHANGED <<current, states, cache, reading, mutex, disk, tokens, events>>

(* Then the scheduler state and the file cache, under Pool.mu.  The size and *)
(* mtime are those the file has now.                                         *)
ApplyStates(t) ==
    /\ Go(t, "applyStates", "refreshed")
    /\ states' = IF my[t].keep THEN states ELSE EmptyState
    /\ cache' = IF cache.has /\ file # None
                THEN [cache EXCEPT !.match = TRUE, !.cred = my[t].next] ELSE cache
    /\ UNCHANGED <<my, sameGen, objects, current, reading, mutex, disk, tokens, events>>

Refreshed(t) ==
    /\ pc[t] = "refreshed"
    /\ objects' = [objects EXCEPT ![my[t].obj].locked = FALSE]
    /\ \/ my[t].then = "end" /\ Return(t)
       \/ /\ my[t].then # "end"
          /\ Go(t, "refreshed", IF my[t].then = "lease" THEN "lease" ELSE "acquire")
          /\ UNCHANGED <<my, sameGen>>
    /\ UNCHANGED <<current, states, cache, reading, mutex, disk, tokens, events>>

(* What the caller of a refresh does with an error: after a 401 any error    *)
(* disables the account.                                                     *)
GiveUp(t) ==
    \/ my[t].then # "retry" /\ Return(t)
    \/ /\ my[t].then = "retry"
       /\ pc' = [pc EXCEPT ![t] = "penalty"]
       /\ my' = [my EXCEPT ![t].penalty = "authentication_failed"]
       /\ UNCHANGED sameGen

(* Wrong variant: the refresh lock is kept on the error path. *)
RefusedKeepsLock(t) ==
    /\ pc[t] = "refused"
    /\ GiveUp(t)
    /\ UNCHANGED <<memory, disk, tokens, events>>

Refused(t) ==
    /\ pc[t] = "refused"
    /\ objects' = [objects EXCEPT ![my[t].obj].locked = FALSE]
    /\ GiveUp(t)
    /\ UNCHANGED <<current, states, cache, reading, mutex, disk, tokens, events>>

EnterCancelled(t) ==
    /\ Interruptible(t)
    /\ pc[t] = "enter"
    /\ GiveUp(t)
    /\ UNCHANGED <<memory, disk, tokens, events>>

-----------------------------------------------------------------------------
(* Disable and MarkCooldown: the account under account.mu, the scheduler     *)
(* state under Pool.mu, then the state file.                                 *)

AfterPenalty(t) ==
    \/ /\ my[t].penalty \in {"refresh_invalid", "refresh_exhausted", "refresh_backoff"}
       /\ pc' = [pc EXCEPT ![t] = "refused"]
       /\ UNCHANGED <<my, sameGen>>
    \/ /\ my[t].penalty \notin {"refresh_invalid", "refresh_exhausted", "refresh_backoff"}
       /\ Return(t)

Penalty(t) ==
    LET p == my[t].penalty
        disables == current # None /\ p \in Reasons /\ objects[current].status # p
        cools == current # None /\ p \in Cooldowns
        needless == cools => objects[current].cool # "none"
    IN
    /\ pc[t] = "penalty"
    /\ \/ /\ disables
          /\ objects' = [objects EXCEPT ![current].status = p]
          /\ my' = [my EXCEPT ![t].cred = objects[current].cred]
          /\ Go(t, "penalty", "penaltyStates")
          /\ UNCHANGED sameGen
       \/ /\ cools                             \* starts, or is extended
          /\ objects' = [objects EXCEPT ![current].cool = p]
          /\ Go(t, "penalty", "penaltyStates")
          /\ UNCHANGED <<my, sameGen>>
       \/ /\ ~disables /\ needless
          /\ AfterPenalty(t)
          /\ UNCHANGED objects
    /\ UNCHANGED <<current, states, cache, reading, mutex, disk, tokens, events>>

PenaltyStates(t) ==
    /\ Go(t, "penaltyStates", "penaltyPersist")
    /\ states' = IF my[t].penalty \in Cooldowns
                 THEN [states EXCEPT !.cool = my[t].penalty]
                 ELSE [states EXCEPT !.disabled = TRUE, !.fingerprint = my[t].cred]
    /\ UNCHANGED <<my, sameGen, objects, current, cache, reading, mutex, disk, tokens, events>>

PenaltyPersist(t) ==
    /\ pc[t] = "penaltyPersist"
    /\ stateFile' = states
    /\ AfterPenalty(t)
    /\ UNCHANGED <<memory, file, flock, tokens, events>>

-----------------------------------------------------------------------------
(* DeleteCredential.                                                         *)

(* The administrator sees the error; after a rejection by the upstream       *)
(* deleteCredentialOrDisable disables the account instead.                   *)
DeleteStops(t, notFound) ==
    \/ (my[t].op # "use" \/ notFound) /\ Return(t)
    \/ /\ my[t].op = "use" /\ ~notFound
       /\ pc' = [pc EXCEPT ![t] = "penalty"]
       /\ my' = [my EXCEPT ![t].penalty = "quota_exhausted"]
       /\ UNCHANGED sameGen

(* Wrong variant: the account is assumed to be there. *)
DeleteStartUnchecked(t) ==
    /\ Go(t, "deleteStart", "mark")
    /\ mutex = Free
    /\ mutex' = t
    /\ my' = [my EXCEPT ![t].obj = current, ![t].again = FALSE]
    /\ UNCHANGED <<sameGen, objects, current, states, cache, reading, disk, tokens, events>>

DeleteStart(t) ==
    /\ pc[t] = "deleteStart"
    /\ mutex = Free
    /\ \/ /\ current # None
          /\ Go(t, "deleteStart", "mark")
          /\ mutex' = t
          /\ my' = [my EXCEPT ![t].obj = current, ![t].again = FALSE]
          /\ UNCHANGED sameGen
       \/ /\ current = None
          /\ DeleteStops(t, TRUE)
          /\ UNCHANGED mutex
    /\ UNCHANGED <<objects, current, states, cache, reading, disk, tokens, events>>

(* markAccountDeleting, before and after the refresh lock is taken. *)
Mark(t) ==
    LET e == my[t].obj
    IN /\ Go(t, "mark", "markStates")
       /\ objects' = [objects EXCEPT ![e].deleting = TRUE, ![e].status = "removed"]
       /\ my' = [my EXCEPT ![t].cred = objects[e].cred]
       /\ sameGen' = Bumped(e)
       /\ UNCHANGED <<current, states, cache, reading, mutex, disk, tokens, events>>

MarkStates(t) ==
    /\ Go(t, "markStates", "markPersist")
    /\ states' = [states EXCEPT !.disabled = TRUE, !.fingerprint = my[t].cred]
    /\ UNCHANGED <<my, sameGen, objects, current, cache, reading, mutex, disk, tokens, events>>

MarkPersist(t) ==
    /\ Go(t, "markPersist", IF my[t].again THEN "deleteFile" ELSE "deleteLock")
    /\ stateFile' = states
    /\ UNCHANGED <<my, sameGen, memory, file, flock, tokens, events>>

(* Wrong variant: deletion does not wait for a refresh in progress. *)
DeleteDuringRefresh(t) ==
    LET e == my[t].obj
    IN /\ Go(t, "deleteLock", "mark")
       /\ objects' = [objects EXCEPT ![e].locked = TRUE]
       /\ my' = [my EXCEPT ![t].again = TRUE]
       /\ UNCHANGED <<sameGen, current, states, cache, reading, mutex, disk, tokens, events>>

DeleteLock(t) ==
    LET e == my[t].obj
    IN /\ Go(t, "deleteLock", "mark")
       /\ ~objects[e].locked
       /\ objects' = [objects EXCEPT ![e].locked = TRUE]
       /\ my' = [my EXCEPT ![t].again = TRUE]
       /\ UNCHANGED <<sameGen, current, states, cache, reading, mutex, disk, tokens, events>>

Unlock(t) ==
    /\ mutex' = Free
    /\ objects' = [objects EXCEPT ![my[t].obj].locked = FALSE]

(* The file is looked at again under its lock, and loses the credential. *)
DeleteFile(t) ==
    /\ Go(t, "deleteFile", "deleteStates")
    /\ flock = Free /\ file # None
    /\ file' = None
    /\ cache' = [cache EXCEPT !.has = FALSE, !.match = FALSE]
    /\ reading' = [reading EXCEPT !.match = FALSE]
    /\ UNCHANGED <<my, sameGen, objects, current, states, mutex, stateFile, flock, tokens, events>>

(* There is no such file: not found if it was gone already, an error if it   *)
(* went while this process waited for the file lock.                         *)
DeleteFindsNothing(t) ==
    /\ pc[t] = "deleteFile"
    /\ file = None
    /\ \E notFound \in BOOLEAN : DeleteStops(t, notFound)
    /\ Unlock(t)
    /\ UNCHANGED <<current, states, cache, reading, disk, tokens, events>>

(* The wait for a lock ends with the caller's context, or the file cannot be *)
(* written: the account stays marked.                                        *)
DeleteFails(t) ==
    /\ "cancel" \in Faults
    /\ pc[t] \in {"deleteLock", "deleteFile"}
    /\ DeleteStops(t, FALSE)
    /\ mutex' = Free
    /\ objects' = IF pc[t] = "deleteFile"
                  THEN [objects EXCEPT ![my[t].obj].locked = FALSE] ELSE objects
    /\ UNCHANGED <<current, states, cache, reading, disk, tokens, events>>

DeleteStates(t) ==
    /\ Go(t, "deleteStates", "scanRead")
    /\ states' = EmptyState
    /\ UNCHANGED <<my, sameGen, objects, current, cache, reading, mutex, disk, tokens, events>>

-----------------------------------------------------------------------------
(* ImportCredentials: a new login, or the tokens that are there already.     *)

ImportStart(t) ==
    /\ Go(t, "importStart", IF current = None THEN "importWrite" ELSE "importLock")
    /\ mutex = Free
    /\ mutex' = t
    /\ \/ /\ Unissued # {}
          /\ my' = [my EXCEPT ![t].obj = current, ![t].next = NextVersion]
          /\ refreshTok' = [refreshTok EXCEPT ![NextVersion] = "accepted"]
       \/ /\ file # None
          /\ my' = [my EXCEPT ![t].obj = current, ![t].next = file]
          /\ UNCHANGED refreshTok
    /\ UNCHANGED <<sameGen, objects, current, states, cache, reading, disk, access, events>>

(* The uploaded document does not parse. *)
ImportInvalid(t) ==
    /\ pc[t] = "importStart"
    /\ Return(t)
    /\ UNCHANGED <<memory, disk, tokens, events>>

(* Wrong variant: import does not wait for a refresh in progress. *)
ImportDuringRefresh(t) ==
    LET e == my[t].obj
    IN /\ Go(t, "importLock", "importWrite")
       /\ objects' = [objects EXCEPT ![e].locked = TRUE]
       /\ UNCHANGED <<my, sameGen, current, states, cache, reading, mutex, disk, tokens, events>>

ImportLock(t) ==
    LET e == my[t].obj
    IN /\ Go(t, "importLock", "importWrite")
       /\ ~objects[e].locked
       /\ objects' = [objects EXCEPT ![e].locked = TRUE]
       /\ UNCHANGED <<my, sameGen, current, states, cache, reading, mutex, disk, tokens, events>>

ImportFails(t) ==
    /\ "cancel" \in Faults
    /\ pc[t] \in {"importLock", "importWrite"}
    /\ mutex' = Free
    /\ objects' = IF pc[t] = "importWrite" /\ my[t].obj # None
                  THEN [objects EXCEPT ![my[t].obj].locked = FALSE] ELSE objects
    /\ Return(t)
    /\ UNCHANGED <<current, states, cache, reading, disk, tokens, events>>

(* Wrong variant: the new file has the size and mtime of the cached one. *)
ImportWriteCached(t) ==
    /\ Go(t, "importWrite", "importRevive")
    /\ flock = Free
    /\ file' = my[t].next
    /\ UNCHANGED <<my, sameGen, memory, stateFile, flock, tokens, events>>

ImportWrite(t) ==
    /\ Go(t, "importWrite", "importRevive")
    /\ flock = Free
    /\ file' = my[t].next
    /\ cache' = [cache EXCEPT !.has = FALSE, !.match = FALSE]
    /\ reading' = [reading EXCEPT !.match = FALSE]
    /\ UNCHANGED <<my, sameGen, objects, current, states, mutex, stateFile, flock, tokens, events>>

(* The tombstone of a failed deletion is lifted. *)
ImportRevive(t) ==
    /\ Go(t, "importRevive", "scanRead")
    /\ objects' = IF current = None THEN objects
                  ELSE [objects EXCEPT ![current].deleting = FALSE]
    /\ UNCHANGED <<my, sameGen, current, states, cache, reading, mutex, disk, tokens, events>>

-----------------------------------------------------------------------------
(* scanUnlocked, alone or at the end of a deletion or an import.             *)

ScanStart(t) ==
    /\ Go(t, "scanStart", "scanRead")
    /\ mutex = Free
    /\ mutex' = t
    /\ UNCHANGED <<my, sameGen, objects, current, states, cache, reading, disk, tokens, events>>

(* The file is parsed, unless its size and mtime are the cached ones. *)
ScanRead(t) ==
    /\ Go(t, "scanRead", "scanApply")
    /\ reading' = [cred |-> IF file # None /\ cache.has /\ cache.match THEN cache.cred ELSE file,
                   match |-> TRUE]
    /\ UNCHANGED <<my, sameGen, objects, current, states, cache, mutex, disk, tokens, events>>

(* What was read replaces what is in memory, whatever happened meanwhile. *)
ScanFindsNothing ==
    /\ reading.cred = None
    /\ objects' = IF current = None THEN objects
                  ELSE [objects EXCEPT ![current].status = "removed"]
    /\ current' = None
    /\ cache' = [cache EXCEPT !.has = FALSE, !.match = FALSE]
    /\ UNCHANGED <<sameGen, states>>

(* Wrong variant: new tokens enable an account that is being deleted. *)
ScanRevives ==
    LET changed == reading.cred # objects[current].cred
    IN /\ reading.cred # None /\ current # None
       /\ objects' = [objects EXCEPT ![current].cred = reading.cred,
                                     ![current].status = IF changed THEN "enabled" ELSE @,
                                     ![current].cool = IF changed THEN "none" ELSE @]
       /\ states' = IF changed THEN EmptyState ELSE states
       /\ sameGen' = IF changed THEN Bumped(current) ELSE sameGen
       /\ UNCHANGED current

ScanUpdates ==
    LET changed == reading.cred # objects[current].cred
        enable == changed /\ ~objects[current].deleting
    IN /\ reading.cred # None /\ current # None
       /\ objects' = [objects EXCEPT ![current].cred = reading.cred,
                                     ![current].status = IF enable THEN "enabled" ELSE @,
                                     ![current].cool = IF enable THEN "none" ELSE @]
       /\ states' = IF enable THEN EmptyState ELSE states
       /\ sameGen' = IF changed THEN Bumped(current) ELSE sameGen
       /\ UNCHANGED current

(* A disabled account comes back enabled only with other tokens. *)
ScanAdds ==
    LET v == reading.cred
        other == states.fingerprint # None /\ states.fingerprint # v
        account == [NewObject(v) EXCEPT
                      !.status = IF states.disabled /\ ~other THEN "restored" ELSE "enabled",
                      !.cool = IF states.disabled THEN "none" ELSE states.cool]
    IN /\ v # None /\ current = None
       /\ objects' = [objects EXCEPT ![Fresh] = account]
       /\ current' = Fresh
       /\ states' = IF states.disabled /\ other THEN EmptyState ELSE states
       /\ UNCHANGED sameGen

(* The scheduler state is saved when the number of files or accounts changed. *)
ScanApply(t) ==
    LET found == reading.cred # None
        save == cache.has # found \/ (current # None) # found
        to == IF my[t].op # "scan" /\ (save \/ my[t].op # "import") THEN "persist"
              ELSE IF save THEN "scanPersist" ELSE "leave"
    IN /\ Go(t, "scanApply", to)
       /\ \/ ScanFindsNothing
          \/ /\ ScanUpdates \/ ScanAdds
             /\ cache' = [has |-> TRUE, match |-> reading.match, cred |-> reading.cred]
       /\ reading' = [cred |-> None, match |-> FALSE]
       /\ mutex' = IF my[t].op = "scan" THEN Free ELSE mutex
       /\ UNCHANGED <<my, disk, tokens, events>>

Persist(t) ==
    /\ Go(t, "persist", "leave")
    /\ stateFile' = states
    /\ UNCHANGED <<my, sameGen, memory, file, flock, tokens, events>>

ScanPersist(t) ==
    /\ pc[t] = "scanPersist"
    /\ stateFile' = states
    /\ Return(t)
    /\ UNCHANGED <<memory, file, flock, tokens, events>>

Leave(t) ==
    /\ pc[t] = "leave"
    /\ \/ my[t].op = "scan" /\ UNCHANGED <<mutex, objects>>
       \/ /\ my[t].op # "scan"
          /\ mutex' = Free
          /\ objects' = IF my[t].obj = None THEN objects
                        ELSE [objects EXCEPT ![my[t].obj].locked = FALSE]
    /\ Return(t)
    /\ UNCHANGED <<current, states, cache, reading, disk, tokens, events>>

-----------------------------------------------------------------------------
(* Outside the pool.                                                         *)

Outside(kind) == /\ kind \in Faults
                 /\ events < MaxEvents
                 /\ events' = events + 1

(* Time passes: a token becomes due, then expires; the end of a cooldown is  *)
(* noticed wherever it is kept.                                              *)
Expire(v) ==
    /\ Outside("expire")
    /\ access[v] \in {"fresh", "due"} /\ refreshTok[v] # "unissued"
    /\ access' = [access EXCEPT ![v] = IF @ = "fresh" THEN "due" ELSE "expired"]
    /\ UNCHANGED <<pc, my, sameGen, memory, disk, refreshTok>>

Cools == {objects[e].cool : e \in Objects} \cup {states.cool, stateFile.cool}

CooldownEnds(c) ==
    LET after(x) == IF x = c THEN "none" ELSE x
    IN /\ c \in Cools
       /\ objects' = [e \in Objects |-> [objects[e] EXCEPT !.cool = after(@)]]
       /\ states' = [states EXCEPT !.cool = after(@)]
       /\ stateFile' = [stateFile EXCEPT !.cool = after(@)]
       /\ UNCHANGED <<pc, my, sameGen, current, cache, reading, mutex, file, flock, tokens, events>>

(* The upstream stops accepting an access token before it expires. *)
Revoke(v) ==
    /\ Outside("revoke")
    /\ access[v] \in {"fresh", "due"} /\ refreshTok[v] # "unissued"
    /\ access' = [access EXCEPT ![v] = "revoked"]
    /\ UNCHANGED <<pc, my, sameGen, memory, disk, refreshTok>>

(* Another program that uses the same auth file, under the same lock. *)
SiblingLocks ==
    /\ \E kind \in {"rotate", "login", "logout"} : Outside(kind)
    /\ flock = Free
    /\ flock' = Sibling
    /\ UNCHANGED <<pc, my, sameGen, memory, stateFile, file, tokens>>

SiblingActs ==
    /\ flock = Sibling
    /\ flock' = Free
    /\ \/ /\ "rotate" \in Faults /\ file # None
          /\ Rotate(file, "spent")
          /\ FileReplaced(NextVersion)
       \/ /\ "login" \in Faults /\ Unissued # {}
          /\ refreshTok' = [refreshTok EXCEPT ![NextVersion] = "accepted"]
          /\ FileReplaced(NextVersion)
       \/ /\ "logout" \in Faults
          /\ FileReplaced(None)
          /\ UNCHANGED refreshTok
       \/ UNCHANGED <<file, cache, reading, refreshTok>>
    /\ UNCHANGED <<pc, my, sameGen, objects, current, states, mutex, stateFile, access, events>>

(* The process dies, and a new one loads the state and scans the directory.  *)
(* What a refresh had not written is lost.                                   *)
Restart ==
    LET other == stateFile.fingerprint # None /\ stateFile.fingerprint # file
        kept == IF file # None /\ stateFile.disabled /\ other THEN EmptyState ELSE stateFile
        account == [NewObject(file) EXCEPT
                      !.status = IF kept.disabled THEN "restored" ELSE "enabled",
                      !.cool = IF kept.disabled THEN "none" ELSE kept.cool]
        unwritten == UNION {{my[t].cred, my[t].next} : t \in {u \in Threads : pc[u] = "write"}}
    IN /\ Outside("restart")
       /\ pc' = [t \in Threads |-> "idle"]
       /\ my' = [t \in Threads |-> EmptyFrame]
       /\ sameGen' = [t \in Threads |-> FALSE]
       /\ objects' = [e \in Objects |-> IF e = 1 /\ file # None THEN account ELSE NewObject(None)]
       /\ current' = IF file # None THEN 1 ELSE None
       /\ states' = kept
       /\ cache' = [has |-> file # None, match |-> file # None, cred |-> file]
       /\ reading' = [cred |-> None, match |-> FALSE]
       /\ mutex' = Free
       /\ stateFile' = kept
       /\ flock' = IF flock = Sibling THEN Sibling ELSE Free
       /\ refreshTok' = [v \in Versions |-> IF v \in unwritten THEN "lost" ELSE refreshTok[v]]
       /\ UNCHANGED <<file, access>>

-----------------------------------------------------------------------------

Refreshes(t) ==
    \/ Check(t) \/ Flock(t) \/ Reread(t) \/ Exchange(t) \/ LoseResponse(t)
    \/ PermanentFailure(t) \/ TransientFailure(t) \/ Write(t) \/ WriteFails(t)
    \/ Apply(t) \/ ApplyStates(t) \/ Refreshed(t) \/ Refused(t)

Deletes(t) ==
    \/ Mark(t) \/ MarkStates(t) \/ MarkPersist(t) \/ DeleteFile(t)
    \/ DeleteFindsNothing(t) \/ DeleteStates(t)

Scans(t) == ScanRead(t) \/ ScanApply(t) \/ Persist(t) \/ ScanPersist(t) \/ Leave(t)

Works(t) ==
    \/ Acquire(t) \/ Lease(t) \/ Send(t) \/ Lookup(t)
    \/ Refreshes(t) \/ Deletes(t) \/ Scans(t)
    \/ Penalty(t) \/ PenaltyStates(t) \/ PenaltyPersist(t)
    \/ ImportInvalid(t) \/ ImportWrite(t) \/ ImportRevive(t)

Locks(t) ==
    Enter(t) \/ DeleteStart(t) \/ DeleteLock(t) \/ ImportStart(t) \/ ImportLock(t) \/ ScanStart(t)

Interrupts(t) == EnterCancelled(t) \/ Cancelled(t) \/ DeleteFails(t) \/ ImportFails(t)

Environment ==
    \/ \E v \in Versions : Expire(v) \/ Revoke(v)
    \/ \E c \in Cooldowns \ {"none"} : CooldownEnds(c)
    \/ SiblingLocks \/ SiblingActs
    \/ Restart

Next ==
    \/ \E t \in Threads : \/ \E op \in Ops : Start(t, op)
                         \/ Works(t) \/ Locks(t) \/ Interrupts(t)
    \/ Environment

(* Running goroutines run; sync.Mutex and the refresh channel are handed to  *)
(* waiters in order; a sibling does not keep the file lock; the background   *)
(* ticker goes on ticking.                                                   *)
Fairness ==
    /\ \A t \in Threads : WF_vars(Works(t)) /\ SF_vars(Locks(t))
    /\ \A t \in Threads : SF_vars(Start(t, "scan"))
    /\ WF_vars(SiblingActs)

Spec == Init /\ [][Next]_vars
FairSpec == Spec /\ Fairness

-----------------------------------------------------------------------------
(* Properties.                                                               *)

Points == {"idle", "acquire", "lease", "send", "lookup", "enter", "check", "flock", "reread",
           "exchange", "write", "apply", "applyStates", "refreshed", "refused", "penalty",
           "penaltyStates", "penaltyPersist", "deleteStart", "mark", "markStates",
           "markPersist", "deleteLock", "deleteFile", "deleteStates", "importStart",
           "importLock", "importWrite", "importRevive", "scanStart", "scanRead", "scanApply",
           "persist", "scanPersist", "leave"}

Version == Versions \cup {None}
Frame == [op : Ops \cup {"none"}, obj : Objects \cup {None}, leased : Version, cred : Version,
          next : Version, again : BOOLEAN, then : {"end", "lease", "retry"}, keep : BOOLEAN,
          penalty : Penalties \cup {"none"}]
State == [disabled : BOOLEAN, fingerprint : Version, cool : Cooldowns]
Object == [cred : Version, status : Reasons, cool : Cooldowns, deleting : BOOLEAN,
           locked : BOOLEAN, fails : Nat]

(* The points at which a goroutine holds the refresh lock of its account. *)
Inside(t) ==
    \/ pc[t] \in {"check", "flock", "reread", "exchange", "write", "apply", "applyStates",
                  "refreshed", "refused"}
    \/ /\ pc[t] \in {"penalty", "penaltyStates", "penaltyPersist"}
       /\ my[t].penalty \in {"refresh_invalid", "refresh_exhausted", "refresh_backoff"}
    \/ pc[t] \in {"mark", "markStates", "markPersist"} /\ my[t].again
    \/ pc[t] \in {"deleteFile", "deleteStates"}
    \/ pc[t] \in {"importWrite", "importRevive"} /\ my[t].obj # None
    \/ pc[t] \in {"scanRead", "scanApply", "persist", "leave"} /\ my[t].obj # None

(* Where the code follows the pointer to the account. *)
HasObject ==
    \A t \in Threads :
        Inside(t) \/ pc[t] \in {"lease", "enter", "mark", "markStates", "markPersist",
                              "deleteLock", "importLock"} => my[t].obj # None

(* The types of the state, and an account wherever one is dereferenced. *)
TypeOK ==
    /\ HasObject
    /\ pc \in [Threads -> Points]
    /\ my \in [Threads -> Frame]
    /\ sameGen \in [Threads -> BOOLEAN]
    /\ objects \in [Objects -> Object]
    /\ current \in Objects \cup {None}
    /\ states \in State
    /\ cache \in [has : BOOLEAN, match : BOOLEAN, cred : Version]
    /\ reading \in [cred : Version, match : BOOLEAN]
    /\ mutex \in Threads \cup {Free}
    /\ stateFile \in State
    /\ file \in Version
    /\ flock \in Threads \cup {Free, Sibling}
    /\ refreshTok \in [Versions -> {"unissued", "accepted", "spent", "lost"}]
    /\ access \in [Versions -> {"fresh", "due", "expired", "revoked"}]
    /\ events \in 0..MaxEvents

(* A refresh token that was rotated away is not spent a second time, by any   *)
(* interleaving of refreshes, scans, deletions and sibling programs, as long  *)
(* as every answer of the provider arrived and was written.  (A provider that *)
(* sees a rotated token again may revoke the whole family.)                   *)
NoTokenReplay ==
    \A t \in Threads : pc[t] = "exchange" =>
        refreshTok[my[t].cred] # "spent" \/ \E v \in Versions : refreshTok[v] = "lost"

(* An account marked for deletion is never handed out, whichever refresh,    *)
(* scan or penalty of the account is still under way ("fail-closed for new   *)
(* leases and concurrent refreshes", DeleteCredential).                      *)
DeletingIsDisabled ==
    \A e \in Objects : objects[e].deleting => objects[e].status # "enabled"

(* A refresh never brings back the file of a deleted credential: it only     *)
(* replaces a file that is there.                                            *)
NoResurrection == \A t \in Threads : pc[t] = "write" => file # None

(* "Once one caller refreshes the account, later callers observe the new     *)
(* generation and reuse it without another OAuth call" (RefreshIfUnchanged): *)
(* recovery from a 401 spends the refresh token of the credential that was   *)
(* rejected, or of one that has expired since, never of a good newer one.    *)
RecoversWhatFailed ==
    \A t \in Threads : pc[t] = "exchange" /\ my[t].then = "retry" =>
        my[t].cred = my[t].leased \/ access[my[t].cred] # "fresh"

(* A cached entry whose size and mtime are those of the file has the         *)
(* content of the file; otherwise the scan keeps a stale credential forever. *)
CacheHonest == cache.has /\ cache.match /\ file # None => cache.cred = file

(* At most one goroutine is inside the refresh lock of an account, and the   *)
(* lock is held exactly then: it is given back on every path.                *)
RefreshLockExact ==
    \A e \in Objects :
        Cardinality({t \in Threads : my[t].obj = e /\ Inside(t)})
            = IF objects[e].locked THEN 1 ELSE 0

(* Every operation ends: the three locks are never waited for in a circle. *)
EveryOperationEnds == \A t \in Threads : (pc[t] # "idle") ~> (pc[t] = "idle")

(* Hot reload: when the file stops changing, the pool comes to use what it   *)
(* contains.                                                                 *)
FollowsFile ==
    \A v \in Versions : <>[](file = v) => []<>(current # None /\ objects[current].cred = v)

(* A disabled account stays disabled across a restart until its tokens       *)
(* change (TestDisabledCredentialPersistsUntilTokensChange): when nothing is *)
(* under way, what the state file says agrees with memory.                   *)
DisabledIsSaved ==
    (\A t \in Threads : pc[t] = "idle") /\ current # None =>
        (objects[current].status # "enabled" =>
            stateFile.disabled /\ stateFile.fingerprint = objects[current].cred)
=============================================================================
