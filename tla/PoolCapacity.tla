---------------------------- MODULE PoolCapacity ----------------------------
(***************************************************************************)
(* How requests obtain and give back accounts: Acquire and                 *)
(* AcquireForBackends (a request that any account may serve), the pinned   *)
(* AcquireAccount and AcquireAccountForModel, AcquireAccountForMetadata,   *)
(* Lease.Release, and the capacity channel that waiting requests sleep on. *)
(*                                                                         *)
(* Every load, compare-and-swap and channel operation another goroutine    *)
(* can interleave with is a step of its own.  A capacity channel is        *)
(* represented by what its owner can see of it: signalled[r] is FALSE      *)
(* while r has captured a channel that is still open.  The order of        *)
(* accounts in a snapshot (sorted by id) is that of 1..NumAccounts.  Local *)
(* variables return to their initial values when the code leaves them.     *)
(* The reads of one batch of a scan are one step; acting on what they      *)
(* returned is another.                                                    *)
(***************************************************************************)
EXTENDS Integers, Sequences, FiniteSets

CONSTANTS NumAccounts,  (* accounts in the pool                                *)
          Requests,     (* request goroutines, each acquiring once             *)
          Limit,        (* AccountMaxInflight                                  *)
          Choices,      (* schedulingChoices: accounts compared in one batch   *)
          Backends,     (* accounts by preferred backend, provisional last     *)
          Jobs,         (* what a request may be: kind, affinity mode, target  *)
          MaxEvents     (* bound: cooldowns, disablings and expiries that come *)
                        (* from outside the modelled requests                  *)

Accounts == 1..NumAccounts
None == 0

Kinds == {"pool", "pinned", "metadata"}
Modes == {"none", "soft", "hard"}
JobType == [kind : Kinds, mode : Modes, target : Accounts \cup {None}]

ASSUME ConstantsAssumption ==
    /\ NumAccounts \in Nat
    /\ Limit \in Nat \ {0}
    /\ Choices \in Nat \ {0}
    /\ Backends \in Seq(SUBSET Accounts)
    /\ Jobs \subseteq JobType
    /\ \A j \in Jobs : j.kind # "pool" => j.target # None
    /\ MaxEvents \in Nat
    /\ IsFiniteSet(Requests)

VARIABLES
    pc,              (* where each request is in Acquire                     *)
    job,             (* what each request asks for                           *)
    acct,            (* the account a request works on or holds              *)
    search,          (* local variables of Acquire's scan                    *)
    saturated,       (* the local variable of that name                      *)
    signalled,       (* the captured capacity channel is closed              *)
    inflight,        (* account.inflight                                     *)
    avail,           (* account.disabled and cooldownUntil                   *)
    usable,          (* the access token can be used without a refresh       *)
    timerNotifies,   (* a cooldown timer has rebuilt and has yet to notify   *)
    active,          (* the published scheduling snapshot                    *)
    rebuildPending,  (* rebuildCh                                            *)
    binding,         (* the affinity cache entry of the requests' one key    *)
    events           (* external events so far                               *)

slotVars == <<inflight, signalled>>
scanVars == <<search, saturated>>
accountVars == <<avail, usable, timerNotifies, active, rebuildPending>>
vars == <<pc, job, acct, search, saturated, signalled, inflight, avail,
          usable, timerNotifies, active, rebuildPending, binding, events>>

Go(r, from, to) == pc[r] = from /\ pc' = [pc EXCEPT ![r] = to]

Schedulable == {a \in Accounts : avail[a] = "ok"}
RequestUsable(a) == avail[a] = "ok" /\ usable[a]

(* notifyCapacity closes the channel everybody captured and installs a new one. *)
NotifyCapacity == signalled' = [r \in Requests |-> TRUE]

(* Wrong variant: the limit is compared with <= instead of <. *)
TakeSlotOneTooMany(a) ==
    /\ inflight[a] <= Limit
    /\ inflight' = [inflight EXCEPT ![a] = @ + 1]

(* tryAcquire's compare-and-swap loop succeeds below the limit, and only there. *)
TakeSlot(a) ==
    /\ inflight[a] < Limit
    /\ inflight' = [inflight EXCEPT ![a] = @ + 1]

DropSlot(a) == inflight' = [inflight EXCEPT ![a] = @ - 1]

EmptySearch == [phase |-> 0, allowed |-> Accounts, tried |-> {}, unseen |-> {},
                start |-> None, best |-> None]
EmptyJob == [kind |-> "pool", mode |-> "none", target |-> None]

(* Acquire returns: its local variables are gone. *)
Forget(r) ==
    /\ search' = [search EXCEPT ![r] = EmptySearch]
    /\ saturated' = [saturated EXCEPT ![r] = FALSE]
    /\ signalled' = [signalled EXCEPT ![r] = TRUE]

Init ==
    /\ pc = [r \in Requests |-> "idle"]
    /\ job = [r \in Requests |-> EmptyJob]
    /\ acct = [r \in Requests |-> None]
    /\ search = [r \in Requests |-> EmptySearch]
    /\ saturated = [r \in Requests |-> FALSE]
    /\ signalled = [r \in Requests |-> TRUE]
    /\ inflight = [a \in Accounts |-> 0]
    /\ avail = [a \in Accounts |-> "ok"]
    /\ usable \in [Accounts -> BOOLEAN]
    /\ timerNotifies = FALSE
    /\ active = Accounts
    /\ rebuildPending = FALSE
    /\ binding = None
    /\ events = 0

-----------------------------------------------------------------------------
(* The start of a call, and the loop of AcquireForBackends around Acquire.   *)

Start(r) ==
    /\ \E j \in Jobs :
        /\ job' = [job EXCEPT ![r] = j]
        /\ acct' = [acct EXCEPT ![r] = j.target]
        /\ Go(r, "idle", CASE j.kind = "pool" -> "backend"
                           [] j.kind = "pinned" -> "signal"
                           [] j.kind = "metadata" -> "metadata")
    /\ UNCHANGED <<scanVars, slotVars, accountVars, binding, events>>

(* The next preferred backend for which some account is not disabled. *)
NextBackend(r) ==
    LET i == search[r].phase + 1
        allowed == {a \in Backends[i] : avail[a] # "disabled"}
    IN /\ \/ /\ i > Len(Backends)
             /\ Go(r, "backend", "failed")
             /\ UNCHANGED search
          \/ /\ i <= Len(Backends)
             /\ Go(r, "backend", IF allowed = {} THEN "backend" ELSE "signal")
             /\ search' = [search EXCEPT ![r].phase = i, ![r].allowed = allowed,
                                      ![r].tried = {}]
       /\ UNCHANGED <<job, acct, saturated, slotVars, accountVars, binding, events>>

(* The caller gets an error. *)
Fail(r) ==
    /\ Go(r, "failed", "done")
    /\ Forget(r)
    /\ acct' = [acct EXCEPT ![r] = None]
    /\ job' = [job EXCEPT ![r] = EmptyJob]
    /\ UNCHANGED <<inflight, accountVars, binding, events>>

(* capacitySignal: the channel is captured before anything else is looked at. *)
Capture(r) ==
    /\ Go(r, "signal", CASE job[r].kind = "pinned" -> "bound"
                         [] job[r].kind # "pinned" /\ job[r].mode = "none" -> "snapshot"
                         [] job[r].kind # "pinned" /\ job[r].mode # "none" -> "affinity")
    /\ signalled' = [signalled EXCEPT ![r] = FALSE]
    /\ UNCHANGED <<job, acct, scanVars, inflight, accountVars, binding, events>>

-----------------------------------------------------------------------------
(* The account an affinity key or the caller names: acquireID.               *)

(* Wrong variant: a hard key is followed although it has no entry. *)
ReadAffinityUnchecked(r) ==
    LET follow == job[r].mode = "hard" \/ (binding # None /\ RequestUsable(binding))
    IN /\ Go(r, "affinity", IF follow THEN "bound" ELSE "snapshot")
       /\ acct' = [acct EXCEPT ![r] = IF follow THEN binding ELSE @]
       /\ UNCHANGED <<job, scanVars, slotVars, accountVars, binding, events>>

ReadAffinity(r) ==
    LET follow == binding # None /\ (job[r].mode = "hard" \/ RequestUsable(binding))
    IN /\ Go(r, "affinity", IF follow THEN "bound" ELSE "snapshot")
       /\ acct' = [acct EXCEPT ![r] = IF follow THEN binding ELSE @]
       /\ UNCHANGED <<job, scanVars, slotVars, accountVars, binding, events>>

CheckBound(r) ==
    LET a == acct[r]
    IN /\ Go(r, "bound",
             IF a \in search[r].allowed /\ avail[a] = "ok" THEN "boundTake"
             ELSE IF job[r].kind = "pinned" THEN "failed" ELSE "unbind")
       /\ UNCHANGED <<job, acct, scanVars, slotVars, accountVars, binding, events>>

TakeBound(r) ==
    /\ Go(r, "boundTake", "ensure")
    /\ TakeSlot(acct[r])
    /\ UNCHANGED <<job, acct, scanVars, signalled, accountVars, binding, events>>

(* errAccountBusy: a pinned or hard-affine request waits, a soft one spills. *)
BoundBusy(r) ==
    /\ Go(r, "boundTake", IF job[r].kind = "pinned" \/ job[r].mode = "hard"
                          THEN "wait" ELSE "snapshot")
    /\ inflight[acct[r]] >= Limit
    /\ UNCHANGED <<job, acct, scanVars, slotVars, accountVars, binding, events>>

Unbind(r) ==
    /\ Go(r, "unbind", "snapshot")
    /\ binding' = None
    /\ acct' = [acct EXCEPT ![r] = None]
    /\ UNCHANGED <<job, scanVars, slotVars, accountVars, events>>

-----------------------------------------------------------------------------
(* The scan of the scheduling snapshot, Choices accounts at a time.          *)

(* The snapshot is loaded, and rebuilt first when it is empty.  The cursor   *)
(* counts every request of the process, so any account can be the first.     *)
TakeSnapshot(r) ==
    LET snapshot == IF active = {} THEN Schedulable ELSE active
    IN /\ active' = snapshot
       /\ \/ /\ snapshot = {}
             /\ Go(r, "snapshot", "backend")
             /\ UNCHANGED scanVars
          \/ \E first \in snapshot :
             /\ Go(r, "snapshot", "scan")
             /\ search' = [search EXCEPT ![r].unseen = snapshot, ![r].start = first,
                                      ![r].best = None]
             /\ saturated' = [saturated EXCEPT ![r] = FALSE]
       /\ UNCHANGED <<job, acct, slotVars, avail, usable, timerNotifies, rebuildPending,
                      binding, events>>

(* The accounts of the next batch, clockwise from the first, and the order   *)
(* in which the batch is compared.                                           *)
Distance(r, a) == (a - search[r].start + NumAccounts) % NumAccounts
Batch(r) == {a \in search[r].unseen :
    Cardinality({b \in search[r].unseen : Distance(r, b) < Distance(r, a)}) < Choices}

Eligible(r, a) == a \in search[r].allowed \ search[r].tried /\ avail[a] = "ok"

(* usable first, then the fewest leases, then the scan's order. *)
Before(r, a, b) ==
    \/ RequestUsable(a) /\ ~RequestUsable(b)
    \/ /\ RequestUsable(a) = RequestUsable(b)
       /\ \/ inflight[a] < inflight[b]
          \/ inflight[a] = inflight[b] /\ Distance(r, a) <= Distance(r, b)

(* One batch: its best account below the limit is selected, and accounts at  *)
(* the limit make the search saturated.                                      *)
ExamineBatch(r) ==
    LET free == {a \in Batch(r) : Eligible(r, a) /\ inflight[a] < Limit}
        full == {a \in Batch(r) : Eligible(r, a) /\ inflight[a] >= Limit}
    IN /\ pc[r] = "scan"
       /\ search[r].unseen # {}
       /\ \/ /\ free = {}
             /\ Go(r, "scan", "scan")
             /\ search' = [search EXCEPT ![r].unseen = @ \ Batch(r)]
          \/ \E a \in free :
             /\ \A b \in free : Before(r, a, b)
             /\ Go(r, "scan", "selected")
             /\ search' = [search EXCEPT ![r].unseen = @ \ Batch(r), ![r].best = a]
       /\ saturated' = [saturated EXCEPT ![r] = @ \/ full # {}]
       /\ UNCHANGED <<job, acct, slotVars, accountVars, binding, events>>

TakeSelected(r) ==
    /\ Go(r, "selected", "ensure")
    /\ TakeSlot(search[r].best)
    /\ acct' = [acct EXCEPT ![r] = search[r].best]
    /\ UNCHANGED <<job, scanVars, signalled, accountVars, binding, events>>

(* tryAcquire lost the race: the rest of the batch is not looked at again. *)
LoseSelected(r) ==
    /\ Go(r, "selected", "scan")
    /\ inflight[search[r].best] >= Limit
    /\ search' = [search EXCEPT ![r].best = None]
    /\ saturated' = [saturated EXCEPT ![r] = TRUE]
    /\ UNCHANGED <<job, acct, slotVars, accountVars, binding, events>>

(* Wrong variant: the channel to sleep on is captured after the accounts     *)
(* were found full, not before they were looked at.                          *)
EndScanCapturesLate(r) ==
    /\ Go(r, "scan", IF saturated[r] THEN "wait" ELSE "backend")
    /\ search[r].unseen = {}
    /\ search' = [search EXCEPT ![r].start = None]
    /\ signalled' = [signalled EXCEPT ![r] = FALSE]
    /\ UNCHANGED <<job, acct, saturated, inflight, accountVars, binding, events>>

(* After the last batch, wait if an account was full, else report failure. *)
EndScan(r) ==
    /\ Go(r, "scan", IF saturated[r] THEN "wait" ELSE "backend")
    /\ search[r].unseen = {}
    /\ search' = [search EXCEPT ![r].start = None]
    /\ UNCHANGED <<job, acct, saturated, slotVars, accountVars, binding, events>>

-----------------------------------------------------------------------------
(* Waiting for capacity.                                                     *)

Wake(r) ==
    /\ signalled[r]
    /\ Go(r, "wait", "signal")
    /\ UNCHANGED <<job, acct, scanVars, slotVars, accountVars, binding, events>>

(* The caller's context is cancelled. *)
Cancel(r) ==
    /\ Go(r, "wait", "failed")
    /\ UNCHANGED <<job, acct, scanVars, slotVars, accountVars, binding, events>>

-----------------------------------------------------------------------------
(* ensureUsable on the chosen account, seen from the pool: the credential is *)
(* usable, is refreshed, or cannot be made usable.  CredentialLifecycle has  *)
(* the steps of a refresh.                                                   *)

EnsureUsable(r, from, granted, refused) ==
    LET a == acct[r] IN
    /\ pc[r] = from
    /\ \/ /\ avail[a] # "disabled" /\ usable[a]
          /\ Go(r, from, granted)
          /\ UNCHANGED <<signalled, accountVars>>
       \/ /\ avail[a] # "disabled" /\ ~usable[a]        \* refreshed
          /\ Go(r, from, granted)
          /\ usable' = [usable EXCEPT ![a] = TRUE]
          /\ avail' = [avail EXCEPT ![a] = IF @ = "backoff" THEN "ok" ELSE @]
          /\ rebuildPending' = TRUE
          /\ NotifyCapacity
          /\ UNCHANGED <<timerNotifies, active>>
       \/ /\ avail[a] # "disabled" /\ ~usable[a]        \* backing off
          /\ Go(r, from, refused)
          /\ \E cause \in {"backoff", avail[a]} \ {"ok"} :
                avail' = [avail EXCEPT ![a] = cause]
          /\ rebuildPending' = TRUE
          /\ UNCHANGED <<signalled, usable, timerNotifies, active>>
       \/ /\ avail[a] # "disabled" /\ ~usable[a]        \* permanently refused
          /\ Go(r, from, refused)
          /\ avail' = [avail EXCEPT ![a] = "disabled"]
          /\ rebuildPending' = TRUE
          /\ UNCHANGED <<signalled, usable, timerNotifies, active>>
       \/ /\ avail[a] = "disabled" \/ ~usable[a]        \* disabled, or cancelled
          /\ Go(r, from, refused)
          /\ UNCHANGED <<signalled, accountVars>>
    /\ UNCHANGED <<job, acct, scanVars, inflight, binding, events>>

Ensure(r) == EnsureUsable(r, "ensure", "grant", "undo")

(* Wrong variant: a failed ensureUsable forgets the slot it was given. *)
UndoKeepsSlot(r) ==
    /\ Go(r, "undo", "undoNotify")
    /\ UNCHANGED <<job, acct, scanVars, slotVars, accountVars, binding, events>>

(* A failed ensureUsable gives the slot back, then announces it. *)
Undo(r) ==
    /\ Go(r, "undo", "undoNotify")
    /\ DropSlot(acct[r])
    /\ UNCHANGED <<job, acct, scanVars, signalled, accountVars, binding, events>>

FromScan(r) == search[r].best # None

UndoNotify(r) ==
    /\ NotifyCapacity
    /\ Go(r, "undoNotify", IF FromScan(r) THEN "scan"
                           ELSE IF job[r].kind = "pinned" THEN "failed" ELSE "unbind")
    /\ search' = IF FromScan(r)
                 THEN [search EXCEPT ![r].tried = @ \cup {acct[r]}, ![r].best = None]
                 ELSE search
    /\ UNCHANGED <<job, acct, saturated, inflight, accountVars, binding, events>>

(* A scanned account becomes the affinity of the key; the lease is made. *)
Grant(r) ==
    /\ Go(r, "grant", "hold")
    /\ binding' = IF FromScan(r) /\ job[r].mode # "none" THEN acct[r] ELSE binding
    /\ Forget(r)
    /\ UNCHANGED <<job, acct, inflight, accountVars, events>>

-----------------------------------------------------------------------------
(* Lease.Release: the count goes down, then the capacity channel is closed.  *)

Release(r) ==
    /\ Go(r, "hold", "releaseNotify")
    /\ DropSlot(acct[r])
    /\ UNCHANGED <<job, acct, scanVars, signalled, accountVars, binding, events>>

(* Wrong variant: the lease is returned without telling the sleepers. *)
ReleaseSilently(r) ==
    /\ Go(r, "releaseNotify", "done")
    /\ acct' = [acct EXCEPT ![r] = None]
    /\ job' = [job EXCEPT ![r] = EmptyJob]
    /\ UNCHANGED <<scanVars, slotVars, accountVars, binding, events>>

ReleaseNotify(r) ==
    /\ Go(r, "releaseNotify", "done")
    /\ NotifyCapacity
    /\ acct' = [acct EXCEPT ![r] = None]
    /\ job' = [job EXCEPT ![r] = EmptyJob]
    /\ UNCHANGED <<scanVars, inflight, accountVars, binding, events>>

-----------------------------------------------------------------------------
(* AcquireAccountForMetadata: cooldowns and the limit do not apply.          *)

MetadataCheck(r) ==
    /\ Go(r, "metadata", IF avail[acct[r]] = "disabled" THEN "failed" ELSE "metadataEnsure")
    /\ UNCHANGED <<job, acct, scanVars, slotVars, accountVars, binding, events>>

MetadataEnsure(r) == EnsureUsable(r, "metadataEnsure", "metadataTake", "failed")

MetadataTake(r) ==
    /\ Go(r, "metadataTake", "hold")
    /\ inflight' = [inflight EXCEPT ![acct[r]] = @ + 1]
    /\ UNCHANGED <<job, acct, scanVars, signalled, accountVars, binding, events>>

-----------------------------------------------------------------------------
(* What happens to accounts outside the modelled requests.                   *)

External ==
    /\ events < MaxEvents
    /\ events' = events + 1
    /\ UNCHANGED <<pc, job, acct, scanVars, slotVars, active, binding>>

(* MarkCooldown, or MarkModelCooldown for the requested model. *)
MarkCooldown(a) ==
    /\ External
    /\ avail[a] = "ok"
    /\ avail' = [avail EXCEPT ![a] = "cooling"]
    /\ rebuildPending' = TRUE
    /\ UNCHANGED <<usable, timerNotifies>>

(* Disable does not touch the capacity channel. *)
Disable(a) ==
    /\ External
    /\ avail[a] # "disabled"
    /\ avail' = [avail EXCEPT ![a] = "disabled"]
    /\ rebuildPending' = TRUE
    /\ UNCHANGED <<usable, timerNotifies>>

TokenExpires(a) ==
    /\ External
    /\ usable[a]
    /\ usable' = [usable EXCEPT ![a] = FALSE]
    /\ UNCHANGED <<avail, timerNotifies, rebuildPending>>

(* rebuildWhenCooldownExpires: time passes the end of a cooldown, and the    *)
(* goroutine armed for it rebuilds the snapshot, then notifies.  (The timer  *)
(* of a cooldown that was lifted or superseded meanwhile only repeats both.) *)
CooldownEnds(a) ==
    /\ avail[a] \in {"cooling", "backoff"}
    /\ avail' = [avail EXCEPT ![a] = "ok"]
    /\ active' = Schedulable \cup {a}
    /\ timerNotifies' = TRUE
    /\ UNCHANGED <<pc, job, acct, scanVars, slotVars, usable, rebuildPending,
                   binding, events>>

TimerNotifies ==
    /\ timerNotifies
    /\ timerNotifies' = FALSE
    /\ NotifyCapacity
    /\ UNCHANGED <<pc, job, acct, scanVars, inflight, avail, usable, active,
                   rebuildPending, binding, events>>

(* rebuildLoop, 25ms after requestRebuild; it does not notify. *)
Rebuild ==
    /\ rebuildPending
    /\ rebuildPending' = FALSE
    /\ active' = Schedulable
    /\ UNCHANGED <<pc, job, acct, scanVars, slotVars, avail, usable, timerNotifies,
                   binding, events>>

(* The affinity entry expires or is evicted by another key of its shard. *)
Evict ==
    /\ binding # None
    /\ events < MaxEvents
    /\ events' = events + 1
    /\ binding' = None
    /\ UNCHANGED <<pc, job, acct, scanVars, slotVars, accountVars>>

-----------------------------------------------------------------------------

Searches(r) ==
    \/ NextBackend(r) \/ Capture(r)
    \/ ReadAffinity(r) \/ CheckBound(r) \/ TakeBound(r) \/ BoundBusy(r) \/ Unbind(r)
    \/ TakeSnapshot(r) \/ ExamineBatch(r) \/ TakeSelected(r) \/ LoseSelected(r) \/ EndScan(r)
    \/ Wake(r) \/ Ensure(r) \/ Undo(r) \/ UndoNotify(r) \/ Grant(r) \/ Fail(r)
    \/ MetadataCheck(r) \/ MetadataEnsure(r) \/ MetadataTake(r)

Releases(r) == Release(r) \/ ReleaseNotify(r)

Outside(a) == MarkCooldown(a) \/ Disable(a) \/ TokenExpires(a)

Done ==
    /\ \A r \in Requests : pc[r] = "done"
    /\ UNCHANGED vars

Next ==
    \/ \E r \in Requests : Start(r) \/ Searches(r) \/ Releases(r) \/ Cancel(r)
    \/ \E a \in Accounts : Outside(a) \/ CooldownEnds(a)
    \/ TimerNotifies
    \/ Rebuild
    \/ Evict
    \/ Done

(* Goroutines that can run do run, a lease is given back (every upstream     *)
(* exchange has a deadline), time passes and the rebuild loop runs.  Nobody  *)
(* has to start or cancel a request, and external events need not happen.    *)
Fairness ==
    /\ \A r \in Requests : WF_vars(Searches(r)) /\ WF_vars(Releases(r))
    /\ \A a \in Accounts : WF_vars(CooldownEnds(a))
    /\ WF_vars(TimerNotifies)
    /\ WF_vars(Rebuild)

Spec == Init /\ [][Next]_vars
FairSpec == Spec /\ Fairness

-----------------------------------------------------------------------------
(* Properties.                                                               *)

Points == {"idle", "backend", "signal", "affinity", "bound", "boundTake", "unbind",
           "snapshot", "scan", "selected", "wait", "ensure", "undo", "undoNotify", "grant",
           "hold", "releaseNotify", "metadata", "metadataEnsure", "metadataTake",
           "failed", "done"}

SearchType ==
    [phase : 0..Len(Backends), allowed : SUBSET Accounts, tried : SUBSET Accounts,
     unseen : SUBSET Accounts, start : Accounts \cup {None},
     best : Accounts \cup {None}]

Types ==
    /\ pc \in [Requests -> Points]
    /\ job \in [Requests -> JobType]
    /\ acct \in [Requests -> Accounts \cup {None}]
    /\ search \in [Requests -> SearchType]
    /\ saturated \in [Requests -> BOOLEAN]
    /\ signalled \in [Requests -> BOOLEAN]
    /\ inflight \in [Accounts -> Int]
    /\ avail \in [Accounts -> {"ok", "cooling", "backoff", "disabled"}]
    /\ usable \in [Accounts -> BOOLEAN]
    /\ timerNotifies \in BOOLEAN
    /\ active \in SUBSET Accounts
    /\ rebuildPending \in BOOLEAN
    /\ binding \in Accounts \cup {None}
    /\ events \in 0..MaxEvents

(* The points of Acquire at which acct names the account worked on. *)
WithAccount == {"bound", "boundTake", "ensure", "undo", "undoNotify", "grant", "hold",
                "releaseNotify", "metadata", "metadataEnsure", "metadataTake"}

HasAccount ==
    \A r \in Requests :
        /\ pc[r] \in WithAccount => acct[r] \in Accounts
        /\ pc[r] = "selected" => search[r].best \in Accounts
        /\ job[r].kind = "pinned" => acct[r] \in Accounts /\ pc[r] # "unbind"
        /\ pc[r] \in {"metadata", "metadataEnsure", "metadataTake"}
                => job[r].kind = "metadata"

(* The types of the state; wherever the code dereferences the account it     *)
(* works on there is one, and a pinned request never gives up its account to *)
(* search for another.                                                       *)
TypeOK == Types /\ HasAccount

HasSlot(r) == pc[r] \in {"ensure", "undo", "grant", "hold"}
Slots(a) == {r \in Requests : HasSlot(r) /\ acct[r] = a}
Ordinary == {r \in Requests : job[r].kind # "metadata"}

(* account.inflight counts exactly the requests that took a slot and have    *)
(* not given it back, on every path: lease held, refresh in progress, refresh *)
(* failed.  A slot that leaks shrinks the account for good; one returned     *)
(* twice lets the account exceed its limit.                                  *)
SlotAccounting == \A a \in Accounts : inflight[a] = Cardinality(Slots(a))

(* However requests race for the last slot, the requests that the limit      *)
(* applies to never occupy an account beyond it (TestPoolWaitsForPerAccount- *)
(* Capacity checks one schedule of one account).                             *)
LimitRespected == \A a \in Accounts : Cardinality(Slots(a) \cap Ordinary) <= Limit

OwesNotify(r) == pc[r] \in {"undoNotify", "releaseNotify"}
Waiting(r) == pc[r] = "wait" /\ ~signalled[r]

(* No wake-up is lost: while a request sleeps on a channel that is still     *)
(* open, some request has a slot or is about to close the channel, so the    *)
(* sleeper will be woken.  It depends on capturing the channel before        *)
(* looking at the accounts, and on notifying after every decrement.          *)
NoLostWakeup ==
    (\E r \in Requests : Waiting(r)) => \E s \in Requests : HasSlot(s) \/ OwesNotify(s)

(* A request that has started gets an account or an error: nobody sleeps     *)
(* forever once the leases in front of it are given back.                    *)
EveryRequestEnds ==
    \A r \in Requests : (pc[r] # "idle") ~> (pc[r] = "done")

(* The lease counts of the pool implement the abstract lease pool. *)
Leases == INSTANCE LeasePool WITH
    leased <- [a \in Accounts |-> Slots(a)],
    exempt <- {r \in Requests : job[r].kind = "metadata"}

ImplementsLeasePool == Leases!Spec

(* "excess requests wait for capacity" (README_EN.md): a request sleeps only *)
(* while every account that could serve it is full.  With no notification    *)
(* and no rebuild under way, a sleeping request that may use account a means *)
(* that a has no free slot.                                                  *)
Quiet == /\ ~rebuildPending
         /\ \A r \in Requests : ~OwesNotify(r)
         /\ ~timerNotifies

NoNeedlessWait ==
    \A r \in Requests : \A a \in Accounts :
        Quiet /\ Waiting(r) /\ job[r].kind = "pool" /\ job[r].mode = "none"
              /\ a \in search[r].allowed \ search[r].tried /\ RequestUsable(a)
            => inflight[a] >= Limit

=============================================================================
