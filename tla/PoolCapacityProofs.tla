------------------------- MODULE PoolCapacityProofs -------------------------
(***************************************************************************)
(* The safety of the capacity protocol for every number of accounts and    *)
(* requests, every limit and every preference of backends: the type        *)
(* invariant, the slot accounting, the limit, the absence of lost wake-ups *)
(* and the refinement of LeasePool.                                        *)
(***************************************************************************)
EXTENDS PoolCapacity, FiniteSetTheorems, TLAPS

-----------------------------------------------------------------------------
(* Type correctness.                                                         *)

LEMMA EmptyTypes == EmptySearch \in SearchType /\ EmptyJob \in JobType
  BY ConstantsAssumption DEF EmptySearch, SearchType, EmptyJob, JobType, Kinds, Modes

LEMMA TypedInit == Init => TypeOK
  <1> SUFFICES ASSUME Init PROVE TypeOK
    OBVIOUS
  <1>1. Types
    <2>1. /\ pc \in [Requests -> Points] /\ job \in [Requests -> JobType]
          /\ acct \in [Requests -> Accounts \cup {None}]
          /\ search \in [Requests -> SearchType]
      BY EmptyTypes, Zenon DEF Init, Points
    <2>2. /\ saturated \in [Requests -> BOOLEAN] /\ signalled \in [Requests -> BOOLEAN]
          /\ inflight \in [Accounts -> Int]
          /\ avail \in [Accounts -> {"ok", "cooling", "backoff", "disabled"}]
      BY DEF Init
    <2>3. /\ usable \in [Accounts -> BOOLEAN] /\ timerNotifies \in BOOLEAN
          /\ active \in SUBSET Accounts /\ rebuildPending \in BOOLEAN
          /\ binding \in Accounts \cup {None} /\ events \in 0..MaxEvents
      <3>1. 0 \in 0..MaxEvents
        BY ConstantsAssumption
      <3> QED BY <3>1 DEF Init
    <2> QED BY <2>1, <2>2, <2>3 DEF Types
  <1>2. HasAccount
    BY DEF Init, HasAccount, WithAccount, EmptyJob
  <1> QED
    BY <1>1, <1>2 DEF TypeOK

(* The steps of one request, in the three parts of Acquire. *)
LEMMA TypedStart ==
    ASSUME TypeOK, NEW r \in Requests, Start(r) \/ NextBackend(r) \/ Fail(r) \/ Capture(r)
    PROVE  TypeOK'
  <1>1. CASE Start(r)
    <2> PICK j \in Jobs : /\ job' = [job EXCEPT ![r] = j]
                          /\ acct' = [acct EXCEPT ![r] = j.target]
                          /\ Go(r, "idle", CASE j.kind = "pool" -> "backend"
                                             [] j.kind = "pinned" -> "signal"
                                             [] j.kind = "metadata" -> "metadata")
      BY <1>1 DEF Start
    <2>1. j \in JobType /\ (j.kind # "pool" => j.target # None)
      BY ConstantsAssumption
    <2>2. pc[r] = "idle" /\ \E p \in {"backend", "signal", "metadata"} :
              /\ pc' = [pc EXCEPT ![r] = p]
              /\ (p = "metadata" => j.kind = "metadata")
              /\ (j.kind = "pinned" => p = "signal")
      BY <2>1 DEF Go, JobType, Kinds
    <2>3. Types'
      <3>1. pc' \in [Requests -> Points]
        BY <2>2 DEF TypeOK, Types, Points
      <3>2. acct' \in [Requests -> Accounts \cup {None}] /\ job' \in [Requests -> JobType]
        <4>1. j.target \in Accounts \cup {None}
          BY <2>1 DEF JobType
        <4> QED BY <2>1, <4>1 DEF TypeOK, Types
      <3> QED
        BY <1>1, <3>1, <3>2 DEF TypeOK, Types, Start, scanVars, slotVars, accountVars
    <2>4. HasAccount'
      BY <1>1, <2>1, <2>2 DEF TypeOK, Types, HasAccount, WithAccount, Start, JobType,
                              scanVars, slotVars, accountVars
    <2> QED BY <2>3, <2>4 DEF TypeOK
  <1>2. CASE NextBackend(r)
    <2>1. Types'
      <3> DEFINE i == search[r].phase + 1
                 allowed == {a \in Backends[i] : avail[a] # "disabled"}
      <3>1. search[r] \in SearchType /\ i \in Nat
        BY DEF TypeOK, Types, SearchType
      <3>2. i <= Len(Backends) => i \in 0..Len(Backends) /\ allowed \subseteq Accounts
        BY <3>1, ConstantsAssumption DEF SearchType
      <3>3. search' \in [Requests -> SearchType]
        <4>1. CASE search' = search
          BY <4>1 DEF TypeOK, Types
        <4>2. CASE /\ i <= Len(Backends)
                   /\ search' = [search EXCEPT ![r].phase = i, ![r].allowed = allowed,
                                            ![r].tried = {}]
          <5>1. [search[r] EXCEPT !.phase = i, !.allowed = allowed, !.tried = {}] \in SearchType
            BY <3>1, <3>2, <4>2 DEF SearchType
          <5> QED BY <4>2, <5>1 DEF TypeOK, Types
        <4> QED BY <1>2, <4>1, <4>2 DEF NextBackend
      <3>4. pc' \in [Requests -> Points]
        BY <1>2 DEF TypeOK, Types, NextBackend, Go, Points
      <3> QED BY <1>2, <3>3, <3>4 DEF TypeOK, Types, NextBackend, slotVars, accountVars
    <2>2. HasAccount'
      <3>1. /\ \E p \in {"failed", "backend", "signal"} : pc' = [pc EXCEPT ![r] = p]
            /\ UNCHANGED <<acct, job>>
        BY <1>2 DEF NextBackend, Go
      <3>2. \A q \in Requests : pc'[q] = "selected" => pc[q] = "selected" /\ search'[q] = search[q]
        BY <1>2, <3>1 DEF TypeOK, Types, NextBackend
      <3>3. \A q \in Requests : pc'[q] = pc[q] \/ pc'[q] \in {"failed", "backend", "signal"}
        BY <3>1 DEF TypeOK, Types
      <3> QED BY <3>1, <3>2, <3>3 DEF TypeOK, HasAccount, WithAccount
    <2> QED BY <2>1, <2>2 DEF TypeOK
  <1>3. CASE Fail(r)
    <2>1. Types'
      BY <1>3, EmptyTypes DEF TypeOK, Types, Fail, Forget, Go, Points, accountVars
    <2>2. HasAccount'
      BY <1>3, EmptyTypes DEF TypeOK, Types, HasAccount, WithAccount, Fail, Forget, Go,
                              EmptyJob, accountVars
    <2> QED BY <2>1, <2>2 DEF TypeOK
  <1>4. CASE Capture(r)
    <2>1. pc[r] = "signal" /\ \E p \in {"bound", "snapshot", "affinity"} :
              pc' = [pc EXCEPT ![r] = p] /\ (p = "bound" => job[r].kind = "pinned")
      <3>1. job[r] \in JobType
        BY DEF TypeOK, Types
      <3> QED BY <1>4, <3>1 DEF Capture, Go, JobType, Kinds, Modes
    <2>2. Types'
      BY <1>4, <2>1 DEF TypeOK, Types, Capture, Points, scanVars, accountVars
    <2>3. HasAccount'
      BY <1>4, <2>1 DEF TypeOK, Types, HasAccount, WithAccount, Capture, scanVars, accountVars
    <2> QED BY <2>2, <2>3 DEF TypeOK
  <1> QED BY <1>1, <1>2, <1>3, <1>4

LEMMA TypedBound ==
    ASSUME TypeOK, NEW r \in Requests,
           ReadAffinity(r) \/ CheckBound(r) \/ TakeBound(r) \/ BoundBusy(r) \/ Unbind(r)
    PROVE  TypeOK'
  <1> USE DEF TypeOK, Types, HasAccount, WithAccount, Points, Go, scanVars, slotVars, accountVars
  <1>1. CASE ReadAffinity(r)
    <2>1. \E p \in {"bound", "snapshot"} : \E a \in Accounts \cup {None} :
              /\ pc' = [pc EXCEPT ![r] = p]
              /\ acct' = [acct EXCEPT ![r] = a]
              /\ p = "bound" => a \in Accounts
              /\ p = "snapshot" => a = acct[r]
      BY <1>1 DEF ReadAffinity
    <2>2. UNCHANGED <<job, scanVars, slotVars, accountVars, binding, events>>
      BY <1>1 DEF ReadAffinity
    <2> QED BY <1>1, <2>1, <2>2 DEF ReadAffinity
  <1>2. CASE CheckBound(r)
    BY <1>2 DEF CheckBound
  <1>3. CASE TakeBound(r)
    BY <1>3 DEF TakeBound, TakeSlot
  <1>4. CASE BoundBusy(r)
    BY <1>4 DEF BoundBusy
  <1>5. CASE Unbind(r)
    BY <1>5 DEF Unbind
  <1> QED BY <1>1, <1>2, <1>3, <1>4, <1>5

LEMMA TypedScan ==
    ASSUME TypeOK, NEW r \in Requests,
           TakeSnapshot(r) \/ ExamineBatch(r) \/ TakeSelected(r) \/ LoseSelected(r) \/ EndScan(r)
    PROVE  TypeOK'
  <1> USE DEF TypeOK, Types, HasAccount, WithAccount, Points, Go, scanVars, slotVars, accountVars
  <1>0. search[r] \in SearchType
    OBVIOUS
  <1>1. CASE TakeSnapshot(r)
    <2>1. /\ active' \in SUBSET Accounts
          /\ UNCHANGED <<job, acct, slotVars, avail, usable, timerNotifies, rebuildPending,
                         binding, events>>
      BY <1>1 DEF TakeSnapshot, Schedulable
    <2>2. CASE pc' = [pc EXCEPT ![r] = "backend"] /\ UNCHANGED scanVars
      BY <2>1, <2>2
    <2>3. ASSUME NEW first \in active',
                 pc' = [pc EXCEPT ![r] = "scan"],
                 search' = [search EXCEPT ![r].unseen = active', ![r].start = first,
                                          ![r].best = None],
                 saturated' = [saturated EXCEPT ![r] = FALSE]
          PROVE  Types' /\ HasAccount'
      <3>1. [search[r] EXCEPT !.unseen = active', !.start = first, !.best = None] \in SearchType
        BY <1>0, <2>1 DEF SearchType
      <3>2. search' \in [Requests -> SearchType]
        BY <2>3, <3>1
      <3> QED BY <2>1, <2>3, <3>2
    <2> QED BY <1>1, <2>2, <2>3 DEF TakeSnapshot
  <1>2. CASE ExamineBatch(r)
    <2>1. UNCHANGED <<job, acct, slotVars, accountVars, binding, events>>
      BY <1>2 DEF ExamineBatch
    <2>2. saturated' \in [Requests -> BOOLEAN]
      BY <1>2 DEF ExamineBatch
    <2>3. ASSUME pc' = [pc EXCEPT ![r] = "scan"],
                 search' = [search EXCEPT ![r].unseen = @ \ Batch(r)]
          PROVE  Types' /\ HasAccount'
      <3>1. [search[r] EXCEPT !.unseen = @ \ Batch(r)] \in SearchType
        BY <1>0 DEF SearchType
      <3>2. search' \in [Requests -> SearchType]
        BY <2>3, <3>1
      <3> QED BY <2>1, <2>2, <2>3, <3>2
    <2>4. ASSUME NEW a \in Batch(r),
                 pc' = [pc EXCEPT ![r] = "selected"],
                 search' = [search EXCEPT ![r].unseen = @ \ Batch(r), ![r].best = a]
          PROVE  Types' /\ HasAccount'
      <3>1. a \in Accounts
        BY <1>0 DEF SearchType, Batch
      <3> DEFINE e == [search[r] EXCEPT !.unseen = @ \ Batch(r), !.best = a]
      <3>2. e \in SearchType /\ e.best = a
        BY <1>0, <3>1 DEF SearchType
      <3>3. search' = [search EXCEPT ![r] = e] /\ search \in [Requests -> SearchType]
        BY <2>4
      <3>4. /\ search' \in [Requests -> SearchType]
            /\ search'[r].best = a
            /\ \A s \in Requests \ {r} : search'[s] = search[s]
        <4> HIDE DEF e
        <4> QED BY <3>2, <3>3
      <3>5. Types'
        BY <2>1, <2>2, <2>4, <3>4
      <3>6. HasAccount'
        BY <2>1, <2>4, <3>1, <3>4
      <3> QED BY <3>5, <3>6
    <2>5. \A a : a \in {b \in Batch(r) : Eligible(r, b) /\ inflight[b] < Limit} => a \in Batch(r)
      OBVIOUS
    <2> QED BY <1>2, <2>3, <2>4, <2>5 DEF ExamineBatch
  <1>3. CASE TakeSelected(r)
    BY <1>3 DEF TakeSelected, TakeSlot, SearchType
  <1>4. CASE LoseSelected(r)
    <2>1. [search[r] EXCEPT !.best = None] \in SearchType
      BY <1>0 DEF SearchType
    <2>2. search' \in [Requests -> SearchType]
      BY <1>4, <2>1 DEF LoseSelected
    <2> QED BY <1>4, <2>2 DEF LoseSelected
  <1>5. CASE EndScan(r)
    <2>1. [search[r] EXCEPT !.start = None] \in SearchType
      BY <1>0 DEF SearchType
    <2>2. search' \in [Requests -> SearchType]
      BY <1>5, <2>1 DEF EndScan
    <2> QED BY <1>5, <2>2 DEF EndScan
  <1> QED BY <1>1, <1>2, <1>3, <1>4, <1>5

LEMMA TypedEnsure ==
    ASSUME TypeOK, NEW r \in Requests, NEW from, NEW granted \in Points, NEW refused \in Points,
           EnsureUsable(r, from, granted, refused),
           \/ from = "ensure" /\ granted = "grant" /\ refused = "undo"
           \/ from = "metadataEnsure" /\ granted = "metadataTake" /\ refused = "failed"
    PROVE  TypeOK'
  <1> USE DEF TypeOK, Types, HasAccount, WithAccount, scanVars, accountVars
  <1>1. pc[r] = from /\ acct[r] \in Accounts
    BY DEF EnsureUsable
  <1>2. \E p \in {granted, refused} : pc' = [pc EXCEPT ![r] = p]
    BY DEF EnsureUsable, Go
  <1>3. /\ avail' \in [Accounts -> {"ok", "cooling", "backoff", "disabled"}]
        /\ usable' \in [Accounts -> BOOLEAN]
        /\ timerNotifies' \in BOOLEAN /\ active' \in SUBSET Accounts
        /\ rebuildPending' \in BOOLEAN
    <2>1. CASE UNCHANGED accountVars
      BY <2>1
    <2>2. CASE /\ usable' = [usable EXCEPT ![acct[r]] = TRUE]
               /\ avail' = [avail EXCEPT ![acct[r]] = IF @ = "backoff" THEN "ok" ELSE @]
               /\ rebuildPending' = TRUE
               /\ UNCHANGED <<timerNotifies, active>>
      BY <1>1, <2>2
    <2>3. ASSUME NEW cause \in {"backoff", "cooling", "disabled"},
                 avail' = [avail EXCEPT ![acct[r]] = cause],
                 rebuildPending' = TRUE, UNCHANGED <<usable, timerNotifies, active>>
          PROVE  avail' \in [Accounts -> {"ok", "cooling", "backoff", "disabled"}]
      BY <2>3
    <2>4. avail[acct[r]] \in {"ok", "cooling", "backoff", "disabled"}
      BY <1>1
    <2> QED BY <2>1, <2>2, <2>3, <2>4 DEF EnsureUsable
  <1>3a. signalled' \in [Requests -> BOOLEAN]
    <2>1. NotifyCapacity \/ signalled' = signalled
      BY DEF EnsureUsable
    <2> QED BY <2>1 DEF NotifyCapacity
  <1>4. UNCHANGED <<job, acct, scanVars, inflight, binding, events>>
    BY DEF EnsureUsable
  <1>5. pc' \in [Requests -> Points]
    BY <1>2
  <1>6. Types'
    BY <1>3, <1>3a, <1>4, <1>5
  <1>7. HasAccount'
    BY <1>1, <1>2, <1>4
  <1> QED BY <1>6, <1>7

LEMMA TypedLease ==
    ASSUME TypeOK, NEW r \in Requests,
           \/ Wake(r) \/ Cancel(r) \/ Ensure(r) \/ Undo(r) \/ UndoNotify(r) \/ Grant(r)
           \/ Release(r) \/ ReleaseNotify(r)
           \/ MetadataCheck(r) \/ MetadataEnsure(r) \/ MetadataTake(r)
    PROVE  TypeOK'
  <1>1. CASE Ensure(r)
    <2>1. EnsureUsable(r, "ensure", "grant", "undo")
      BY <1>1 DEF Ensure
    <2>2. "grant" \in Points /\ "undo" \in Points
      BY DEF Points
    <2> QED BY <2>1, <2>2, TypedEnsure
  <1>2. CASE MetadataEnsure(r)
    <2>1. EnsureUsable(r, "metadataEnsure", "metadataTake", "failed")
      BY <1>2 DEF MetadataEnsure
    <2>2. "metadataTake" \in Points /\ "failed" \in Points
      BY DEF Points
    <2> QED BY <2>1, <2>2, TypedEnsure
  <1> USE DEF TypeOK, Types, HasAccount, WithAccount, Points, Go, scanVars, slotVars, accountVars
  <1>3. CASE Wake(r)
    BY <1>3 DEF Wake
  <1>4. CASE Cancel(r)
    BY <1>4 DEF Cancel
  <1>5. CASE Undo(r)
    BY <1>5 DEF Undo, DropSlot
  <1>6. CASE UndoNotify(r)
    <2> DEFINE e == [search[r] EXCEPT !.tried = @ \cup {acct[r]}, !.best = None]
    <2>0. search[r] \in SearchType /\ acct[r] \in Accounts
      BY <1>6 DEF UndoNotify
    <2>1. search' \in [Requests -> SearchType]
      <3>1. e \in SearchType
        BY <2>0 DEF SearchType
      <3>2. search' = search \/ search' = [search EXCEPT ![r] = e]
        BY <1>6 DEF UndoNotify
      <3> HIDE DEF e
      <3> QED BY <3>1, <3>2
    <2>2. \E p \in {"scan", "failed", "unbind"} :
              pc' = [pc EXCEPT ![r] = p] /\ (p = "unbind" => job[r].kind # "pinned")
      BY <1>6 DEF UndoNotify
    <2>3. signalled' \in [Requests -> BOOLEAN]
      BY <1>6 DEF UndoNotify, NotifyCapacity
    <2>4. \A s \in Requests \ {r} : search'[s] = search[s]
      BY <1>6 DEF UndoNotify
    <2> QED BY <1>6, <2>1, <2>2, <2>3, <2>4 DEF UndoNotify
  <1>7. CASE Grant(r)
    BY <1>7, EmptyTypes DEF Grant, Forget
  <1>8. CASE Release(r)
    BY <1>8 DEF Release, DropSlot
  <1>9. CASE ReleaseNotify(r)
    BY <1>9, EmptyTypes DEF ReleaseNotify, NotifyCapacity, EmptyJob
  <1>10. CASE MetadataCheck(r)
    BY <1>10 DEF MetadataCheck
  <1>11. CASE MetadataTake(r)
    BY <1>11 DEF MetadataTake
  <1> QED BY <1>1, <1>2, <1>3, <1>4, <1>5, <1>6, <1>7, <1>8, <1>9, <1>10, <1>11

(* What happens outside the requests changes only accounts and the cache. *)
LEMMA TypedOutside ==
    ASSUME TypeOK,
           \/ \E a \in Accounts : Outside(a) \/ CooldownEnds(a)
           \/ TimerNotifies \/ Rebuild \/ Evict \/ UNCHANGED vars
    PROVE  TypeOK'
  <1> USE DEF TypeOK, Types, HasAccount, scanVars, slotVars, accountVars
  <1>1. ASSUME NEW a \in Accounts, Outside(a) PROVE TypeOK'
    <2>1. events' \in 0..MaxEvents
      BY <1>1, ConstantsAssumption DEF Outside, MarkCooldown, Disable, TokenExpires, External
    <2> QED BY <1>1, <2>1 DEF Outside, MarkCooldown, Disable, TokenExpires, External
  <1>2. ASSUME NEW a \in Accounts, CooldownEnds(a) PROVE TypeOK'
    BY <1>2 DEF CooldownEnds, Schedulable
  <1>3. CASE TimerNotifies
    BY <1>3 DEF TimerNotifies, NotifyCapacity
  <1>4. CASE Rebuild
    BY <1>4 DEF Rebuild, Schedulable
  <1>5. CASE Evict
    <2>1. events' \in 0..MaxEvents
      BY <1>5, ConstantsAssumption DEF Evict
    <2> QED BY <1>5, <2>1 DEF Evict
  <1>6. CASE UNCHANGED vars
    BY <1>6 DEF vars
  <1> QED BY <1>1, <1>2, <1>3, <1>4, <1>5, <1>6

LEMMA TypedNext == TypeOK /\ [Next]_vars => TypeOK'
  BY TypedStart, TypedBound, TypedScan, TypedLease, TypedOutside
     DEF Next, Searches, Releases, Done

(* Every variable keeps its type, and a request has an account wherever the  *)
(* code works on one, whatever the number of accounts, requests and backends.*)
THEOREM TypeCorrect == Spec => []TypeOK
  BY TypedInit, TypedNext, PTL DEF Spec

-----------------------------------------------------------------------------
(* How a step touches slots.  Every step of the pool keeps each slot where   *)
(* it is, or takes one slot, or gives one back; the count of the account     *)
(* moves with it.                                                            *)

Unmoved(s) == (HasSlot(s)' <=> HasSlot(s)) /\ acct'[s] = acct[s] /\ job'[s] = job[s]

(* r may change what it is for, but only without a slot. *)
Keeps(r) ==
    /\ inflight' = inflight
    /\ \A s \in Requests \ {r} : Unmoved(s)
    /\ \/ ~HasSlot(r) /\ ~HasSlot(r)'
       \/ HasSlot(r) /\ Unmoved(r)

Takes(r, b) ==
    /\ inflight' = [inflight EXCEPT ![b] = @ + 1]
    /\ ~HasSlot(r) /\ HasSlot(r)' /\ acct'[r] = b /\ job' = job
    /\ job[r].kind = "metadata" \/ inflight[b] < Limit
    /\ \A s \in Requests \ {r} : Unmoved(s)

Drops(r, b) ==
    /\ inflight' = [inflight EXCEPT ![b] = @ - 1]
    /\ HasSlot(r) /\ acct[r] = b /\ ~HasSlot(r)' /\ job' = job
    /\ \A s \in Requests \ {r} : Unmoved(s)

Idle == inflight' = inflight /\ \A s \in Requests : Unmoved(s)

SlotStep == \/ Idle
            \/ \E r \in Requests : Keeps(r) \/ \E b \in Accounts : Takes(r, b) \/ Drops(r, b)

LEMMA SearchSteps ==
    ASSUME TypeOK, NEW r \in Requests,
           \/ Start(r) \/ NextBackend(r) \/ Fail(r) \/ Capture(r) \/ ReadAffinity(r)
           \/ CheckBound(r) \/ BoundBusy(r) \/ Unbind(r) \/ TakeSnapshot(r) \/ ExamineBatch(r)
           \/ LoseSelected(r) \/ EndScan(r) \/ Wake(r) \/ Cancel(r) \/ UndoNotify(r)
           \/ ReleaseNotify(r) \/ MetadataCheck(r)
    PROVE  Keeps(r)
  <1> USE DEF TypeOK, Types, Points, Go, Keeps, Unmoved, HasSlot, slotVars
  <1>0. CASE Start(r)
    <2>1. job' = [job EXCEPT ![r] = job'[r]] /\ acct' = [acct EXCEPT ![r] = acct'[r]]
      BY <1>0 DEF Start
    <2>2. pc[r] = "idle" /\ \E p \in {"backend", "signal", "metadata"} :
              pc' = [pc EXCEPT ![r] = p]
      BY <1>0, ConstantsAssumption DEF Start, JobType, Kinds
    <2> QED BY <1>0, <2>1, <2>2 DEF Start
  <1>1. CASE NextBackend(r) \/ Fail(r) \/ Capture(r)
    <2>1. CASE Capture(r)
      <3>1. job[r] \in JobType
        OBVIOUS
      <3> QED BY <2>1, <3>1 DEF Capture, JobType, Kinds, Modes
    <2> QED BY <1>1, <2>1 DEF NextBackend, Fail
  <1>2. CASE ReadAffinity(r) \/ CheckBound(r) \/ BoundBusy(r) \/ Unbind(r)
    BY <1>2 DEF ReadAffinity, CheckBound, BoundBusy, Unbind
  <1>3. CASE TakeSnapshot(r)
    <2>1. /\ pc[r] = "snapshot" /\ \E p \in {"backend", "scan"} : pc' = [pc EXCEPT ![r] = p]
          /\ UNCHANGED <<job, acct, slotVars>>
      BY <1>3 DEF TakeSnapshot
    <2> QED BY <2>1
  <1>4. CASE LoseSelected(r) \/ EndScan(r) \/ Wake(r) \/ Cancel(r)
    BY <1>4 DEF LoseSelected, EndScan, Wake, Cancel
  <1>5. CASE UndoNotify(r) \/ ReleaseNotify(r) \/ MetadataCheck(r)
    BY <1>5 DEF UndoNotify, ReleaseNotify, MetadataCheck
  <1>6. CASE ExamineBatch(r)
    BY <1>6 DEF ExamineBatch
  <1> QED BY <1>0, <1>1, <1>2, <1>3, <1>4, <1>5, <1>6

LEMMA EnsureSteps ==
    ASSUME TypeOK, NEW r \in Requests, Ensure(r) \/ MetadataEnsure(r) \/ Grant(r)
    PROVE  Keeps(r)
  <1> USE DEF TypeOK, Types, Points, Keeps, Unmoved, HasSlot
  <1>1. CASE Ensure(r)
    <2>1. pc[r] = "ensure" /\ \E p \in {"grant", "undo"} : pc' = [pc EXCEPT ![r] = p]
      BY <1>1 DEF Ensure, EnsureUsable, Go
    <2>2. UNCHANGED <<job, acct, inflight>>
      BY <1>1 DEF Ensure, EnsureUsable
    <2> QED BY <2>1, <2>2
  <1>2. CASE MetadataEnsure(r)
    <2>1. /\ pc[r] = "metadataEnsure"
          /\ \E p \in {"metadataTake", "failed"} : pc' = [pc EXCEPT ![r] = p]
      BY <1>2 DEF MetadataEnsure, EnsureUsable, Go
    <2>2. UNCHANGED <<job, acct, inflight>>
      BY <1>2 DEF MetadataEnsure, EnsureUsable
    <2> QED BY <2>1, <2>2
  <1>3. CASE Grant(r)
    BY <1>3 DEF Grant, Go
  <1> QED BY <1>1, <1>2, <1>3

LEMMA TakeSteps ==
    ASSUME TypeOK, NEW r \in Requests, TakeBound(r) \/ TakeSelected(r) \/ MetadataTake(r)
    PROVE  \E b \in Accounts : Takes(r, b)
  <1> USE DEF TypeOK, Types, HasAccount, WithAccount, Points, Go, Unmoved, HasSlot
  <1>1. CASE TakeBound(r)
    <2>1. Takes(r, acct[r]) /\ acct[r] \in Accounts
      BY <1>1 DEF TakeBound, TakeSlot, Takes
    <2> QED BY <2>1 DEF Takes
  <1>2. CASE TakeSelected(r)
    <2>1. Takes(r, search[r].best) /\ search[r].best \in Accounts
      BY <1>2 DEF TakeSelected, TakeSlot, Takes
    <2> QED BY <2>1 DEF Takes
  <1>3. CASE MetadataTake(r)
    <2>1. Takes(r, acct[r]) /\ acct[r] \in Accounts
      BY <1>3 DEF MetadataTake, Takes
    <2> QED BY <2>1 DEF Takes
  <1> QED BY <1>1, <1>2, <1>3

LEMMA DropSteps ==
    ASSUME TypeOK, NEW r \in Requests, Undo(r) \/ Release(r)
    PROVE  \E b \in Accounts : Drops(r, b)
  <1> USE DEF TypeOK, Types, HasAccount, WithAccount, Points, Go, Unmoved, HasSlot
  <1>1. Drops(r, acct[r]) /\ acct[r] \in Accounts
    BY DEF Undo, Release, DropSlot, Drops
  <1> QED BY <1>1 DEF Drops

LEMMA OutsideSteps ==
    ASSUME TypeOK,
           \/ \E a \in Accounts : Outside(a) \/ CooldownEnds(a)
           \/ TimerNotifies \/ Rebuild \/ Evict \/ UNCHANGED vars
    PROVE  Idle
  <1>1. UNCHANGED <<pc, job, acct, inflight>>
    BY DEF Outside, MarkCooldown, Disable, TokenExpires, External, CooldownEnds, TimerNotifies,
           Rebuild, Evict, vars, slotVars
  <1> QED BY <1>1 DEF Idle, Unmoved, HasSlot

LEMMA EveryStep == TypeOK /\ [Next]_vars => SlotStep
  BY SearchSteps, EnsureSteps, TakeSteps, DropSteps, OutsideSteps
     DEF Next, Searches, Releases, Done, SlotStep

(* What the three kinds of steps do to the set of slots of an account. *)
LEMMA SlotSets ==
    ASSUME TypeOK, NEW a \in Accounts, NEW r \in Requests, NEW b \in Accounts
    PROVE  /\ Keeps(r) => Slots(a)' = Slots(a)
           /\ Takes(r, b) => /\ r \notin Slots(a)
                             /\ Slots(a)' = IF a = b THEN Slots(a) \cup {r} ELSE Slots(a)
           /\ Drops(r, b) => Slots(a)' = IF a = b THEN Slots(a) \ {r} ELSE Slots(a)
  BY DEF Slots, Keeps, Takes, Drops, Unmoved

LEMMA IdleSlots == Idle => \A a \in Accounts : Slots(a)' = Slots(a)
  BY DEF Slots, Idle, Unmoved

LEMMA SlotsFinite == \A a \in Accounts : IsFiniteSet(Slots(a))
  <1> TAKE a \in Accounts
  <1>1. Slots(a) \subseteq Requests
    BY DEF Slots
  <1> QED BY <1>1, ConstantsAssumption, FS_Subset

-----------------------------------------------------------------------------
(* The slot accounting.                                                      *)

LEMMA AccountingInit == Init => SlotAccounting
  <1> SUFFICES ASSUME Init, NEW a \in Accounts PROVE inflight[a] = Cardinality(Slots(a))
    BY DEF SlotAccounting
  <1>1. Slots(a) = {}
    BY DEF Init, Slots, HasSlot
  <1> QED BY <1>1, FS_EmptySet DEF Init

LEMMA AccountingNext == TypeOK /\ SlotAccounting /\ [Next]_vars => SlotAccounting'
  <1> SUFFICES ASSUME TypeOK, SlotAccounting, [Next]_vars, NEW a \in Accounts
               PROVE  inflight'[a] = Cardinality(Slots(a)')
    BY DEF SlotAccounting
  <1>1. inflight[a] = Cardinality(Slots(a)) /\ IsFiniteSet(Slots(a)) /\ inflight[a] \in Int
    BY SlotsFinite DEF SlotAccounting, TypeOK, Types
  <1>2. CASE Idle
    BY <1>1, <1>2, IdleSlots DEF Idle
  <1>3. ASSUME NEW r \in Requests, Keeps(r) PROVE inflight'[a] = Cardinality(Slots(a)')
    <2>1. Slots(a)' = Slots(a)
      BY <1>3, SlotSets
    <2> QED BY <1>1, <1>3, <2>1 DEF Keeps
  <1>4. ASSUME NEW r \in Requests, NEW b \in Accounts, Takes(r, b)
        PROVE  inflight'[a] = Cardinality(Slots(a)')
    <2>1. /\ r \notin Slots(a)
          /\ Slots(a)' = IF a = b THEN Slots(a) \cup {r} ELSE Slots(a)
      BY <1>4, SlotSets
    <2>2. inflight'[a] = IF a = b THEN inflight[a] + 1 ELSE inflight[a]
      BY <1>4 DEF Takes, TypeOK, Types
    <2>3. Cardinality(Slots(a) \cup {r}) = Cardinality(Slots(a)) + 1
      BY <1>1, <2>1, FS_AddElement
    <2> QED BY <1>1, <2>1, <2>2, <2>3
  <1>5. ASSUME NEW r \in Requests, NEW b \in Accounts, Drops(r, b)
        PROVE  inflight'[a] = Cardinality(Slots(a)')
    <2>1. Slots(a)' = IF a = b THEN Slots(a) \ {r} ELSE Slots(a)
      BY <1>5, SlotSets
    <2>2. inflight'[a] = IF a = b THEN inflight[a] - 1 ELSE inflight[a]
      BY <1>5 DEF Drops, TypeOK, Types
    <2>3. a = b => r \in Slots(a)
      BY <1>5 DEF Drops, Slots
    <2>4. r \in Slots(a) => Cardinality(Slots(a) \ {r}) = Cardinality(Slots(a)) - 1
      BY <1>1, FS_RemoveElement
    <2> QED BY <1>1, <2>1, <2>2, <2>3, <2>4
  <1> QED BY <1>2, <1>3, <1>4, <1>5, EveryStep DEF SlotStep

(* account.inflight is exactly the number of requests that took a slot of    *)
(* the account and have not given it back, in every reachable state: no path *)
(* of Acquire, of a failed refresh or of Release loses or repeats a count.   *)
THEOREM AccountingCorrect == Spec => []SlotAccounting
  BY AccountingInit, AccountingNext, TypeCorrect, PTL DEF Spec

(* However requests race, those the limit applies to occupy at most Limit    *)
(* slots of an account: the compare-and-swap of tryAcquire is enough, even   *)
(* with catalog requests counted beside them.                                *)
THEOREM LimitCorrect == Spec => []LimitRespected
  <1>1. Init => LimitRespected
    <2> SUFFICES ASSUME Init, NEW a \in Accounts
                 PROVE  Cardinality(Slots(a) \cap Ordinary) <= Limit
      BY DEF LimitRespected
    <2>1. Slots(a) \cap Ordinary = {}
      BY DEF Init, Slots, HasSlot
    <2>2. Cardinality({}) = 0 /\ 0 <= Limit
      BY FS_EmptySet, ConstantsAssumption
    <2> QED BY <2>1, <2>2
  <1>2. TypeOK /\ SlotAccounting /\ LimitRespected /\ [Next]_vars => LimitRespected'
    <2> SUFFICES ASSUME TypeOK, SlotAccounting, LimitRespected, [Next]_vars,
                        NEW a \in Accounts
                 PROVE  Cardinality((Slots(a) \cap Ordinary)') <= Limit
      BY DEF LimitRespected
    <2> DEFINE Limited == Slots(a) \cap Ordinary
    <2>1. /\ IsFiniteSet(Limited) /\ Cardinality(Limited) <= Limit
          /\ Cardinality(Limited) \in Nat /\ Limit \in Nat
          /\ Cardinality(Limited) <= inflight[a] /\ inflight[a] \in Int
      BY SlotsFinite, FS_Subset, FS_CardinalityType, ConstantsAssumption
         DEF LimitRespected, SlotAccounting, TypeOK, Types
    <2>2. CASE Limited' \subseteq Limited
      BY <2>1, <2>2, FS_Subset, FS_CardinalityType
    <2>3. ASSUME NEW r \in Requests, NEW b \in Accounts, Takes(r, b)
          PROVE  Cardinality(Limited') <= Limit
      <3>1. \/ Limited' = Limited
            \/ /\ a = b /\ r \in Ordinary
               /\ Limited' = Limited \cup {r} /\ r \notin Limited
        <4>1. Ordinary' = Ordinary
          BY <2>3 DEF Takes, Ordinary
        <4>2. /\ r \notin Slots(a)
              /\ Slots(a)' = IF a = b THEN Slots(a) \cup {r} ELSE Slots(a)
          BY <2>3, SlotSets
        <4> QED BY <4>1, <4>2
      <3>2. r \in Ordinary => inflight[b] < Limit
        BY <2>3 DEF Takes, Ordinary
      <3>3. r \notin Limited => Cardinality(Limited \cup {r}) = Cardinality(Limited) + 1
        BY <2>1, FS_AddElement
      <3> HIDE DEF Limited
      <3> QED BY <2>1, <3>1, <3>2, <3>3
    <2>4. CASE Idle
      BY <2>2, <2>4 DEF Idle, Unmoved, Slots, Ordinary
    <2>5. ASSUME NEW r \in Requests, Keeps(r) PROVE Limited' \subseteq Limited
      BY <2>5 DEF Keeps, Unmoved, Slots, Ordinary
    <2>6. ASSUME NEW r \in Requests, NEW b \in Accounts, Drops(r, b)
          PROVE  Limited' \subseteq Limited
      BY <2>6 DEF Drops, Unmoved, Slots, Ordinary
    <2> QED BY <2>2, <2>3, <2>4, <2>5, <2>6, EveryStep DEF SlotStep
  <1> QED BY <1>1, <1>2, TypeCorrect, AccountingCorrect, PTL DEF Spec

-----------------------------------------------------------------------------
(* Refinement of the abstract lease pool.                                    *)

Leased == [a \in Accounts |-> Slots(a)]
Exempt == {r \in Requests : job[r].kind = "metadata"}

LEMMA RefinesInit == Init => Leases!Init
  BY DEF Init, Leases!Init, Slots, HasSlot, EmptyJob

LEMMA RefinesNext == TypeOK /\ SlotAccounting /\ [Next]_vars => [Leases!Next]_(Leases!vars)
  <1> SUFFICES ASSUME TypeOK, SlotAccounting, [Next]_vars
               PROVE  Leases!Next \/ (Leased' = Leased /\ Exempt' = Exempt)
    BY DEF Leases!vars, Leased, Exempt
  <1>1. \A r \in Requests : Leases!Holds(r) <=> HasSlot(r)
    BY DEF Leases!Holds, Slots, HasSlot, TypeOK, Types, HasAccount, WithAccount
  <1>2. CASE Idle
    <2>1. \A a \in Accounts : Slots(a)' = Slots(a)
      BY <1>2, IdleSlots
    <2>2. Leased' = Leased
      BY <2>1 DEF Leased
    <2>3. Exempt' = Exempt
      BY <1>2 DEF Exempt, Idle, Unmoved
    <2> QED BY <2>2, <2>3
  <1>3. ASSUME NEW r \in Requests, Keeps(r)
        PROVE  Leases!Next \/ (Leased' = Leased /\ Exempt' = Exempt)
    <2>1. Leased' = Leased
      BY <1>3, SlotSets DEF Leased
    <2>2. CASE HasSlot(r)
      BY <1>3, <2>1, <2>2 DEF Exempt, Keeps, Unmoved
    <2>3. CASE ~HasSlot(r)
      <3>1. Exempt' \in {Exempt \cup {r}, Exempt \ {r}}
        BY <1>3 DEF Exempt, Keeps, Unmoved
      <3> QED BY <1>1, <2>1, <2>3, <3>1 DEF Leases!Next, Leases!Classify, Leased, Exempt
    <2> QED BY <2>2, <2>3
  <1>4. ASSUME NEW r \in Requests, NEW b \in Accounts, Takes(r, b)
        PROVE  Leases!Grant(r, b)
    <2>1. Leased' = [Leased EXCEPT ![b] = @ \cup {r}]
      BY <1>4, SlotSets DEF Leased
    <2>2. Exempt' = Exempt /\ (r \in Exempt \/ inflight[b] < Limit)
      BY <1>4 DEF Exempt, Takes
    <2>3. ~Leases!Holds(r) /\ inflight[b] = Cardinality(Slots(b))
      BY <1>1, <1>4 DEF Takes, SlotAccounting
    <2>4. Leased[b] = Slots(b)
      BY DEF Leased
    <2>5. /\ ~Leases!Holds(r)
          /\ r \in Exempt \/ Cardinality(Leased[b]) < Limit
          /\ Leased' = [Leased EXCEPT ![b] = @ \cup {r}]
          /\ Exempt' = Exempt
      BY <2>1, <2>2, <2>3, <2>4
    <2>6. Leases!Cardinality(Slots(b)) = Cardinality(Slots(b))
      BY Zenon DEF Leases!Cardinality, Cardinality, IsFiniteSet, Leases!IsFiniteSet
    <2> QED BY <2>4, <2>5, <2>6 DEF Leases!Grant, Leased, Exempt
  <1>5. ASSUME NEW r \in Requests, NEW b \in Accounts, Drops(r, b)
        PROVE  Leases!Return(r, b)
    <2>1. Leased' = [Leased EXCEPT ![b] = @ \ {r}]
      BY <1>5, SlotSets DEF Leased
    <2>2. Exempt' = Exempt /\ r \in Slots(b)
      BY <1>5 DEF Exempt, Drops, Slots
    <2> QED BY <2>1, <2>2 DEF Leases!Return, Leased, Exempt
  <1> QED BY <1>2, <1>3, <1>4, <1>5, EveryStep DEF SlotStep, Leases!Next

(* The capacity protocol, with its races, cancellations and failing          *)
(* refreshes, implements the lease pool: every step grants one lease, gives  *)
(* one back, or changes nothing a caller of the pool can see.                *)
THEOREM Refinement == Spec => ImplementsLeasePool
  BY RefinesInit, RefinesNext, TypeCorrect, AccountingCorrect, PTL
     DEF Spec, ImplementsLeasePool, Leases!Spec

-----------------------------------------------------------------------------
(* The absence of lost wake-ups.  NoLostWakeup is not inductive: it has to   *)
(* cover a request from the moment its scan has met a full account.          *)

Occupies(s) == HasSlot(s) \/ OwesNotify(s)
SomeoneOccupies == \E s \in Requests : Occupies(s)
AllSignalled == \A s \in Requests : signalled[s]

MayWait(r) ==
    /\ ~signalled[r]
    /\ pc[r] = "wait" \/ (pc[r] \in {"scan", "selected"} /\ saturated[r])

WakeInv == (\E r \in Requests : MayWait(r)) => SomeoneOccupies

SomeFull == \E a \in Accounts : inflight[a] >= Limit

(* What every step of request r does to sleepers: others are left alone or   *)
(* woken, r comes to wait only when it saw a full account, and r stops       *)
(* occupying an account only by waking everybody.                            *)
WakeStep(r) ==
    /\ \A s \in Requests \ {r} : pc'[s] = pc[s] /\ saturated'[s] = saturated[s]
    /\ AllSignalled' \/ \A s \in Requests \ {r} : signalled'[s] = signalled[s]
    /\ MayWait(r)' => MayWait(r) \/ SomeFull
    /\ Occupies(r) => Occupies(r)' \/ AllSignalled'

LEMMA FullIsOccupied ==
    ASSUME TypeOK, SlotAccounting, SomeFull
    PROVE  SomeoneOccupies
  <1>1. PICK a \in Accounts : inflight[a] >= Limit
    BY DEF SomeFull
  <1>2. Slots(a) # {}
    <2>1. Cardinality({}) = 0
      BY FS_EmptySet
    <2>2. inflight[a] = Cardinality(Slots(a)) /\ inflight[a] \in Int /\ Limit \in Nat \ {0}
      BY ConstantsAssumption DEF SlotAccounting, TypeOK, Types
    <2> QED BY <1>1, <2>1, <2>2
  <1> QED BY <1>2 DEF Slots, SomeoneOccupies, Occupies

LEMMA WakeSearch ==
    ASSUME TypeOK, NEW r \in Requests,
           \/ Start(r) \/ NextBackend(r) \/ Fail(r) \/ Capture(r) \/ ReadAffinity(r)
           \/ CheckBound(r) \/ TakeBound(r) \/ BoundBusy(r) \/ Unbind(r) \/ TakeSnapshot(r)
           \/ TakeSelected(r) \/ Wake(r) \/ Cancel(r) \/ MetadataCheck(r) \/ MetadataTake(r)
    PROVE  WakeStep(r)
  <1> USE DEF TypeOK, Types, Points, Go, WakeStep, MayWait, Occupies, HasSlot, OwesNotify,
              scanVars, slotVars
  <1>1. CASE Start(r)
    <2>1. pc[r] = "idle" /\ \E p \in {"backend", "signal", "metadata"} :
              pc' = [pc EXCEPT ![r] = p]
      BY <1>1, ConstantsAssumption DEF Start, JobType, Kinds
    <2>2. UNCHANGED <<scanVars, slotVars>>
      BY <1>1 DEF Start
    <2> QED BY <2>1, <2>2
  <1>2. CASE Capture(r)
    <2>1. pc[r] = "signal" /\ \E p \in {"bound", "snapshot", "affinity"} :
              pc' = [pc EXCEPT ![r] = p]
      <3>1. job[r] \in JobType
        OBVIOUS
      <3> QED BY <1>2, <3>1 DEF Capture, JobType, Kinds, Modes
    <2>2. UNCHANGED scanVars /\ signalled' = [signalled EXCEPT ![r] = FALSE]
      BY <1>2 DEF Capture
    <2> QED BY <2>1, <2>2
  <1>3. CASE NextBackend(r) \/ Fail(r) \/ ReadAffinity(r) \/ CheckBound(r)
    <2>1. CASE NextBackend(r)
      BY <2>1 DEF NextBackend
    <2>2. CASE Fail(r)
      BY <2>2 DEF Fail, Forget
    <2>3. CASE ReadAffinity(r) \/ CheckBound(r)
      BY <2>3 DEF ReadAffinity, CheckBound
    <2> QED BY <1>3, <2>1, <2>2, <2>3
  <1>4. CASE TakeBound(r) \/ Unbind(r) \/ TakeSelected(r) \/ Wake(r)
    BY <1>4 DEF TakeBound, Unbind, TakeSelected, Wake
  <1>5. CASE BoundBusy(r)
    <2>1. SomeFull
      BY <1>5 DEF BoundBusy, SomeFull, HasAccount, WithAccount
    <2> QED BY <1>5, <2>1 DEF BoundBusy
  <1>6. CASE TakeSnapshot(r)
    BY <1>6 DEF TakeSnapshot
  <1>7. CASE Cancel(r) \/ MetadataCheck(r) \/ MetadataTake(r)
    BY <1>7 DEF Cancel, MetadataCheck, MetadataTake
  <1> QED BY <1>1, <1>2, <1>3, <1>4, <1>5, <1>6, <1>7

LEMMA WakeScan ==
    ASSUME TypeOK, NEW r \in Requests, ExamineBatch(r) \/ LoseSelected(r) \/ EndScan(r)
    PROVE  WakeStep(r)
  <1> USE DEF TypeOK, Types, Points, Go, WakeStep, MayWait, Occupies, HasSlot, OwesNotify,
              slotVars
  <1>1. CASE ExamineBatch(r)
    <2> DEFINE full == {a \in Batch(r) : Eligible(r, a) /\ inflight[a] >= Limit}
    <2>1. /\ pc[r] = "scan" /\ \E p \in {"scan", "selected"} : pc' = [pc EXCEPT ![r] = p]
          /\ saturated' = [saturated EXCEPT ![r] = @ \/ full # {}]
          /\ UNCHANGED slotVars
      BY <1>1 DEF ExamineBatch
    <2>2. full # {} => SomeFull
      <3>1. Batch(r) \subseteq Accounts
        BY DEF Batch, SearchType
      <3> QED BY <3>1 DEF SomeFull
    <2> HIDE DEF full
    <2> QED BY <2>1, <2>2
  <1>2. CASE LoseSelected(r)
    <2>1. SomeFull
      BY <1>2 DEF LoseSelected, SomeFull, HasAccount
    <2> QED BY <1>2, <2>1 DEF LoseSelected
  <1>3. CASE EndScan(r)
    BY <1>3 DEF EndScan
  <1> QED BY <1>1, <1>2, <1>3

LEMMA WakeLease ==
    ASSUME TypeOK, NEW r \in Requests,
           \/ Ensure(r) \/ MetadataEnsure(r) \/ Undo(r) \/ UndoNotify(r) \/ Grant(r)
           \/ Release(r) \/ ReleaseNotify(r)
    PROVE  WakeStep(r)
  <1> USE DEF TypeOK, Types, Points, Go, WakeStep, MayWait, Occupies, HasSlot, OwesNotify,
              scanVars
  <1>1. CASE Ensure(r) \/ MetadataEnsure(r)
    <2>1. \/ /\ pc[r] = "ensure"
             /\ \E p \in {"grant", "undo"} : pc' = [pc EXCEPT ![r] = p]
          \/ /\ pc[r] = "metadataEnsure"
             /\ \E p \in {"metadataTake", "failed"} : pc' = [pc EXCEPT ![r] = p]
      BY <1>1 DEF Ensure, MetadataEnsure, EnsureUsable
    <2>2. UNCHANGED scanVars /\ (signalled' = signalled \/ AllSignalled')
      BY <1>1 DEF Ensure, MetadataEnsure, EnsureUsable, NotifyCapacity, AllSignalled
    <2> QED BY <2>1, <2>2
  <1>2. CASE UndoNotify(r) \/ ReleaseNotify(r)
    <2>1. AllSignalled'
      BY <1>2 DEF UndoNotify, ReleaseNotify, NotifyCapacity, AllSignalled
    <2>2. \A s \in Requests \ {r} : pc'[s] = pc[s] /\ saturated'[s] = saturated[s]
      BY <1>2 DEF UndoNotify, ReleaseNotify
    <2> QED BY <2>1, <2>2 DEF AllSignalled
  <1>3. CASE Undo(r) \/ Release(r)
    BY <1>3 DEF Undo, Release
  <1>4. CASE Grant(r)
    BY <1>4 DEF Grant, Forget
  <1> QED BY <1>1, <1>2, <1>3, <1>4

LEMMA WakeOutside ==
    ASSUME TypeOK,
           \/ \E a \in Accounts : Outside(a) \/ CooldownEnds(a)
           \/ TimerNotifies \/ Rebuild \/ Evict \/ UNCHANGED vars
    PROVE  UNCHANGED <<pc, saturated>> /\ (AllSignalled' \/ signalled' = signalled)
  BY DEF Outside, MarkCooldown, Disable, TokenExpires, External, CooldownEnds, TimerNotifies,
         NotifyCapacity, AllSignalled, Rebuild, Evict, vars, scanVars, slotVars

LEMMA WakeNext ==
    ASSUME TypeOK, SlotAccounting, WakeInv, [Next]_vars
    PROVE  WakeInv'
  <1>1. ASSUME NEW r \in Requests, WakeStep(r) PROVE WakeInv'
    <2> SUFFICES ASSUME NEW q \in Requests, MayWait(q)' PROVE SomeoneOccupies'
      BY DEF WakeInv
    <2>1. ~AllSignalled'
      BY DEF MayWait, AllSignalled
    <2>2. MayWait(q) \/ SomeFull
      BY <1>1, <2>1 DEF WakeStep, MayWait
    <2>3. PICK s \in Requests : Occupies(s)
      BY <2>2, FullIsOccupied DEF WakeInv, SomeoneOccupies
    <2>4. Occupies(s)'
      BY <1>1, <2>1, <2>3 DEF WakeStep, Occupies, HasSlot, OwesNotify
    <2> QED BY <2>4 DEF SomeoneOccupies
  <1>2. ASSUME UNCHANGED <<pc, saturated>>, AllSignalled' \/ signalled' = signalled
        PROVE  WakeInv'
    BY <1>2 DEF WakeInv, MayWait, SomeoneOccupies, Occupies, HasSlot, OwesNotify, AllSignalled
  <1> QED BY <1>1, <1>2, WakeSearch, WakeScan, WakeLease, WakeOutside
             DEF Next, Searches, Releases, Done

(* A request that sleeps on an open capacity channel will be woken: somebody *)
(* has a slot to give back or is about to close the channel.  It needs the   *)
(* channel to be captured before the accounts are examined.                  *)
THEOREM NoLostWakeupCorrect == Spec => []NoLostWakeup
  <1>1. Init => WakeInv
    BY DEF Init, WakeInv, MayWait
  <1>2. WakeInv => NoLostWakeup
    BY DEF WakeInv, NoLostWakeup, MayWait, Waiting, SomeoneOccupies, Occupies
  <1> QED BY <1>1, <1>2, WakeNext, TypeCorrect, AccountingCorrect, PTL DEF Spec
=============================================================================
