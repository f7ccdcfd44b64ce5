------------------------ MODULE InferenceAttemptsProofs ------------------------
(***************************************************************************)
(* The safety of the retry loops for every number of requests and accounts,*)
(* every set of backends and every budget: types, the accounts of leases,  *)
(* one run upstream, pinning, budgets, and when an account may be blamed.  *)
(***************************************************************************)
EXTENDS InferenceAttempts, FiniteSetTheorems, TLAPS

-----------------------------------------------------------------------------
(* The inductive invariant, one request at a time.                           *)

Points == {"choose", "leased", "fetching", "render", "send", "sent", "failed",
           "renewing", "backoff", "streaming", "ended"}
Holding == {"leased", "fetching", "render", "send", "sent", "streaming"}
Midway == {"leased", "fetching", "render", "send", "sent", "failed", "renewing"}
LoopType ==
    [on : Accounts \cup {None}, desc : Backends \cup {Gone}, used : SUBSET Accounts,
     refreshed : SUBSET Accounts, prefer : Accounts \cup {None},
     pin : Accounts \cup {None}, expected : Backends \cup {None},
     max : 1..MaxAttempts, attempts : 0..MaxAttempts, err : Errors, current : BOOLEAN]
Blames == {None, "removed", "refreshRefused", "callerLeft", "rejectedTwice"}

(* TypeOK without the lower bound of inflight, which takes the accounting.   *)
Types ==
    /\ role \in Mixes
    /\ pc \in [Requests -> Points]
    /\ lease \in [Requests -> Accounts \cup {None}]
    /\ loop \in [Requests -> LoopType]
    /\ left \in [Requests -> BOOLEAN]
    /\ account \in [Accounts -> Statuses]
    /\ catalog \in [Accounts -> Backends \cup {Gone}]
    /\ lastInference \in [Accounts -> {"recent", "longAgo"}]
    /\ inflight \in [Accounts -> Int]
    /\ changes \in 0..MaxChanges
    /\ tries \in [Requests -> Seq(Accounts)]
    /\ ran \in [Requests -> Nat]
    /\ failedRuns \in [Requests -> Nat]
    /\ blame \in [Accounts -> Blames]

(* Where a request holds a lease, and what its loop knows there.             *)
Place(r) ==
    /\ lease[r] # None <=> pc[r] \in Holding
    /\ pc[r] \in Holding => loop[r].on = lease[r]
    /\ pc[r] \in {"failed", "renewing"} => loop[r].on \in Accounts
    /\ pc[r] \in {"leased", "fetching", "render"} => r \notin Proxied
    /\ r \notin Proxied =>
         /\ pc[r] \in {"leased", "fetching", "render", "send"} => loop[r].attempts < MaxAttempts
         /\ pc[r] \in {"sent", "failed", "renewing"} => loop[r].attempts > 0

Placed == \A r \in Requests : Place(r)

-----------------------------------------------------------------------------
(* What the actions have in common.                                          *)

LEMMA Roles == ASSUME Types PROVE Pinned \cap Proxied = {}
  <1>1. role \in [Requests -> {{}, {"streaming"}, {"pinned"}, {"streaming", "pinned"},
                               {"proxied"}, {"absent"}}]
    BY AttemptsAssumption DEF Types
  <1> QED BY <1>1 DEF Pinned, Proxied

(* A request that goes on or ends keeps its loop well typed.                 *)
LEMMA LoopSteps ==
    ASSUME Types, NEW r \in Requests, NEW from, NEW to \in Points, NEW e \in Errors,
           Continue(r, from, to, e) \/ End(r, from, e)
    PROVE  loop' \in [Requests -> LoopType] /\ pc' \in [Requests -> Points]
  <1>1. MaxAttempts \in 1..MaxAttempts /\ 0 \in 0..MaxAttempts
    BY AttemptsAssumption
  <1>2. loop[r] \in LoopType
    BY DEF Types
  <1>3. CASE Continue(r, from, to, e)
    <2>1. [Forgotten(loop[r]) EXCEPT !.err = e] \in LoopType
      BY <1>2 DEF LoopType, Forgotten
    <2> QED BY <1>3, <2>1 DEF Types, Continue, Go
  <1>4. CASE End(r, from, e)
    <2>1. [Forgotten(loop[r]) EXCEPT !.err = e, !.used = {}, !.prefer = None,
                                    !.max = MaxAttempts, !.attempts = 0] \in LoopType
      BY <1>1, <1>2 DEF LoopType, Forgotten
    <2> QED BY <1>4, <2>1 DEF Types, End, Go, Points
  <1> QED BY <1>3, <1>4

LEMMA TypedInit == Init => Types /\ Placed
  <1> SUFFICES ASSUME Init PROVE Types /\ Placed
    OBVIOUS
  <1>1. MaxAttempts \in 1..MaxAttempts /\ 0 \in 0..MaxAttempts /\ 0 \in 0..MaxChanges
    BY AttemptsAssumption
  <1>2. loop \in [Requests -> LoopType]
    BY <1>1 DEF Init, LoopType, Errors, Pinned
  <1>3. Types
    <2>1. /\ role \in Mixes /\ pc \in [Requests -> Points]
          /\ lease \in [Requests -> Accounts \cup {None}] /\ left \in [Requests -> BOOLEAN]
      BY DEF Init, Points
    <2>2. /\ account \in [Accounts -> Statuses] /\ catalog \in [Accounts -> Backends \cup {Gone}]
          /\ lastInference \in [Accounts -> {"recent", "longAgo"}]
          /\ blame \in [Accounts -> Blames]
      BY AttemptsAssumption DEF Init, Statuses, Blames
    <2>3. /\ inflight \in [Accounts -> Int] /\ changes \in 0..MaxChanges
          /\ tries \in [Requests -> Seq(Accounts)] /\ ran \in [Requests -> Nat]
          /\ failedRuns \in [Requests -> Nat]
      BY <1>1 DEF Init
    <2> QED BY <1>2, <2>1, <2>2, <2>3 DEF Types
  <1>4. Placed
    BY AttemptsAssumption DEF Init, Placed, Place, Holding
  <1> QED BY <1>3, <1>4

(* The count of an account stays an integer. *)
LEMMA CountTyped ==
    ASSUME Types, NEW a \in Accounts, NEW k \in {1, 2},
           inflight' \in {[inflight EXCEPT ![a] = @ + k], [inflight EXCEPT ![a] = @ - k]}
    PROVE  inflight' \in [Accounts -> Int]
  <1>1. inflight[a] \in Int
    BY DEF Types
  <1>2. inflight[a] + k \in Int /\ inflight[a] - k \in Int
    BY <1>1
  <1> QED BY <1>2 DEF Types

(* A lease in hand is one of an account, and giving it back keeps the types. *)
LEMMA InHand ==
    ASSUME Types, Placed, NEW r \in Requests, pc[r] \in Holding
    PROVE  /\ lease[r] \in Accounts /\ loop[r].on = lease[r]
           /\ Release(r) => /\ lease' \in [Requests -> Accounts \cup {None}]
                           /\ inflight' \in [Accounts -> Int]
  <1>1. lease[r] \in Accounts /\ loop[r].on = lease[r]
    BY DEF Types, Placed, Place
  <1>2. ASSUME Release(r) PROVE inflight' \in [Accounts -> Int]
    BY <1>1, <1>2, CountTyped DEF Release
  <1>3. ASSUME Release(r) PROVE lease' \in [Requests -> Accounts \cup {None}]
    BY <1>3 DEF Release, Types
  <1> QED BY <1>1, <1>2, <1>3

LEMMA TypedLease ==
    ASSUME Types, Placed, NEW r \in Requests,
           Lease(r) \/ PreferredUnavailable(r) \/ NoAccountLeft(r) \/ LeaveQueue(r) \/ BudgetSpent(r)
    PROVE  Types'
  <1>1. loop[r] \in LoopType /\ loop[r].err \in Errors
    BY DEF Types, LoopType
  <1>2. CASE Lease(r)
    <2> PICK a \in Accounts :
            /\ Take(r, a)
            /\ loop' = [loop EXCEPT ![r].on = a, ![r].prefer = None, ![r].used = @ \cup {a},
                                    ![r].desc = catalog[a], ![r].current = TRUE]
      BY <1>2 DEF Lease
    <2>1. loop' \in [Requests -> LoopType]
      <3>1. [loop[r] EXCEPT !.on = a, !.prefer = None, !.used = @ \cup {a},
                            !.desc = catalog[a], !.current = TRUE] \in LoopType
        BY <1>1 DEF LoopType, Types
      <3> QED BY <3>1 DEF Types
    <2>2. pc' \in [Requests -> Points]
      BY <1>2 DEF Lease, Go, Types, Points
    <2>3. lease' \in [Requests -> Accounts \cup {None}] /\ inflight' \in [Accounts -> Int]
      BY DEF Take, Types
    <2> QED BY <1>2, <2>1, <2>2, <2>3 DEF Types, Lease, shared, history
  <1>3. CASE PreferredUnavailable(r)
    <2>1. PICK e \in Errors : End(r, "choose", e)
      BY <1>1, <1>3 DEF PreferredUnavailable, LastOr, Errors
    <2> QED BY <1>3, <2>1, LoopSteps DEF Types, PreferredUnavailable, Keep, shared, history, Points
  <1>4. CASE NoAccountLeft(r)
    <2>1. PICK e \in Errors : End(r, "choose", e)
      BY <1>1, <1>4 DEF NoAccountLeft, LastOr, Errors
    <2> QED BY <1>4, <2>1, LoopSteps DEF Types, NoAccountLeft, Keep, shared, history, Points
  <1>5. CASE LeaveQueue(r)
    <2>1. PICK e \in Errors : End(r, "choose", e)
      BY <1>1, <1>5 DEF LeaveQueue, LastOr, Errors
    <2> QED BY <1>5, <2>1, LoopSteps DEF Types, LeaveQueue, Keep, shared, history, Points
  <1>6. CASE BudgetSpent(r)
    <2>1. PICK e \in Errors : End(r, "choose", e)
      BY <1>1, <1>6 DEF BudgetSpent, LastOr, Errors
    <2> QED BY <1>6, <2>1, LoopSteps DEF Types, BudgetSpent, Keep, shared, history, Points
  <1> QED BY <1>2, <1>3, <1>4, <1>5, <1>6

LEMMA TypedRender ==
    ASSUME Types, Placed, NEW r \in Requests,
           \/ SkipCatalog(r) \/ FetchCatalog(r) \/ FetchFails(r) \/ FetchSucceeds(r) \/ ModelGone(r)
           \/ BackendChanged(r) \/ RenderFails(r) \/ Render(r) \/ Send(r)
    PROVE  Types'
  <1> USE DEF Types, shared, history, Go, Keep
  <1>1. loop[r] \in LoopType /\ "noModel" \in Errors /\ "unrendered" \in Errors
        /\ "stateUnavailable" \in Errors /\ "choose" \in Points
    BY DEF LoopType, Errors, Points
  <1>2. pc[r] \in Holding => lease[r] \in Accounts /\ loop[r].on \in Accounts
    BY InHand
  <1>3. CASE SkipCatalog(r)
    BY <1>3 DEF SkipCatalog, Points
  <1>4. CASE FetchCatalog(r)
    <2>1. inflight' \in [Accounts -> Int]
      <3>1. lease[r] \in Accounts
        BY <1>2, <1>4 DEF FetchCatalog, Holding
      <3> QED BY <1>4, <3>1, CountTyped DEF FetchCatalog
    <2> QED BY <1>4, <2>1 DEF FetchCatalog, Points
  <1>5. CASE FetchFails(r)
    <2>1. inflight' \in [Accounts -> Int]
      <3>1. lease[r] \in Accounts
        BY <1>2, <1>5 DEF FetchFails, Holding
      <3> QED BY <1>5, <3>1, CountTyped DEF FetchFails
    <2>2. account' \in [Accounts -> Statuses] /\ blame' \in [Accounts -> Blames]
      BY <1>5 DEF FetchFails, Statuses, Blames
    <2> QED BY <1>5, <2>1, <2>2 DEF FetchFails, Points
  <1>6. CASE FetchSucceeds(r)
    <2>1. lease[r] \in Accounts
      BY <1>2, <1>6 DEF FetchSucceeds, Holding
    <2>2. [loop[r] EXCEPT !.desc = catalog[lease[r]]] \in LoopType
      BY <1>1, <2>1 DEF LoopType
    <2>3. loop' \in [Requests -> LoopType]
      BY <1>6, <2>2 DEF FetchSucceeds
    <2>4. inflight' \in [Accounts -> Int]
      BY <1>6, <2>1, CountTyped DEF FetchSucceeds
    <2> QED BY <1>6, <2>3, <2>4 DEF FetchSucceeds, Points
  <1>7. CASE ModelGone(r)
    <2>1. loop' \in [Requests -> LoopType] /\ pc' \in [Requests -> Points]
      BY <1>1, <1>7, LoopSteps DEF ModelGone
    <2>2. lease' \in [Requests -> Accounts \cup {None}]
      BY <1>7 DEF ModelGone
    <2>3. inflight' \in [Accounts -> Int]
      <3>1. lease[r] \in Accounts
        BY <1>2, <1>7 DEF ModelGone, Holding
      <3> QED BY <1>7, <3>1, CountTyped DEF ModelGone
    <2> QED BY <1>7, <2>1, <2>2, <2>3 DEF ModelGone
  <1>8. CASE BackendChanged(r)
    <2>1. loop' \in [Requests -> LoopType] /\ pc' \in [Requests -> Points]
      BY <1>1, <1>8, LoopSteps DEF BackendChanged
    <2>2. lease' \in [Requests -> Accounts \cup {None}] /\ inflight' \in [Accounts -> Int]
      BY <1>8, InHand DEF BackendChanged, End, Holding
    <2> QED BY <1>8, <2>1, <2>2 DEF BackendChanged
  <1>9. CASE RenderFails(r)
    <2>1. loop' \in [Requests -> LoopType] /\ pc' \in [Requests -> Points]
      BY <1>1, <1>9, LoopSteps DEF RenderFails
    <2>2. lease' \in [Requests -> Accounts \cup {None}] /\ inflight' \in [Accounts -> Int]
      BY <1>9, InHand DEF RenderFails, End, Holding
    <2> QED BY <1>9, <2>1, <2>2 DEF RenderFails
  <1>10. CASE Render(r)
    <2>1. loop[r].on \in Accounts
      BY <1>2, <1>10 DEF Render, Holding
    <2>2. Retries[loop[r].on] \in 0..MaxAttempts
      BY <2>1, AttemptsAssumption DEF Unset
    <2> DEFINE limit == Retries[loop[r].on] + 1
    <2>3. [loop[r] EXCEPT !.max = IF limit < @ THEN limit ELSE @] \in LoopType
      <3>1. loop[r].max \in 1..MaxAttempts
        BY <1>1 DEF LoopType
      <3>2. (IF limit < loop[r].max THEN limit ELSE loop[r].max) \in 1..MaxAttempts
        BY <2>2, <3>1, AttemptsAssumption
      <3> HIDE DEF limit
      <3> QED BY <1>1, <3>2 DEF LoopType
    <2>4. loop' \in [Requests -> LoopType]
      BY <1>10, <2>3 DEF Render
    <2> QED BY <1>10, <2>4 DEF Render, Points
  <1>11. CASE Send(r)
    <2>1. lease[r] \in Accounts
      BY <1>2, <1>11 DEF Send, Holding
    <2>2. [loop[r] EXCEPT !.attempts = IF r \in Proxied THEN @ ELSE @ + 1] \in LoopType
      <3>1. r \notin Proxied => loop[r].attempts < MaxAttempts
        BY <1>11 DEF Send, Placed, Place
      <3>2. loop[r].attempts \in 0..MaxAttempts
        BY <1>1 DEF LoopType
      <3>3. (IF r \in Proxied THEN loop[r].attempts ELSE loop[r].attempts + 1) \in 0..MaxAttempts
        BY <3>1, <3>2, AttemptsAssumption
      <3> QED BY <1>1, <3>3 DEF LoopType
    <2>3. loop' \in [Requests -> LoopType]
      BY <1>11, <2>2 DEF Send
    <2>4. tries' \in [Requests -> Seq(Accounts)]
      BY <1>11, <2>1 DEF Send
    <2> QED BY <1>11, <2>3, <2>4 DEF Send, Points
  <1> QED
    BY <1>3, <1>4, <1>5, <1>6, <1>7, <1>8, <1>9, <1>10, <1>11

(* The counts of runs stay natural numbers. *)
LEMMA RunsTyped ==
    ASSUME Types, NEW r \in Requests, Runs(r) \/ UNCHANGED ran
    PROVE  ran' \in [Requests -> Nat]
  <1>1. ran \in [Requests -> Nat]
    BY DEF Types
  <1>2. CASE Runs(r)
    <2>1. CASE r \in Proxied
      <3>1. ran' = [ran EXCEPT ![r] = ran[r]]
        BY <1>2, <2>1 DEF Runs
      <3> QED BY <1>1, <3>1
    <2>2. CASE r \notin Proxied
      <3>1. ran' = [ran EXCEPT ![r] = ran[r] + 1]
        BY <1>2, <2>2 DEF Runs
      <3> QED BY <1>1, <3>1
    <2> QED BY <2>1, <2>2
  <1> QED BY <1>1, <1>2

LEMMA TypedAnswer ==
    ASSUME Types, Placed, NEW r \in Requests,
           TransportFails(r) \/ BodyUnreadable(r) \/ Rejected(r) \/ Succeeds(r) \/ StreamCloses(r)
    PROVE  Types'
  <1> USE DEF Types, shared, history, Go, Keep
  <1>1. loop[r] \in LoopType /\ "transport" \in Errors /\ "unread" \in Errors /\ "ok" \in Errors
        /\ "backoff" \in Points /\ Failures \subseteq Errors
    BY DEF LoopType, Errors, Failures, Points
  <1>2. (Runs(r) \/ UNCHANGED ran) => ran' \in [Requests -> Nat]
    BY RunsTyped
  <1>3. CASE TransportFails(r)
    <2>1. loop' \in [Requests -> LoopType] /\ pc' \in [Requests -> Points]
      BY <1>1, <1>3, LoopSteps DEF TransportFails
    <2>2. lease' \in [Requests -> Accounts \cup {None}] /\ inflight' \in [Accounts -> Int]
      BY <1>3, InHand DEF TransportFails, End, Holding
    <2> QED BY <1>2, <1>3, <2>1, <2>2 DEF TransportFails
  <1>4. CASE BodyUnreadable(r)
    <2>1. loop' \in [Requests -> LoopType] /\ pc' \in [Requests -> Points]
      BY <1>1, <1>4, LoopSteps DEF BodyUnreadable
    <2>2. lease' \in [Requests -> Accounts \cup {None}] /\ inflight' \in [Accounts -> Int]
      BY <1>4, InHand DEF BodyUnreadable, End, Holding
    <2> QED BY <1>2, <1>4, <2>1, <2>2 DEF BodyUnreadable
  <1>5. CASE Rejected(r)
    <2> PICK e \in Failures : loop' = [loop EXCEPT ![r].err = e]
      BY <1>5 DEF Rejected
    <2>3. ran' \in [Requests -> Nat] /\ failedRuns' \in [Requests -> Nat]
      <3>1. CASE UNCHANGED <<ran, failedRuns>>
        BY <3>1
      <3>2. CASE RunFails(r)
        BY <1>2, <3>2 DEF RunFails
      <3> QED BY <1>5, <3>1, <3>2 DEF Rejected
    <2>1. loop' \in [Requests -> LoopType]
      BY <1>1 DEF LoopType
    <2>2. lease' \in [Requests -> Accounts \cup {None}] /\ inflight' \in [Accounts -> Int]
      BY <1>5, InHand DEF Rejected, End, Holding
    <2> QED BY <1>5, <2>1, <2>2, <2>3 DEF Rejected, Points
  <1>6. CASE Succeeds(r)
    <2>1. loop' \in [Requests -> LoopType] /\ pc' \in [Requests -> Points]
      BY <1>1, <1>6, LoopSteps DEF Succeeds, Points
    <2>2. lease' \in [Requests -> Accounts \cup {None}] /\ inflight' \in [Accounts -> Int]
      BY <1>6, InHand DEF Succeeds, End, Holding
    <2> QED BY <1>2, <1>6, <2>1, <2>2 DEF Succeeds
  <1>7. CASE StreamCloses(r)
    <2>1. loop' \in [Requests -> LoopType] /\ pc' \in [Requests -> Points]
      BY <1>1, <1>7, LoopSteps DEF StreamCloses
    <2>2. lease' \in [Requests -> Accounts \cup {None}] /\ inflight' \in [Accounts -> Int]
      BY <1>7, InHand DEF StreamCloses, End, Holding
    <2> QED BY <1>7, <2>1, <2>2 DEF StreamCloses
  <1> QED BY <1>3, <1>4, <1>5, <1>6, <1>7

(* What is done to an account keeps it and its blame well typed.             *)
LEMMA Verdicts ==
    ASSUME Types, NEW a, NEW why \in Blames, RemoveAccount(a) \/ DisableAccount(a, why)
    PROVE  account' \in [Accounts -> Statuses] /\ blame' \in [Accounts -> Blames]
  <1>1. account \in [Accounts -> Statuses] /\ blame \in [Accounts -> Blames]
    BY DEF Types
  <1>2. CASE RemoveAccount(a)
    <2>1. \E status \in Statuses : account' = [account EXCEPT ![a] = status]
      BY <1>2 DEF RemoveAccount, Statuses
    <2>2. \/ UNCHANGED blame
          \/ blame' = [blame EXCEPT ![a] = blame[a]]
          \/ blame' = [blame EXCEPT ![a] = "removed"]
      BY <1>2 DEF RemoveAccount
    <2>3. account' \in [Accounts -> Statuses]
      BY <1>1, <2>1
    <2>4. blame' \in [Accounts -> Blames]
      BY <1>1, <2>2 DEF Blames
    <2> QED BY <2>3, <2>4
  <1>3. CASE DisableAccount(a, why)
    <2>1. CASE account[a] = "deleted"
      BY <1>1, <1>3, <2>1 DEF DisableAccount
    <2>2. CASE account[a] # "deleted"
      <3>1. account' = [account EXCEPT ![a] = "disabled"] /\ blame' = [blame EXCEPT ![a] = why]
        BY <1>3, <2>2 DEF DisableAccount
      <3> QED BY <1>1, <3>1 DEF Statuses
    <2> QED BY <2>1, <2>2
  <1> QED BY <1>2, <1>3

LEMMA TypedVerdict ==
    ASSUME Types, Placed, NEW r \in Requests,
           \/ Remove(r) \/ Renew(r) \/ Renewed(r) \/ RenewalFails(r) \/ RejectedAgain(r)
           \/ Unwilling(r) \/ BackoffEnds(r) \/ StreamReportsQuota(r)
    PROVE  Types'
  <1> USE DEF Types, shared, history, Keep
  <1>1. loop[r] \in LoopType /\ loop[r].err \in Errors /\ "stateUnavailable" \in Errors
        /\ "cancelled" \in Errors /\ "backoff" \in Points /\ "choose" \in Points
    BY DEF LoopType, Errors, Points
  <1>2. ASSUME NEW from, NextRound(r, from)
        PROVE  loop' \in [Requests -> LoopType] /\ pc' \in [Requests -> Points]
    BY <1>1, <1>2, LoopSteps DEF NextRound
  <1>3. CASE Remove(r)
    BY <1>2, <1>3, Verdicts DEF Remove, Blames
  <1>4. CASE Renew(r)
    <2>1. [loop[r] EXCEPT !.refreshed = @ \cup {loop[r].on}] \in LoopType
      <3>1. loop[r].on \in Accounts
        BY <1>4 DEF Renew, Go, Placed, Place
      <3> QED BY <1>1, <3>1 DEF LoopType
    <2>2. loop' \in [Requests -> LoopType]
      BY <1>4, <2>1 DEF Renew
    <2> QED BY <1>4, <2>2 DEF Renew, Go, Points
  <1>5. CASE Renewed(r)
    <2> DEFINE a == loop[r].on
               mine == [Forgotten(loop[r]) EXCEPT !.attempts = IF r \in Proxied THEN @ ELSE @ - 1,
                                                  !.used = @ \ {a}, !.prefer = a]
               other(q) == [loop[q] EXCEPT !.current = @ /\ ~(loop[r].current /\ loop[q].on = a)]
    <2>1. mine \in LoopType
      <3>1. r \notin Proxied => loop[r].attempts > 0
        BY <1>5 DEF Renewed, Go, Placed, Place
      <3>2. loop[r].attempts \in 0..MaxAttempts
        BY <1>1 DEF LoopType
      <3>3. (IF r \in Proxied THEN loop[r].attempts ELSE loop[r].attempts - 1) \in 0..MaxAttempts
        BY <3>1, <3>2, AttemptsAssumption
      <3>4. Forgotten(loop[r]) \in LoopType /\ Forgotten(loop[r]).used = loop[r].used
            /\ Forgotten(loop[r]).attempts = loop[r].attempts
        BY <1>1 DEF LoopType, Forgotten
      <3>5. a \in Accounts \cup {None} /\ loop[r].used \ {a} \in SUBSET Accounts
        BY <1>1 DEF LoopType
      <3> HIDE DEF a
      <3> QED BY <3>3, <3>4, <3>5 DEF LoopType
    <2>2. ASSUME NEW q \in Requests PROVE other(q) \in LoopType
      <3>1. loop[q] \in LoopType
        OBVIOUS
      <3> QED BY <3>1 DEF LoopType
    <2>3. loop' = [q \in Requests |-> IF q = r THEN mine ELSE other(q)]
      BY <1>5 DEF Renewed
    <2>4. loop' \in [Requests -> LoopType]
      BY <2>1, <2>2, <2>3
    <2>5. account' \in [Accounts -> Statuses]
      BY <1>5 DEF Renewed, Statuses
    <2> QED BY <1>5, <2>4, <2>5 DEF Renewed, Go, Points
  <1>6. CASE RenewalFails(r)
    <2>1. account' \in [Accounts -> Statuses] /\ blame' \in [Accounts -> Blames]
      BY <1>6, Verdicts DEF RenewalFails, Blames
    <2> QED BY <1>2, <1>6, <2>1 DEF RenewalFails
  <1>7. CASE RejectedAgain(r)
    <2>1. account' \in [Accounts -> Statuses] /\ blame' \in [Accounts -> Blames]
      BY <1>7, Verdicts DEF RejectedAgain, Blames
    <2> QED BY <1>2, <1>7, <2>1 DEF RejectedAgain
  <1>8. CASE Unwilling(r)
    <2>1. loop' \in [Requests -> LoopType] /\ pc' \in [Requests -> Points]
      BY <1>1, <1>8, LoopSteps DEF Unwilling
    <2>2. account' \in [Accounts -> Statuses]
      <3>1. \/ UNCHANGED account
            \/ \E status \in Statuses : account' = [account EXCEPT ![loop[r].on] = status]
            \/ account' = [account EXCEPT ![loop[r].on] = account[loop[r].on]]
        BY <1>8 DEF Unwilling, CoolAccount, Statuses
      <3> QED BY <3>1
    <2> QED BY <1>8, <2>1, <2>2 DEF Unwilling
  <1>9. CASE BackoffEnds(r)
    <2>1. loop' \in [Requests -> LoopType] /\ pc' \in [Requests -> Points]
      BY <1>1, <1>9, LoopSteps DEF BackoffEnds, Go, Points
    <2> QED BY <1>9, <2>1 DEF BackoffEnds
  <1>10. CASE StreamReportsQuota(r)
    <2>1. account' \in [Accounts -> Statuses] /\ blame' \in [Accounts -> Blames]
      BY <1>10, Verdicts DEF StreamReportsQuota, CoolAccount, Statuses, Blames
    <2> QED BY <1>10, <2>1 DEF StreamReportsQuota
  <1> QED
    BY <1>3, <1>4, <1>5, <1>6, <1>7, <1>8, <1>9, <1>10

(* What happens outside the loops. *)
Outside ==
    \/ \E r \in Requests : ClientLeaves(r)
    \/ \E a \in Accounts : CoolingEnds(a) \/ TimePasses(a)
    \/ UNCHANGED vars

LEMMA TypedOutside == ASSUME Types, Outside PROVE Types'
  <1> USE DEF Types, history
  <1>1. ASSUME NEW r \in Requests, ClientLeaves(r) PROVE Types'
    BY <1>1, AttemptsAssumption DEF ClientLeaves
  <1>2. ASSUME NEW a \in Accounts, CoolingEnds(a) PROVE Types'
    BY <1>2 DEF CoolingEnds, Statuses
  <1>3. ASSUME NEW a \in Accounts, TimePasses(a) PROVE Types'
    <2>1. changes' \in 0..MaxChanges
      BY <1>3, AttemptsAssumption DEF TimePasses
    <2>2. /\ catalog' \in [Accounts -> Backends \cup {Gone}]
          /\ lastInference' \in [Accounts -> {"recent", "longAgo"}]
      BY <1>3 DEF TimePasses
    <2> QED BY <1>3, <2>1, <2>2 DEF TimePasses
  <1>4. CASE UNCHANGED vars
    BY <1>4 DEF vars
  <1> QED BY <1>1, <1>2, <1>3, <1>4 DEF Outside

-----------------------------------------------------------------------------
(* What a step does, as far as the invariants can tell.                      *)

(* A request that is not the acting one: only the age of its token may change*)
Kept(q) ==
    /\ pc'[q] = pc[q] /\ lease'[q] = lease[q] /\ tries'[q] = tries[q]
    /\ ran'[q] = ran[q] /\ failedRuns'[q] = failedRuns[q]
    /\ \E now \in BOOLEAN : loop'[q] = [loop[q] EXCEPT !.current = now]

(* The acting request returns to its caller. *)
Ends(r) ==
    /\ pc[r] # "ended" /\ pc'[r] = "ended" /\ lease'[r] = None
    /\ tries'[r] = tries[r]
    /\ ran'[r] = ran[r] \/ (pc[r] = "sent" /\ ran'[r] = ran[r] + 1)
    /\ loop'[r].used = {} /\ loop'[r].refreshed = loop[r].refreshed
    /\ loop'[r].pin = loop[r].pin /\ loop'[r].expected = loop[r].expected

(* What the budget of a request is made of. *)
SameBudget(r) ==
    /\ tries'[r] = tries[r] /\ ran'[r] = ran[r]
    /\ loop'[r].used = loop[r].used /\ loop'[r].refreshed = loop[r].refreshed
    /\ loop'[r].prefer = loop[r].prefer /\ loop'[r].attempts = loop[r].attempts
    /\ loop'[r].pin = loop[r].pin /\ loop'[r].expected = loop[r].expected

(* Its round is over and another one follows. *)
GoesOn(r) ==
    /\ r \notin Pinned
    /\ pc[r] \in Midway /\ pc'[r] \in {"choose", "backoff"}
    /\ lease'[r] = None
    /\ SameBudget(r)

(* It goes on with the account it has. *)
Works(r) ==
    /\ pc[r] \in {"leased", "fetching", "render"} /\ pc'[r] \in {"fetching", "render", "send"}
    /\ lease'[r] = lease[r] /\ loop'[r].on = loop[r].on
    /\ SameBudget(r)
    /\ pc'[r] = "send" => loop'[r].desc = loop[r].desc /\ ~Mismatched(r)

(* The upstream has answered with a stream. *)
Streams(r) ==
    /\ pc[r] = "sent" /\ pc'[r] = "streaming"
    /\ lease'[r] = lease[r] /\ loop'[r] = loop[r] /\ tries'[r] = tries[r]
    /\ ran'[r] \in {ran[r], ran[r] + 1}

Resumes(r) ==
    /\ pc[r] = "backoff" /\ pc'[r] = "choose"
    /\ lease'[r] = lease[r] /\ loop'[r] = loop[r] /\ tries'[r] = tries[r] /\ ran'[r] = ran[r]

Watches(r) ==
    /\ pc'[r] = pc[r] /\ lease'[r] = lease[r] /\ loop'[r] = loop[r] /\ tries'[r] = tries[r]
    /\ ran'[r] = ran[r]

Acts(r) == Ends(r) \/ GoesOn(r) \/ Works(r) \/ Lease(r) \/ Send(r) \/ Rejected(r)
           \/ Streams(r) \/ Renew(r) \/ Renewed(r) \/ Resumes(r) \/ Watches(r)

(* Every step is one of these for the request that acts. *)
LEMMA Ended ==
    ASSUME Types, Placed, NEW r \in Requests, NEW from \in Points \ {"ended"}, NEW e \in Errors,
           End(r, from, e), tries' = tries,
           ran' = ran \/ (from = "sent" /\ Runs(r)),
           (Keep /\ from \notin Holding) \/ lease' = [lease EXCEPT ![r] = None]
    PROVE  Ends(r)
  <1>1. pc[r] = from /\ pc'[r] = "ended"
    BY DEF End, Go, Types
  <1>2. /\ loop'[r].used = {} /\ loop'[r].refreshed = loop[r].refreshed
        /\ loop'[r].pin = loop[r].pin /\ loop'[r].expected = loop[r].expected
    BY DEF End, Forgotten, Types, LoopType
  <1>3. lease'[r] = None
    BY <1>1 DEF Keep, Placed, Place, Types
  <1>4. ran'[r] = ran[r] \/ (from = "sent" /\ ran'[r] = ran[r] + 1)
    <2>1. ran \in [Requests -> Nat]
      BY DEF Types
    <2>2. CASE from = "sent" /\ Runs(r)
      <3> HIDE DEF Proxied
      <3> QED BY <2>1, <2>2 DEF Runs
    <2> QED BY <2>2
  <1> QED BY <1>1, <1>2, <1>3, <1>4 DEF Ends

LEMMA Continued ==
    ASSUME Types, Placed, NEW r \in Requests \ Pinned, NEW from \in Midway,
           NEW to \in {"choose", "backoff"}, NEW e \in Errors,
           Continue(r, from, to, e), tries' = tries, ran'[r] = ran[r],
           (Keep /\ from \notin Holding) \/ lease' = [lease EXCEPT ![r] = None]
    PROVE  GoesOn(r)
  <1>1. pc[r] = from /\ pc'[r] = to
    BY DEF Continue, Go, Types
  <1>2. SameBudget(r)
    BY DEF Continue, Forgotten, Types, LoopType, SameBudget
  <1>3. lease'[r] = None
    BY <1>1 DEF Keep, Placed, Place, Types
  <1> QED BY <1>1, <1>2, <1>3 DEF GoesOn
LEMMA HeadActs ==
    ASSUME Types, Placed, NEW r \in Requests,
           Lease(r) \/ PreferredUnavailable(r) \/ NoAccountLeft(r) \/ LeaveQueue(r) \/ BudgetSpent(r)
    PROVE  Acts(r)
  <1>1. loop[r].err \in Errors /\ "choose" \in Points \ {"ended"} /\ "choose" \notin Holding
    BY DEF Types, LoopType, Points, Holding
  <1>2. CASE Lease(r)
    BY <1>2 DEF Acts
  <1>3. CASE ~Lease(r)
    <2>1. PICK e \in Errors : End(r, "choose", e)
      BY <1>1, <1>3 DEF PreferredUnavailable, NoAccountLeft, LeaveQueue, BudgetSpent, LastOr, Errors
    <2>2. tries' = tries /\ ran' = ran /\ Keep
      BY <1>3 DEF PreferredUnavailable, NoAccountLeft, LeaveQueue, BudgetSpent, history
    <2> QED BY <1>1, <2>1, <2>2, Ended DEF Acts
  <1> QED BY <1>2, <1>3

LEMMA CatalogActs ==
    ASSUME Types, Placed, NEW r \in Requests,
           SkipCatalog(r) \/ FetchCatalog(r) \/ FetchFails(r) \/ FetchSucceeds(r) \/ ModelGone(r)
    PROVE  Acts(r)
  <1>1. CASE ModelGone(r)
    <2>1. lease' = [lease EXCEPT ![r] = None] /\ tries' = tries /\ ran' = ran
      BY <1>1 DEF ModelGone, history
    <2>2. CASE r \in Pinned
      <3>1. End(r, "fetching", "stateUnavailable")
        BY <1>1, <2>2 DEF ModelGone
      <3> QED BY <2>1, <3>1, Ended DEF Points, Errors, Acts
    <2>3. CASE r \notin Pinned
      <3>1. Continue(r, "fetching", "choose", "noModel")
        BY <1>1, <2>3 DEF ModelGone
      <3> QED BY <2>1, <2>3, <3>1, Continued DEF Midway, Errors, Acts
    <2> QED BY <2>2, <2>3
  <1>2. CASE ~ModelGone(r)
    <2>1. /\ pc[r] \in {"leased", "fetching"} /\ pc'[r] \in {"fetching", "render"}
          /\ lease' = lease /\ tries' = tries /\ ran' = ran
      BY <1>2 DEF SkipCatalog, FetchCatalog, FetchFails, FetchSucceeds, Go, Keep, history, Types
    <2>2. loop' = loop \/ \E d : loop' = [loop EXCEPT ![r].desc = d]
      BY <1>2 DEF SkipCatalog, FetchCatalog, FetchFails, FetchSucceeds
    <2>3. SameBudget(r) /\ loop'[r].on = loop[r].on
      BY <2>1, <2>2 DEF SameBudget, Types, LoopType
    <2> QED BY <2>1, <2>3 DEF Works, Acts
  <1> QED BY <1>1, <1>2

LEMMA SendActs ==
    ASSUME Types, Placed, NEW r \in Requests,
           BackendChanged(r) \/ RenderFails(r) \/ Render(r) \/ Send(r)
    PROVE  Acts(r)
  <1>1. CASE BackendChanged(r)
    <2>1. /\ lease' = [lease EXCEPT ![r] = None] /\ tries' = tries /\ ran' = ran
          /\ End(r, "render", "stateUnavailable")
      BY <1>1 DEF BackendChanged, Release, history
    <2> QED BY <2>1, Ended DEF Points, Errors, Acts
  <1>2. CASE RenderFails(r)
    <2>1. lease' = [lease EXCEPT ![r] = None] /\ tries' = tries /\ ran' = ran
      BY <1>2 DEF RenderFails, Release, history
    <2>2. CASE r \in Pinned
      <3>1. End(r, "render", "unrendered")
        BY <1>2, <2>2 DEF RenderFails
      <3> QED BY <2>1, <3>1, Ended DEF Points, Errors, Acts
    <2>3. CASE r \notin Pinned
      <3>1. Continue(r, "render", "choose", "unrendered")
        BY <1>2, <2>3 DEF RenderFails
      <3> QED BY <2>1, <2>3, <3>1, Continued DEF Midway, Errors, Acts
    <2> QED BY <2>2, <2>3
  <1>3. CASE Render(r)
    <2>1. /\ pc[r] = "render" /\ pc'[r] = "send"
          /\ lease' = lease /\ tries' = tries /\ ran' = ran /\ ~Mismatched(r)
      BY <1>3 DEF Render, Go, Keep, history, Types
    <2>2. \E m : loop' = [loop EXCEPT ![r].max = m]
      BY <1>3 DEF Render
    <2>3. SameBudget(r) /\ loop'[r].on = loop[r].on /\ loop'[r].desc = loop[r].desc
      BY <2>1, <2>2 DEF SameBudget, Types, LoopType
    <2> QED BY <2>1, <2>3 DEF Works, Acts
  <1>4. CASE Send(r)
    BY <1>4 DEF Acts
  <1> QED BY <1>1, <1>2, <1>3, <1>4
LEMMA AnswerActs ==
    ASSUME Types, Placed, NEW r \in Requests,
           TransportFails(r) \/ BodyUnreadable(r) \/ Rejected(r) \/ Succeeds(r) \/ StreamCloses(r)
    PROVE  Acts(r)
  <1>1. /\ "sent" \in Points \ {"ended"} /\ "streaming" \in Points \ {"ended"}
        /\ "sent" \in Midway
        /\ {"transport", "unread", "ok"} \subseteq Errors
    BY DEF Points, Errors, Failures, Midway
  <1>2. CASE TransportFails(r)
    <2>1. lease' = [lease EXCEPT ![r] = None] /\ tries' = tries
      BY <1>2 DEF TransportFails, Release
    <2> PICK wrote \in BOOLEAN :
            /\ IF wrote THEN Runs(r) ELSE UNCHANGED ran
            /\ IF CanRetryTransport(r, wrote)
               THEN Continue(r, "sent", "backoff", "transport")
               ELSE End(r, "sent", "transport")
      BY <1>2 DEF TransportFails
    <2>2. CASE CanRetryTransport(r, wrote)
      <3>1. r \notin Pinned /\ (wrote => r \in Proxied)
        BY <2>2 DEF CanRetryTransport
      <3>2. ran'[r] = ran[r]
        BY <3>1 DEF Runs, Types
      <3> QED BY <1>1, <2>1, <2>2, <3>1, <3>2, Continued DEF Acts
    <2>3. CASE ~CanRetryTransport(r, wrote)
      BY <1>1, <2>1, <2>3, Ended DEF Acts
    <2> QED BY <2>2, <2>3
  <1>3. CASE BodyUnreadable(r)
    <2>1. /\ lease' = [lease EXCEPT ![r] = None] /\ tries' = tries
          /\ Runs(r) \/ UNCHANGED ran
          /\ End(r, "sent", "unread")
      BY <1>3 DEF BodyUnreadable, Release
    <2> QED BY <1>1, <2>1, Ended DEF Acts
  <1>4. CASE Rejected(r)
    BY <1>4 DEF Acts
  <1>5. CASE Succeeds(r)
    <2>1. CASE r \in Streaming
      <3>1. ran'[r] \in {ran[r], ran[r] + 1}
        <4>1. ran \in [Requests -> Nat]
          BY DEF Types
        <4> QED BY <1>5, <4>1 DEF Succeeds, Runs
      <3>2. /\ pc[r] = "sent" /\ pc'[r] = "streaming"
            /\ lease'[r] = lease[r] /\ loop'[r] = loop[r] /\ tries'[r] = tries[r]
        BY <1>5, <2>1 DEF Succeeds, Go, Keep, Types
      <3> QED BY <3>1, <3>2 DEF Streams, Acts
    <2>2. CASE r \notin Streaming
      <3>1. /\ lease' = [lease EXCEPT ![r] = None] /\ tries' = tries
            /\ Runs(r) /\ End(r, "sent", "ok")
        BY <1>5, <2>2 DEF Succeeds, Release
      <3> QED BY <1>1, <3>1, Ended DEF Acts
    <2> QED BY <2>1, <2>2
  <1>6. CASE StreamCloses(r)
    <2>1. /\ lease' = [lease EXCEPT ![r] = None] /\ tries' = tries /\ ran' = ran
          /\ End(r, "streaming", "ok")
      BY <1>6 DEF StreamCloses, Release, history
    <2> QED BY <1>1, <2>1, Ended DEF Acts
  <1> QED BY <1>2, <1>3, <1>4, <1>5, <1>6

LEMMA VerdictActs ==
    ASSUME Types, Placed, NEW r \in Requests,
           \/ Remove(r) \/ Renew(r) \/ Renewed(r) \/ RenewalFails(r) \/ RejectedAgain(r)
           \/ Unwilling(r) \/ BackoffEnds(r) \/ StreamReportsQuota(r)
    PROVE  Acts(r)
  <1>1. /\ {"failed", "renewing", "backoff"} \subseteq Points \ {"ended"}
        /\ {"failed", "renewing", "backoff"} \cap Holding = {} /\ {"failed", "renewing"} \subseteq Midway
        /\ {"stateUnavailable", "cancelled"} \subseteq Errors /\ loop[r].err \in Errors
    BY DEF Points, Errors, Holding, Midway, Types, LoopType
  <1>2. ASSUME NEW from \in {"failed", "renewing"}, NextRound(r, from), Keep, tries' = tries,
               ran' = ran
        PROVE  Acts(r)
    <2>1. CASE r \in Pinned
      BY <1>1, <1>2, <2>1, Ended DEF NextRound, Acts
    <2>2. CASE r \notin Pinned
      <3>1. ran'[r] = ran[r]
        BY <1>2
      <3> QED BY <1>1, <1>2, <2>2, <3>1, Continued DEF NextRound, Acts
    <2> QED BY <2>1, <2>2
  <1>3. CASE Remove(r)
    BY <1>2, <1>3 DEF Remove
  <1>4. CASE Renew(r) \/ Renewed(r)
    BY <1>4 DEF Acts
  <1>5. CASE RenewalFails(r)
    BY <1>2, <1>5 DEF RenewalFails
  <1>6. CASE RejectedAgain(r)
    BY <1>2, <1>6 DEF RejectedAgain
  <1>7. CASE Unwilling(r)
    <2>1. Keep /\ tries' = tries /\ ran' = ran /\ ran'[r] = ran[r]
      BY <1>7 DEF Unwilling, history
    <2>2. CASE loop[r].err = "refused" \/ r \in Pinned \/ ~InBudget(r)
      BY <1>1, <1>7, <2>1, <2>2, Ended DEF Unwilling, Acts
    <2>3. CASE ~(loop[r].err = "refused" \/ r \in Pinned \/ ~InBudget(r))
      BY <1>1, <1>7, <2>1, <2>3, Continued DEF Unwilling, Acts
    <2> QED BY <2>2, <2>3
  <1>8. CASE BackoffEnds(r)
    <2>1. Keep /\ tries' = tries /\ ran' = ran
      BY <1>8 DEF BackoffEnds, history
    <2>2. CASE Go(r, "backoff", "choose") /\ UNCHANGED loop
      BY <2>1, <2>2 DEF Go, Keep, Types, Resumes, Acts
    <2>3. CASE End(r, "backoff", "cancelled")
      BY <1>1, <2>1, <2>3, Ended DEF Acts
    <2> QED BY <1>8, <2>2, <2>3 DEF BackoffEnds
  <1>9. CASE StreamReportsQuota(r)
    BY <1>9 DEF StreamReportsQuota, Keep, Watches, Acts
  <1> QED BY <1>3, <1>4, <1>5, <1>6, <1>7, <1>8, <1>9

(* The others are left alone. *)
LEMMA OthersKept ==
    ASSUME Types, NEW r \in Requests, Attempt(r) \/ StreamReportsQuota(r),
           NEW q \in Requests, q # r
    PROVE  Kept(q)
  <1>1. loop[q] \in LoopType
    BY DEF Types
  <1>2. loop[q] = [loop[q] EXCEPT !.current = loop[q].current] /\ loop[q].current \in BOOLEAN
    BY <1>1 DEF LoopType
  <1>3. pc'[q] = pc[q]
    BY DEF Attempt, Lease, PreferredUnavailable, NoAccountLeft, LeaveQueue, BudgetSpent,
           SkipCatalog, FetchCatalog, FetchFails, FetchSucceeds, ModelGone, BackendChanged,
           RenderFails, Render, Send, TransportFails, BodyUnreadable, Rejected, Succeeds, Remove,
           Renew, Renewed, RenewalFails, RejectedAgain, Unwilling, BackoffEnds, StreamCloses,
           StreamReportsQuota, Go, End, Continue, NextRound, Types
  <1>4. lease'[q] = lease[q]
    BY DEF Attempt, Lease, PreferredUnavailable, NoAccountLeft, LeaveQueue, BudgetSpent,
           SkipCatalog, FetchCatalog, FetchFails, FetchSucceeds, ModelGone, BackendChanged,
           RenderFails, Render, Send, TransportFails, BodyUnreadable, Rejected, Succeeds, Remove,
           Renew, Renewed, RenewalFails, RejectedAgain, Unwilling, BackoffEnds, StreamCloses,
           StreamReportsQuota, Keep, Take, Release, Types
  <1>5. tries'[q] = tries[q] /\ ran'[q] = ran[q] /\ failedRuns'[q] = failedRuns[q]
    BY DEF Attempt, Lease, PreferredUnavailable, NoAccountLeft, LeaveQueue, BudgetSpent,
           SkipCatalog, FetchCatalog, FetchFails, FetchSucceeds, ModelGone, BackendChanged,
           RenderFails, Render, Send, TransportFails, BodyUnreadable, Rejected, Succeeds, Remove,
           Renew, Renewed, RenewalFails, RejectedAgain, Unwilling, BackoffEnds, StreamCloses,
           StreamReportsQuota, Runs, RunFails, history, Types
  <1>6. \E now \in BOOLEAN : loop'[q] = [loop[q] EXCEPT !.current = now]
    <2>1. CASE Renewed(r)
      BY <1>1, <2>1 DEF Renewed, LoopType
    <2>2. CASE ~Renewed(r)
      <3>1. loop'[q] = loop[q]
        BY <2>2
           DEF Attempt, Lease, PreferredUnavailable, NoAccountLeft, LeaveQueue, BudgetSpent,
           SkipCatalog, FetchCatalog, FetchFails, FetchSucceeds, ModelGone, BackendChanged,
           RenderFails, Render, Send, TransportFails, BodyUnreadable, Rejected, Succeeds, Remove,
           Renew, RenewalFails, RejectedAgain, Unwilling, BackoffEnds, StreamCloses,
           StreamReportsQuota, End, Continue, NextRound, Types
      <3> QED BY <1>2, <3>1
    <2> QED BY <2>1, <2>2
  <1> QED BY <1>3, <1>4, <1>5, <1>6 DEF Kept
(* A step is one of a request, which is one of the above for it and leaves   *)
(* the others alone, or it does not touch the loops.                         *)
Unmoved == UNCHANGED <<role, pc, lease, loop, tries, ran, failedRuns>>

LEMMA Steps ==
    ASSUME Types, Placed, [Next]_vars
    PROVE  /\ Types'
           /\ role' = role
           /\ \/ Unmoved
              \/ \E r \in Requests : /\ Attempt(r) \/ StreamReportsQuota(r)
                                     /\ Acts(r)
                                     /\ \A q \in Requests \ {r} : Kept(q)
  <1>1. CASE Outside
    <2>1. Unmoved /\ role' = role
      BY <1>1 DEF Outside, ClientLeaves, CoolingEnds, TimePasses, vars, history, Unmoved
    <2> QED BY <1>1, <2>1, TypedOutside
  <1>2. ASSUME NEW r \in Requests, Attempt(r) \/ StreamReportsQuota(r)
        PROVE  /\ Types' /\ role' = role /\ Acts(r)
               /\ \A q \in Requests \ {r} : Kept(q)
    <2>1. Types'
      BY <1>2, TypedLease, TypedRender, TypedAnswer, TypedVerdict DEF Attempt
    <2>2. Acts(r)
      BY <1>2, HeadActs, CatalogActs, SendActs, AnswerActs, VerdictActs DEF Attempt
    <2>3. role' = role
      BY <1>2
         DEF Attempt, Lease, PreferredUnavailable, NoAccountLeft, LeaveQueue, BudgetSpent,
         SkipCatalog, FetchCatalog, FetchFails, FetchSucceeds, ModelGone, BackendChanged,
         RenderFails, Render, Send, TransportFails, BodyUnreadable, Rejected, Succeeds, Remove,
         Renew, Renewed, RenewalFails, RejectedAgain, Unwilling, BackoffEnds, StreamCloses,
         StreamReportsQuota, shared
    <2> QED BY <1>2, <2>1, <2>2, <2>3, OthersKept
  <1> QED BY <1>1, <1>2 DEF Next, Outside, AllEnded

(* Where the acting request gets to.                                         *)
LEMMA PlaceStep ==
    ASSUME Types, Types', Placed, role' = role, NEW r \in Requests, Acts(r)
    PROVE  Place(r)'
  <1>1. Proxied' = Proxied
    BY DEF Proxied
  <1>2. /\ loop[r] \in LoopType /\ loop'[r] \in LoopType /\ lease[r] \in Accounts \cup {None}
        /\ pc[r] \in Points /\ pc'[r] \in Points /\ Place(r)
    BY DEF Types, Placed
  <1>3. CASE Ends(r) \/ GoesOn(r)
    BY <1>3 DEF Ends, GoesOn, Place, Holding
  <1>4. CASE Works(r)
    BY <1>1, <1>2, <1>4 DEF Works, SameBudget, Place, Holding
  <1>5. CASE Lease(r)
    <2> PICK a \in Accounts :
            /\ Take(r, a)
            /\ loop' = [loop EXCEPT ![r].on = a, ![r].prefer = None, ![r].used = @ \cup {a},
                                    ![r].desc = catalog[a], ![r].current = TRUE]
      BY <1>5 DEF Lease
    <2>1. lease'[r] = a /\ a # None /\ pc'[r] = IF r \in Proxied THEN "send" ELSE "leased"
      BY <1>5, AttemptsAssumption DEF Lease, Take, Go, Types
    <2>2. loop'[r].on = a /\ loop'[r].attempts = loop[r].attempts
      BY DEF Types, LoopType
    <2>3. r \notin Proxied => loop[r].attempts < MaxAttempts
      <3>1. loop[r].max \in 1..MaxAttempts /\ loop[r].attempts \in 0..MaxAttempts
        BY <1>2 DEF LoopType
      <3>2. r \notin Proxied => loop[r].attempts < loop[r].max
        BY <1>5 DEF Lease, InBudget
      <3> QED BY <3>1, <3>2, AttemptsAssumption
    <2> QED BY <1>1, <2>1, <2>2, <2>3 DEF Place, Holding
  <1>6. CASE Send(r)
    <2>1. /\ pc[r] = "send" /\ pc'[r] = "sent" /\ lease'[r] = lease[r]
          /\ loop'[r].on = loop[r].on
          /\ r \notin Proxied => loop'[r].attempts = loop[r].attempts + 1
      BY <1>6 DEF Send, Go, Keep, Types, LoopType
    <2>2. loop[r].attempts \in 0..MaxAttempts
      BY <1>2 DEF LoopType
    <2>3. r \notin Proxied => loop'[r].attempts > 0
      BY <2>1, <2>2, AttemptsAssumption
    <2> QED BY <1>1, <1>2, <2>1, <2>3 DEF Place, Holding
  <1>7. CASE Rejected(r)
    <2>1. /\ pc[r] = "sent" /\ pc'[r] = "failed" /\ lease'[r] = None
          /\ loop'[r].on = loop[r].on /\ loop'[r].attempts = loop[r].attempts
      BY <1>7 DEF Rejected, Release, Go, Types, LoopType
    <2> QED BY <1>1, <1>2, <2>1 DEF Place, Holding
  <1>8. CASE Streams(r) \/ Resumes(r) \/ Watches(r)
    BY <1>1, <1>2, <1>8 DEF Streams, Resumes, Watches, Place, Holding
  <1>9. CASE Renew(r)
    <2>1. /\ pc[r] = "failed" /\ pc'[r] = "renewing" /\ lease'[r] = lease[r]
          /\ loop'[r].on = loop[r].on /\ loop'[r].attempts = loop[r].attempts
      BY <1>9 DEF Renew, Keep, Go, Types, LoopType
    <2> QED BY <1>1, <1>2, <2>1 DEF Place, Holding
  <1>10. CASE Renewed(r)
    <2>1. pc[r] = "renewing" /\ pc'[r] = "choose" /\ lease'[r] = lease[r]
      BY <1>10 DEF Renewed, Keep, Go, Types
    <2> QED BY <1>2, <2>1 DEF Place, Holding
  <1> QED BY <1>3, <1>4, <1>5, <1>6, <1>7, <1>8, <1>9, <1>10 DEF Acts

LEMMA PlacedStep == ASSUME Types, Placed, [Next]_vars PROVE Types' /\ Placed'
  <1>1. Types' /\ role' = role
    BY Steps
  <1>2. CASE Unmoved
    BY <1>1, <1>2 DEF Unmoved, Placed, Place, Proxied
  <1>3. ASSUME NEW r \in Requests, Acts(r), \A q \in Requests \ {r} : Kept(q)
        PROVE  Placed'
    <2>1. Place(r)'
      BY <1>1, <1>3, PlaceStep
    <2>2. ASSUME NEW q \in Requests, q # r PROVE Place(q)'
      <3>1. Kept(q) /\ Place(q) /\ Proxied' = Proxied
        BY <1>1, <1>3, <2>2 DEF Placed, Proxied
      <3>2. loop'[q].on = loop[q].on /\ loop'[q].attempts = loop[q].attempts
        BY <3>1 DEF Kept, Types, LoopType
      <3> QED BY <3>1, <3>2 DEF Kept, Place
    <2> QED BY <2>1, <2>2 DEF Placed
  <1> QED BY <1>1, <1>2, <1>3, Steps
(* A refreshed account is the one to use next, and the attempt is undone.    *)
LEMMA RenewedLoop ==
    ASSUME Types, NEW r \in Requests, Renewed(r)
    PROVE  /\ pc[r] = "renewing" /\ pc'[r] = "choose" /\ tries'[r] = tries[r]
           /\ loop'[r].prefer = loop[r].on /\ loop'[r].used = loop[r].used \ {loop[r].on}
           /\ loop'[r].attempts = IF r \in Proxied THEN loop[r].attempts ELSE loop[r].attempts - 1
           /\ loop'[r].refreshed = loop[r].refreshed
           /\ loop'[r].pin = loop[r].pin /\ loop'[r].expected = loop[r].expected
  <1>1. loop[r] \in LoopType
    BY DEF Types
  <1>2. loop'[r] = [Forgotten(loop[r]) EXCEPT
                      !.attempts = IF r \in Proxied THEN loop[r].attempts ELSE loop[r].attempts - 1,
                      !.used = loop[r].used \ {loop[r].on}, !.prefer = loop[r].on]
    BY <1>1 DEF Renewed, Forgotten, LoopType
  <1>3. pc[r] = "renewing" /\ pc'[r] = "choose" /\ tries'[r] = tries[r]
    BY DEF Renewed, Go, history, Types
  <1> QED BY <1>1, <1>2, <1>3 DEF Forgotten, LoopType

-----------------------------------------------------------------------------
(* One run upstream that the upstream has not called a failure.              *)

RanOnce(r) ==
    /\ ran[r] <= failedRuns[r] + 1
    /\ pc[r] \notin {"streaming", "ended"} => ran[r] <= failedRuns[r]

OneRun == \A r \in Requests : RanOnce(r)

(* Only an answer makes a run a failed one. *)
LEMMA FailedRunsKept ==
    ASSUME NEW r \in Requests, Attempt(r) \/ StreamReportsQuota(r)
    PROVE  failedRuns' = failedRuns \/ Rejected(r)
  BY DEF Attempt, Lease, PreferredUnavailable, NoAccountLeft, LeaveQueue, BudgetSpent,
         SkipCatalog, FetchCatalog, FetchFails, FetchSucceeds, ModelGone, BackendChanged,
         RenderFails, Render, Send, TransportFails, BodyUnreadable, Succeeds, Remove,
         Renew, Renewed, RenewalFails, RejectedAgain, Unwilling, BackoffEnds, StreamCloses,
         StreamReportsQuota, history

LEMMA RejectedOnce ==
    ASSUME Types, NEW r \in Requests, RanOnce(r), Rejected(r)
    PROVE  RanOnce(r)'
  <1>1. ran[r] \in Nat /\ failedRuns[r] \in Nat
    BY DEF Types
  <1>2. pc[r] = "sent"
    BY DEF Rejected, Go
  <1>3. CASE UNCHANGED <<ran, failedRuns>>
    BY <1>1, <1>2, <1>3 DEF RanOnce
  <1>4. CASE RunFails(r)
    <2>1. ran'[r] = ran[r] + 1 /\ failedRuns'[r] = failedRuns[r] + 1
      BY <1>4 DEF RunFails, Runs, Types
    <2> QED BY <1>1, <1>2, <2>1 DEF RanOnce
  <1> QED BY <1>3, <1>4 DEF Rejected

LEMMA OneRunStep == ASSUME Types, Placed, OneRun, [Next]_vars PROVE OneRun'
  <1>1. ran \in [Requests -> Nat] /\ failedRuns \in [Requests -> Nat]
    BY DEF Types
  <1>2. CASE Unmoved
    BY <1>2 DEF Unmoved, OneRun, RanOnce
  <1>3. ASSUME NEW r \in Requests, Attempt(r) \/ StreamReportsQuota(r), Acts(r),
               \A q \in Requests \ {r} : Kept(q)
        PROVE  OneRun'
    <2>1. RanOnce(r) /\ ran[r] \in Nat /\ failedRuns[r] \in Nat
      BY <1>1 DEF OneRun
    <2>2. RanOnce(r)'
      <3>1. CASE Rejected(r)
        BY <2>1, <3>1, RejectedOnce
      <3>2. CASE failedRuns' = failedRuns
        <4>1. CASE Ends(r) \/ Streams(r)
          BY <2>1, <3>2, <4>1 DEF Ends, Streams, RanOnce
        <4>2. CASE GoesOn(r)
          BY <2>1, <3>2, <4>2 DEF GoesOn, SameBudget, RanOnce, Midway
        <4>3. CASE Works(r) \/ Resumes(r) \/ Watches(r)
          BY <2>1, <3>2, <4>3 DEF Works, Resumes, Watches, SameBudget, RanOnce
        <4>4. CASE Lease(r) \/ Send(r) \/ Renew(r) \/ Renewed(r)
          <5>1. ran' = ran /\ pc[r] \notin {"streaming", "ended"}
            BY <4>4 DEF Lease, Send, Renew, Renewed, Go, history
          <5> QED BY <2>1, <3>2, <5>1 DEF RanOnce
        <4> QED BY <1>3, <3>1, <4>1, <4>2, <4>3, <4>4 DEF Acts
      <3> QED BY <1>3, <3>1, <3>2, FailedRunsKept
    <2>3. ASSUME NEW q \in Requests, q # r PROVE RanOnce(q)'
      BY <1>3, <2>3 DEF Kept, OneRun, RanOnce
    <2> QED BY <2>2, <2>3 DEF OneRun
  <1> QED BY <1>2, <1>3, Steps
-----------------------------------------------------------------------------
(* Requests that carry state of one account.                                 *)

Home(r) == r \in Pinned =>
    /\ loop[r].pin \in Accounts
    /\ \A i \in DOMAIN tries[r] : tries[r][i] = loop[r].pin
    /\ pc[r] \in Holding \cup {"failed", "renewing"} => loop[r].on = loop[r].pin
    /\ pc[r] = "choose" => loop[r].prefer = loop[r].pin
    /\ pc[r] # "backoff"
    /\ pc[r] \in {"send", "sent", "streaming"} => loop[r].desc = loop[r].expected

AtHome == \A r \in Requests : Home(r)

LEMMA HomeStep ==
    ASSUME Types, Types', Placed, role' = role, NEW r \in Requests, Home(r), Acts(r)
    PROVE  Home(r)'
  <1> SUFFICES ASSUME r \in Pinned PROVE Home(r)'
    BY DEF Home, Pinned
  <1>1. /\ loop[r].pin \in Accounts
        /\ \A i \in DOMAIN tries[r] : tries[r][i] = loop[r].pin
        /\ pc[r] \in Holding \cup {"failed", "renewing"} => loop[r].on = loop[r].pin
        /\ pc[r] = "choose" => loop[r].prefer = loop[r].pin
        /\ pc[r] # "backoff"
        /\ pc[r] \in {"send", "sent", "streaming"} => loop[r].desc = loop[r].expected
    BY DEF Home
  <1>2. r \notin Proxied
    BY Roles
  <1>3. CASE Ends(r)
    BY <1>1, <1>3 DEF Ends, Home, Holding
  <1>4. CASE GoesOn(r)
    BY <1>4 DEF GoesOn
  <1>5. CASE Works(r)
    BY <1>1, <1>5 DEF Works, SameBudget, Mismatched, BackendMatches, Home, Holding
  <1>6. CASE Lease(r)
    <2> PICK a \in Accounts :
            /\ IF loop[r].prefer # None
               THEN a = loop[r].prefer /\ Available(a) /\ Supports(r, a)
               ELSE a \in Eligible(r)
            /\ loop' = [loop EXCEPT ![r].on = a, ![r].prefer = None, ![r].used = @ \cup {a},
                                    ![r].desc = catalog[a], ![r].current = TRUE]
      BY <1>6 DEF Lease
    <2>1. pc[r] = "choose" /\ pc'[r] = "leased" /\ tries' = tries
      BY <1>2, <1>6 DEF Lease, Go, Types, history
    <2>2. a = loop[r].pin
      BY <1>1, <2>1, AttemptsAssumption
    <2>3. loop'[r].on = a /\ loop'[r].pin = loop[r].pin
      BY DEF Types, LoopType
    <2> QED BY <1>1, <2>1, <2>2, <2>3 DEF Home, Holding
  <1>7. CASE Send(r)
    <2>1. /\ pc[r] = "send" /\ pc'[r] = "sent" /\ tries'[r] = Append(tries[r], lease[r])
          /\ loop'[r].on = loop[r].on /\ loop'[r].pin = loop[r].pin
          /\ loop'[r].desc = loop[r].desc /\ loop'[r].expected = loop[r].expected
      BY <1>7 DEF Send, Go, Types, LoopType
    <2>2. lease[r] = loop[r].pin /\ tries[r] \in Seq(Accounts)
      BY <1>1, <2>1, InHand DEF Holding, Types
    <2>3. \A i \in DOMAIN tries'[r] : tries'[r][i] = loop[r].pin
      BY <1>1, <2>1, <2>2
    <2> QED BY <1>1, <2>1, <2>3 DEF Home, Holding
  <1>8. CASE Rejected(r)
    <2>1. /\ pc[r] = "sent" /\ pc'[r] = "failed" /\ tries'[r] = tries[r]
          /\ loop'[r].on = loop[r].on /\ loop'[r].pin = loop[r].pin
      BY <1>8 DEF Rejected, Go, history, Types, LoopType
    <2> QED BY <1>1, <2>1 DEF Home, Holding
  <1>9. CASE Streams(r) \/ Resumes(r) \/ Watches(r)
    BY <1>1, <1>9 DEF Streams, Resumes, Watches, Home, Holding
  <1>10. CASE Renew(r)
    <2>1. /\ pc[r] = "failed" /\ pc'[r] = "renewing" /\ tries'[r] = tries[r]
          /\ loop'[r].on = loop[r].on /\ loop'[r].pin = loop[r].pin
      BY <1>10 DEF Renew, Go, history, Types, LoopType
    <2> QED BY <1>1, <2>1 DEF Home, Holding
  <1>11. CASE Renewed(r)
    <2>1. /\ pc[r] = "renewing" /\ pc'[r] = "choose" /\ tries'[r] = tries[r]
          /\ loop'[r].prefer = loop[r].on /\ loop'[r].pin = loop[r].pin
      BY <1>11, RenewedLoop
    <2> QED BY <1>1, <2>1 DEF Home, Holding
  <1> QED BY <1>3, <1>4, <1>5, <1>6, <1>7, <1>8, <1>9, <1>10, <1>11 DEF Acts

LEMMA AtHomeStep == ASSUME Types, Placed, AtHome, [Next]_vars PROVE AtHome'
  <1>1. Types' /\ role' = role /\ Pinned' = Pinned
    BY Steps DEF Pinned
  <1>2. CASE Unmoved
    BY <1>1, <1>2 DEF Unmoved, AtHome, Home
  <1>3. ASSUME NEW r \in Requests, Acts(r), \A q \in Requests \ {r} : Kept(q)
        PROVE  AtHome'
    <2>1. Home(r)'
      BY <1>1, <1>3, HomeStep DEF AtHome
    <2>2. ASSUME NEW q \in Requests, q # r PROVE Home(q)'
      <3>1. Kept(q) /\ Home(q)
        BY <1>3, <2>2 DEF AtHome
      <3>2. /\ loop'[q].on = loop[q].on /\ loop'[q].prefer = loop[q].prefer
            /\ loop'[q].pin = loop[q].pin /\ loop'[q].expected = loop[q].expected
            /\ loop'[q].desc = loop[q].desc
        BY <3>1 DEF Kept, Types, LoopType
      <3> QED BY <1>1, <3>1, <3>2 DEF Kept, Home
    <2> QED BY <2>1, <2>2 DEF AtHome
  <1> QED BY <1>1, <1>2, <1>3, Steps
-----------------------------------------------------------------------------
(* Budgets.                                                                  *)

(* What an account is to a request: used, or the one to use next.            *)
Known(r) == pc[r] # "ended" =>
    /\ pc[r] # "choose" => loop[r].prefer = None
    /\ loop[r].prefer \notin loop[r].used
    /\ \A a \in Accounts : a \in loop[r].refreshed \/ Tries(r, a) # {} =>
                              a \in loop[r].used \/ a = loop[r].prefer
    /\ pc[r] \in Midway \cup {"streaming"} => loop[r].on \in loop[r].used

(* The attempts are covered by what is spent, but for one per refresh.       *)
Spent(r) == IF r \in Proxied THEN Cardinality(loop[r].used) ELSE loop[r].attempts
Reserved(r) == IF pc[r] = "renewing" \/ (pc[r] = "send" /\ r \in Proxied) THEN 1 ELSE 0
Counted(r) ==
    /\ r \in Proxied => Cardinality(loop[r].used) <= MaxAttempts
    /\ Len(tries[r]) <= MaxAttempts + Cardinality(loop[r].refreshed)
    /\ pc[r] # "ended" =>
         Len(tries[r]) + Reserved(r) <= Spent(r) + Cardinality(loop[r].refreshed)

(* An account is tried once, and once more right after its refresh.          *)
Fresh(r, a) == Tries(r, a) = IF a \in loop[r].refreshed THEN {Len(tries[r])} ELSE {}
OnceOrTwice(r, a) ==
    \/ Tries(r, a) = {}
    \/ \E i \in 1..Len(tries[r]) : Tries(r, a) = {i}
    \/ /\ a \in loop[r].refreshed
       /\ \E i \in 1..(Len(tries[r]) - 1) : Tries(r, a) = {i, i + 1}
Order(r) ==
    /\ \A a \in Accounts : OnceOrTwice(r, a)
    /\ pc[r] = "choose" /\ loop[r].prefer # None => Fresh(r, loop[r].prefer)
    /\ pc[r] \in {"leased", "fetching", "render", "send"} => Fresh(r, loop[r].on)
    /\ pc[r] \in {"sent", "failed"} =>
         Tries(r, loop[r].on) = IF loop[r].on \in loop[r].refreshed
                                THEN {Len(tries[r]) - 1, Len(tries[r])} ELSE {Len(tries[r])}
    /\ pc[r] = "renewing" =>
         Tries(r, loop[r].on) = {Len(tries[r])} /\ loop[r].on \in loop[r].refreshed

Budgeted == \A r \in Requests : Known(r) /\ Counted(r) /\ Order(r)

(* The steps that touch them. *)
LEMMA LeaseLoop ==
    ASSUME Types, NEW r \in Requests, Lease(r)
    PROVE  /\ pc[r] = "choose" /\ pc'[r] = IF r \in Proxied THEN "send" ELSE "leased"
           /\ tries'[r] = tries[r] /\ InBudget(r)
           /\ loop'[r].refreshed = loop[r].refreshed /\ loop'[r].attempts = loop[r].attempts
           /\ \E a \in Accounts :
                /\ IF loop[r].prefer # None THEN a = loop[r].prefer ELSE a \notin loop[r].used
                /\ loop'[r].on = a /\ loop'[r].prefer = None
                /\ loop'[r].used = loop[r].used \cup {a}
  <1> PICK a \in Accounts :
          /\ IF loop[r].prefer # None
             THEN a = loop[r].prefer /\ Available(a) /\ Supports(r, a)
             ELSE a \in Eligible(r)
          /\ loop' = [loop EXCEPT ![r].on = a, ![r].prefer = None, ![r].used = @ \cup {a},
                                  ![r].desc = catalog[a], ![r].current = TRUE]
    BY DEF Lease
  <1>1. /\ pc[r] = "choose" /\ pc'[r] = IF r \in Proxied THEN "send" ELSE "leased"
        /\ tries'[r] = tries[r] /\ InBudget(r)
    BY DEF Lease, Go, Types, history
  <1>2. /\ loop'[r].refreshed = loop[r].refreshed /\ loop'[r].attempts = loop[r].attempts
        /\ loop'[r].on = a /\ loop'[r].prefer = None /\ loop'[r].used = loop[r].used \cup {a}
    BY DEF Types, LoopType
  <1> QED BY <1>1, <1>2 DEF Eligible

LEMMA SendLoop ==
    ASSUME Types, Placed, NEW r \in Requests, Send(r)
    PROVE  /\ pc[r] = "send" /\ pc'[r] = "sent"
           /\ loop[r].on \in Accounts /\ loop'[r].on = loop[r].on
           /\ tries'[r] = Append(tries[r], loop[r].on)
           /\ loop'[r].refreshed = loop[r].refreshed /\ loop'[r].prefer = loop[r].prefer
           /\ loop'[r].used = loop[r].used
           /\ loop'[r].attempts = IF r \in Proxied THEN loop[r].attempts ELSE loop[r].attempts + 1
  <1>1. /\ pc[r] = "send" /\ pc'[r] = "sent" /\ tries'[r] = Append(tries[r], lease[r])
    BY DEF Send, Go, Types
  <1>2. lease[r] \in Accounts /\ loop[r].on = lease[r]
    BY <1>1, InHand DEF Holding
  <1>3. /\ loop'[r].on = loop[r].on /\ loop'[r].refreshed = loop[r].refreshed
        /\ loop'[r].prefer = loop[r].prefer /\ loop'[r].used = loop[r].used
        /\ loop'[r].attempts = IF r \in Proxied THEN loop[r].attempts ELSE loop[r].attempts + 1
    BY DEF Send, Types, LoopType
  <1> QED BY <1>1, <1>2, <1>3

LEMMA RejectedLoop ==
    ASSUME Types, NEW r \in Requests, Rejected(r)
    PROVE  /\ pc[r] = "sent" /\ pc'[r] = "failed" /\ tries'[r] = tries[r]
           /\ loop'[r].on = loop[r].on /\ loop'[r].prefer = loop[r].prefer
           /\ loop'[r].refreshed = loop[r].refreshed /\ loop'[r].used = loop[r].used
           /\ loop'[r].attempts = loop[r].attempts
  BY DEF Rejected, Go, history, Types, LoopType

LEMMA RenewLoop ==
    ASSUME Types, Placed, NEW r \in Requests, Renew(r)
    PROVE  /\ pc[r] = "failed" /\ pc'[r] = "renewing" /\ tries'[r] = tries[r]
           /\ loop[r].on \in Accounts \ loop[r].refreshed
           /\ loop'[r].on = loop[r].on /\ loop'[r].prefer = loop[r].prefer
           /\ loop'[r].refreshed = loop[r].refreshed \cup {loop[r].on}
           /\ loop'[r].used = loop[r].used /\ loop'[r].attempts = loop[r].attempts
  <1>1. pc[r] = "failed" /\ pc'[r] = "renewing" /\ tries'[r] = tries[r]
    BY DEF Renew, Go, history, Types
  <1>2. loop[r].on \in Accounts \ loop[r].refreshed
    BY <1>1 DEF Renew, Placed, Place
  <1>3. /\ loop'[r].on = loop[r].on /\ loop'[r].prefer = loop[r].prefer
        /\ loop'[r].refreshed = loop[r].refreshed \cup {loop[r].on}
        /\ loop'[r].used = loop[r].used /\ loop'[r].attempts = loop[r].attempts
    BY DEF Renew, Types, LoopType
  <1> QED BY <1>1, <1>2, <1>3

(* The attempts of an account, one sent and none sent. *)
LEMMA TriesSent ==
    ASSUME NEW r, NEW b \in Accounts, tries[r] \in Seq(Accounts),
           tries'[r] = Append(tries[r], b)
    PROVE  /\ Len(tries'[r]) = Len(tries[r]) + 1
           /\ Tries(r, b)' = Tries(r, b) \cup {Len(tries[r]) + 1}
           /\ \A a \in Accounts \ {b} : Tries(r, a)' = Tries(r, a)
  BY DEF Tries

LEMMA TriesKept ==
    ASSUME NEW r, tries'[r] = tries[r]
    PROVE  \A a : Tries(r, a)' = Tries(r, a)
  BY DEF Tries

LEMMA TriesBounds ==
    ASSUME NEW r, NEW a, tries[r] \in Seq(Accounts)
    PROVE  Tries(r, a) \subseteq 1..Len(tries[r]) /\ Len(tries[r]) \in Nat
  BY DEF Tries
LEMMA KnownStep ==
    ASSUME Types, Placed, NEW r \in Requests, Known(r), Acts(r)
    PROVE  Known(r)'
  <1>1. /\ tries[r] \in Seq(Accounts) /\ None \notin Accounts
        /\ loop[r].used \subseteq Accounts /\ loop[r].refreshed \subseteq Accounts
    BY AttemptsAssumption DEF Types, LoopType
  <1>2. CASE Ends(r)
    BY <1>2 DEF Ends, Known
  <1>3. CASE GoesOn(r)
    BY <1>3, TriesKept DEF GoesOn, SameBudget, Known, Midway
  <1>4. CASE Works(r)
    BY <1>4, TriesKept DEF Works, SameBudget, Known, Midway
  <1>5. CASE Streams(r) \/ Resumes(r) \/ Watches(r)
    BY <1>5, TriesKept DEF Streams, Resumes, Watches, Known, Midway
  <1>6. CASE Lease(r)
    BY <1>1, <1>6, LeaseLoop, TriesKept DEF Known
  <1>7. CASE Send(r)
    <2>1. \A a \in Accounts \ {loop[r].on} : Tries(r, a)' = Tries(r, a)
      BY <1>1, <1>7, SendLoop, TriesSent
    <2>2. loop[r].on \in loop[r].used /\ loop[r].prefer = None
      BY <1>7, SendLoop DEF Known, Midway
    <2> QED BY <1>1, <1>7, <2>1, <2>2, SendLoop DEF Known
  <1>8. CASE Rejected(r)
    BY <1>8, RejectedLoop, TriesKept DEF Known, Midway
  <1>9. CASE Renew(r)
    BY <1>9, RenewLoop, TriesKept DEF Known, Midway
  <1>10. CASE Renewed(r)
    BY <1>1, <1>10, RenewedLoop, TriesKept DEF Known, Midway
  <1> QED BY <1>2, <1>3, <1>4, <1>5, <1>6, <1>7, <1>8, <1>9, <1>10 DEF Acts

LEMMA OnceOrTwiceKept ==
    ASSUME NEW r, tries'[r] = tries[r], loop[r].refreshed \subseteq loop'[r].refreshed
    PROVE  \A a : OnceOrTwice(r, a) => OnceOrTwice(r, a)'
  BY TriesKept DEF OnceOrTwice

LEMMA OrderStep ==
    ASSUME Types, Placed, NEW r \in Requests, Known(r), Order(r), Acts(r)
    PROVE  Order(r)'
  <1>1. /\ tries[r] \in Seq(Accounts) /\ None \notin Accounts /\ Len(tries[r]) \in Nat
        /\ loop[r].used \subseteq Accounts /\ loop[r].refreshed \subseteq Accounts
    BY AttemptsAssumption DEF Types, LoopType
  <1>2. CASE Ends(r)
    BY <1>2, OnceOrTwiceKept DEF Ends, Order
  <1>3. CASE GoesOn(r)
    BY <1>3, OnceOrTwiceKept DEF GoesOn, SameBudget, Known, Midway, Order
  <1>4. CASE Works(r)
    BY <1>4, TriesKept, OnceOrTwiceKept DEF Works, SameBudget, Order, Fresh
  <1>5. CASE Streams(r) \/ Resumes(r) \/ Watches(r)
    <2>1. CASE Streams(r)
      BY <2>1, TriesKept, OnceOrTwiceKept DEF Streams, Order
    <2>2. CASE Resumes(r)
      BY <2>2, TriesKept, OnceOrTwiceKept DEF Resumes, Known, Order
    <2>3. CASE Watches(r)
      BY <2>3, TriesKept, OnceOrTwiceKept DEF Watches, Order, Fresh
    <2> QED BY <1>5, <2>1, <2>2, <2>3
  <1>6. CASE Lease(r)
    <2> PICK a \in Accounts :
          /\ IF loop[r].prefer # None THEN a = loop[r].prefer ELSE a \notin loop[r].used
          /\ loop'[r].on = a /\ loop'[r].prefer = None
          /\ loop'[r].used = loop[r].used \cup {a}
      BY <1>6, LeaseLoop
    <2>1. Fresh(r, a)
      BY <1>1, <1>6, LeaseLoop DEF Order, Known, Fresh
    <2> QED BY <1>6, <2>1, LeaseLoop, TriesKept, OnceOrTwiceKept DEF Order, Fresh
  <1>7. CASE Send(r)
    <2> PICK b \in Accounts : b = loop[r].on
      BY <1>7, SendLoop
    <2> DEFINE n == Len(tries[r])
               again == b \in loop[r].refreshed
    <2>1. /\ pc[r] = "send" /\ pc'[r] = "sent" /\ loop'[r].on = b
          /\ loop'[r].refreshed = loop[r].refreshed
      BY <1>7, SendLoop
    <2>2. /\ Len(tries'[r]) = n + 1 /\ Tries(r, b)' = Tries(r, b) \cup {n + 1}
          /\ \A a \in Accounts \ {b} : Tries(r, a)' = Tries(r, a)
      BY <1>1, <1>7, SendLoop, TriesSent
    <2>3. Tries(r, b) = IF again THEN {n} ELSE {}
      BY <2>1 DEF Order, Fresh
    <2>4. Tries(r, b)' = IF again THEN {n, n + 1} ELSE {n + 1}
      BY <2>2, <2>3
    <2>5. again => n \in 1..n
      BY <1>1, <2>3, TriesBounds
    <2>6. OnceOrTwice(r, b)'
      <3>1. CASE again
        <4>1. n \in 1..((n + 1) - 1)
          BY <2>5, <3>1
        <4> QED BY <2>1, <2>2, <2>4, <3>1, <4>1 DEF OnceOrTwice
      <3>2. CASE ~again
        <4>1. n + 1 \in 1..(n + 1)
          BY <1>1
        <4> QED BY <2>2, <2>4, <3>2, <4>1 DEF OnceOrTwice
      <3> QED BY <3>1, <3>2
    <2>7. ASSUME NEW a \in Accounts, a # b PROVE OnceOrTwice(r, a)'
      <3>1. Tries(r, a)' = Tries(r, a)
        BY <2>2, <2>7
      <3>2. OnceOrTwice(r, a)
        BY DEF Order
      <3>3. 1..n \subseteq 1..(n + 1) /\ 1..(n - 1) \subseteq 1..((n + 1) - 1)
        BY <1>1
      <3> QED BY <2>1, <2>2, <3>1, <3>2, <3>3 DEF OnceOrTwice
    <2>8. Tries(r, b)' = IF b \in loop'[r].refreshed
                        THEN {Len(tries'[r]) - 1, Len(tries'[r])} ELSE {Len(tries'[r])}
      <3>1. n = (n + 1) - 1
        BY <1>1
      <3> QED BY <2>1, <2>2, <2>4, <3>1
    <2> HIDE DEF n, again
    <2> QED BY <2>1, <2>6, <2>7, <2>8 DEF Order
  <1>8. CASE Rejected(r)
    <2> PICK b : b = loop[r].on
      OBVIOUS
    <2>1. /\ pc[r] = "sent" /\ pc'[r] = "failed" /\ loop'[r].on = b /\ tries'[r] = tries[r]
          /\ loop'[r].refreshed = loop[r].refreshed
      BY <1>8, RejectedLoop
    <2>2. Tries(r, b)' = Tries(r, b)
      BY <2>1, TriesKept
    <2>3. \A a \in Accounts : OnceOrTwice(r, a)'
      BY <2>1, OnceOrTwiceKept DEF Order
    <2> QED BY <2>1, <2>2, <2>3 DEF Order
  <1>9. CASE Renew(r)
    BY <1>9, RenewLoop, TriesKept, OnceOrTwiceKept DEF Order
  <1>10. CASE Renewed(r)
    <2> PICK b : b = loop[r].on
      OBVIOUS
    <2>1. /\ pc[r] = "renewing" /\ pc'[r] = "choose" /\ loop'[r].prefer = b /\ tries'[r] = tries[r]
          /\ loop'[r].refreshed = loop[r].refreshed
      BY <1>10, RenewedLoop
    <2>2. Tries(r, b)' = Tries(r, b)
      BY <2>1, TriesKept
    <2>3. \A a \in Accounts : OnceOrTwice(r, a)'
      BY <2>1, OnceOrTwiceKept DEF Order
    <2> QED BY <2>1, <2>2, <2>3 DEF Order, Fresh
  <1> QED BY <1>2, <1>3, <1>4, <1>5, <1>6, <1>7, <1>8, <1>9, <1>10 DEF Acts
LEMMA CountedStep ==
    ASSUME Types, Types', Placed, role' = role, NEW r \in Requests, Known(r), Counted(r), Acts(r)
    PROVE  Counted(r)'
  <1> DEFINE C == Cardinality(loop[r].refreshed)
             U == Cardinality(loop[r].used)
  <1>1. /\ loop[r] \in LoopType /\ loop'[r] \in LoopType /\ tries[r] \in Seq(Accounts)
        /\ Proxied' = Proxied
    BY DEF Types, Proxied
  <1>2. /\ IsFiniteSet(loop[r].used) /\ IsFiniteSet(loop[r].refreshed)
        /\ C \in Nat /\ U \in Nat /\ Len(tries[r]) \in Nat
        /\ loop[r].attempts \in 0..MaxAttempts /\ loop'[r].attempts \in 0..MaxAttempts
        /\ MaxAttempts \in Nat
    <2>1. loop[r].used \subseteq Accounts /\ loop[r].refreshed \subseteq Accounts
      BY <1>1 DEF LoopType
    <2>2. IsFiniteSet(loop[r].used) /\ IsFiniteSet(loop[r].refreshed)
      BY <2>1, AttemptsAssumption, FS_Subset
    <2>3. C \in Nat /\ U \in Nat
      BY <2>2, FS_CardinalityType
    <2>4. Len(tries[r]) \in Nat /\ MaxAttempts \in Nat
      BY <1>1, AttemptsAssumption
    <2> QED BY <1>1, <2>2, <2>3, <2>4 DEF LoopType
  <1>3. /\ r \in Proxied => U <= MaxAttempts
        /\ Len(tries[r]) <= MaxAttempts + C
        /\ pc[r] # "ended" => Len(tries[r]) + Reserved(r) <= Spent(r) + C
    BY DEF Counted
  <1>4. CASE Ends(r)
    <2>1. Cardinality(loop'[r].used) = 0
      BY <1>4, FS_EmptySet DEF Ends
    <2> HIDE DEF C, U
    <2> QED BY <1>1, <1>2, <1>3, <1>4, <2>1 DEF Ends, Counted, C
  <1>5. ASSUME SameBudget(r), pc[r] # "ended", Reserved(r)' = 0
        PROVE  Counted(r)'
    <2>1. Spent(r)' = Spent(r) /\ Spent(r) \in Nat
      BY <1>1, <1>2, <1>5 DEF SameBudget, Spent
    <2>2. Reserved(r) \in {0, 1} /\ Len(tries[r]) + Reserved(r) <= Spent(r) + C
      BY <1>3, <1>5 DEF Reserved
    <2> HIDE DEF C, U
    <2>3. Len(tries[r]) + 0 <= Spent(r) + C
      BY <1>2, <2>1, <2>2
    <2> QED BY <1>1, <1>3, <1>5, <2>1, <2>3 DEF SameBudget, Counted, C, U
  <1>6. CASE GoesOn(r) \/ Works(r)
    <2>1. Reserved(r)' = 0 /\ pc[r] # "ended" /\ SameBudget(r)
      BY <1>1, <1>6 DEF GoesOn, Works, Midway, Reserved, Placed, Place
    <2> QED BY <1>5, <2>1
  <1>7. CASE Streams(r) \/ Resumes(r) \/ Watches(r)
    BY <1>1, <1>2, <1>3, <1>7 DEF Streams, Resumes, Watches, Counted, Spent, Reserved
  <1>8. CASE Lease(r)
    <2> PICK a \in Accounts :
          /\ IF loop[r].prefer # None THEN a = loop[r].prefer ELSE a \notin loop[r].used
          /\ loop'[r].used = loop[r].used \cup {a}
      BY <1>8, LeaseLoop
    <2>1. /\ pc[r] = "choose" /\ pc'[r] = IF r \in Proxied THEN "send" ELSE "leased"
          /\ tries'[r] = tries[r] /\ loop'[r].refreshed = loop[r].refreshed
          /\ loop'[r].attempts = loop[r].attempts /\ InBudget(r)
      BY <1>8, LeaseLoop
    <2>2. a \notin loop[r].used
      BY <2>1 DEF Known
    <2>3. Cardinality(loop'[r].used) = U + 1
      <3>1. loop'[r].used = loop[r].used \cup {a}
        OBVIOUS
      <3>2. IsFiniteSet(loop[r].used)
        BY <1>2
      <3>3. Cardinality(loop[r].used \cup {a}) = Cardinality(loop[r].used) + 1
        BY <2>2, <3>2, FS_AddElement
      <3> QED BY <3>1, <3>3
    <2>4. r \in Proxied => U < MaxAttempts
      BY <2>1 DEF InBudget
    <2> HIDE DEF C, U
    <2>5. CASE r \in Proxied
      <3>1. Len(tries[r]) <= U + C
        BY <1>2, <1>3, <2>1, <2>5 DEF Reserved, Spent, U
      <3>2. Len(tries[r]) + 1 <= (U + 1) + C /\ U + 1 <= MaxAttempts
        BY <1>2, <2>4, <2>5, <3>1
      <3> QED BY <1>1, <1>3, <2>1, <2>3, <2>5, <3>2 DEF Counted, Spent, Reserved, C
    <2>6. CASE r \notin Proxied
      BY <1>1, <1>2, <1>3, <2>1, <2>6 DEF Counted, Spent, Reserved, C
    <2> QED BY <2>5, <2>6
  <1>9. CASE Send(r)
    <2>1. /\ pc[r] = "send" /\ pc'[r] = "sent" /\ Len(tries'[r]) = Len(tries[r]) + 1
          /\ loop'[r].refreshed = loop[r].refreshed /\ loop'[r].used = loop[r].used
          /\ loop'[r].attempts = IF r \in Proxied THEN loop[r].attempts ELSE loop[r].attempts + 1
      BY <1>1, <1>9, SendLoop, TriesSent
    <2> HIDE DEF C, U
    <2>2. CASE r \in Proxied
      <3>1. Len(tries[r]) + 1 <= U + C
        BY <1>2, <1>3, <2>1, <2>2 DEF Reserved, Spent, U
      <3>2. Len(tries[r]) + 1 <= MaxAttempts + C /\ Len(tries[r]) + 1 + 0 <= U + C
        BY <1>2, <1>3, <2>2, <3>1
      <3> QED BY <1>1, <1>3, <2>1, <2>2, <3>2 DEF Counted, Spent, Reserved, C, U
    <2>3. CASE r \notin Proxied
      <3>1. Len(tries[r]) <= loop[r].attempts + C
        BY <1>2, <1>3, <2>1, <2>3 DEF Reserved, Spent
      <3>2. /\ Len(tries[r]) + 1 + 0 <= loop'[r].attempts + C
            /\ Len(tries[r]) + 1 <= MaxAttempts + C
        BY <1>2, <2>1, <2>3, <3>1
      <3> QED BY <1>1, <2>1, <2>3, <3>2 DEF Counted, Spent, Reserved, C
    <2> QED BY <2>2, <2>3
  <1>10. CASE Rejected(r)
    BY <1>1, <1>2, <1>3, <1>10, RejectedLoop DEF Counted, Spent, Reserved
  <1>11. CASE Renew(r)
    <2> PICK b \in Accounts : b = loop[r].on /\ b \notin loop[r].refreshed
      BY <1>11, RenewLoop
    <2>1. Cardinality(loop'[r].refreshed) = C + 1
      <3>1. loop'[r].refreshed = loop[r].refreshed \cup {b}
        BY <1>11, RenewLoop
      <3> QED BY <1>2, <3>1, FS_AddElement
    <2> HIDE DEF C, U
    <2>2. Spent(r)' = Spent(r) /\ Spent(r) \in Nat
      BY <1>1, <1>2, <1>11, RenewLoop DEF Spent, U
    <2>3. Len(tries[r]) + 0 <= Spent(r) + C /\ Reserved(r)' = 1
      BY <1>3, <1>11, RenewLoop DEF Reserved
    <2>4. Len(tries[r]) + 1 <= Spent(r) + (C + 1) /\ Len(tries[r]) <= MaxAttempts + (C + 1)
      BY <1>2, <1>3, <2>2, <2>3
    <2> QED BY <1>1, <1>3, <1>11, <2>1, <2>2, <2>3, <2>4, RenewLoop DEF Counted, U
  <1>12. CASE Renewed(r)
    <2>1. /\ pc[r] = "renewing" /\ pc'[r] = "choose" /\ tries'[r] = tries[r]
          /\ loop'[r].used = loop[r].used \ {loop[r].on} /\ loop'[r].refreshed = loop[r].refreshed
          /\ loop'[r].attempts = IF r \in Proxied THEN loop[r].attempts ELSE loop[r].attempts - 1
      BY <1>12, RenewedLoop
    <2>2. Cardinality(loop'[r].used) = U - 1
      <3> PICK b : b = loop[r].on
        OBVIOUS
      <3>1. b \in loop[r].used /\ loop'[r].used = loop[r].used \ {b}
        BY <2>1 DEF Known, Midway
      <3>2. Cardinality(loop[r].used \ {b}) = Cardinality(loop[r].used) - 1
        BY <1>2, <3>1, FS_RemoveElement
      <3> QED BY <3>1, <3>2
    <2> HIDE DEF C, U
    <2>3. Len(tries[r]) + 1 <= Spent(r) + C /\ Reserved(r)' = 0
      BY <1>3, <2>1 DEF Reserved
    <2>4. Spent(r)' = Spent(r) - 1 /\ Spent(r) \in Nat
      BY <1>1, <1>2, <2>1, <2>2 DEF Spent, U
    <2>5. Len(tries[r]) + 0 <= (Spent(r) - 1) + C
      BY <1>2, <2>3, <2>4
    <2>6. r \in Proxied => U - 1 <= MaxAttempts
      BY <1>2, <1>3
    <2> QED BY <1>1, <1>3, <2>1, <2>2, <2>3, <2>4, <2>5, <2>6 DEF Counted, C
  <1> QED BY <1>4, <1>6, <1>7, <1>8, <1>9, <1>10, <1>11, <1>12 DEF Acts
LEMMA BudgetKept ==
    ASSUME Types, Types', role' = role, NEW q \in Requests, Kept(q),
           Known(q), Counted(q), Order(q)
    PROVE  Known(q)' /\ Counted(q)' /\ Order(q)'
  <1>1. /\ loop'[q].on = loop[q].on /\ loop'[q].prefer = loop[q].prefer
        /\ loop'[q].used = loop[q].used /\ loop'[q].refreshed = loop[q].refreshed
        /\ loop'[q].attempts = loop[q].attempts
        /\ tries'[q] = tries[q] /\ pc'[q] = pc[q]
    BY DEF Kept, Types, LoopType
  <1>2. \A a : Tries(q, a)' = Tries(q, a)
    BY <1>1, TriesKept
  <1>3. Known(q)'
    BY <1>1, <1>2 DEF Known
  <1>4. Counted(q)'
    BY <1>1 DEF Counted, Spent, Reserved, Proxied
  <1>5. \A a \in Accounts : OnceOrTwice(q, a)'
    BY <1>1, OnceOrTwiceKept DEF Order
  <1>6. Order(q)'
    BY <1>1, <1>2, <1>5 DEF Order, Fresh
  <1> QED BY <1>3, <1>4, <1>6

LEMMA UnmovedKept == ASSUME Types, Unmoved PROVE \A q \in Requests : Kept(q)
  <1> TAKE q \in Requests
  <1>1. loop[q].current \in BOOLEAN /\ loop'[q] = [loop[q] EXCEPT !.current = loop[q].current]
    BY DEF Unmoved, Types, LoopType
  <1> QED BY <1>1 DEF Unmoved, Kept

LEMMA BudgetedStep == ASSUME Types, Placed, Budgeted, [Next]_vars PROVE Budgeted'
  <1>1. Types' /\ role' = role
    BY Steps
  <1>2. ASSUME NEW q \in Requests, Acts(q) \/ Kept(q)
        PROVE  Known(q)' /\ Counted(q)' /\ Order(q)'
    BY <1>1, <1>2, KnownStep, CountedStep, OrderStep, BudgetKept DEF Budgeted
  <1>3. \A q \in Requests : Acts(q) \/ Kept(q)
    BY Steps, UnmovedKept
  <1> QED BY <1>2, <1>3 DEF Budgeted

-----------------------------------------------------------------------------
(* Verdicts.                                                                 *)

(* What a request has refreshed stays refreshed. *)
LEMMA RefreshedGrows ==
    ASSUME Types, Placed, NEW r \in Requests, Acts(r) \/ Kept(r)
    PROVE  loop[r].refreshed \subseteq loop'[r].refreshed
  <1>1. CASE Kept(r)
    BY <1>1 DEF Kept, Types, LoopType
  <1>2. CASE Ends(r) \/ GoesOn(r) \/ Works(r)
    BY <1>2 DEF Ends, GoesOn, Works, SameBudget
  <1>3. CASE Streams(r) \/ Resumes(r) \/ Watches(r)
    BY <1>3 DEF Streams, Resumes, Watches
  <1>4. CASE Lease(r) \/ Send(r)
    BY <1>4, LeaseLoop, SendLoop
  <1>5. CASE Rejected(r) \/ Renew(r) \/ Renewed(r)
    BY <1>5, RejectedLoop, RenewLoop, RenewedLoop
  <1> QED BY <1>1, <1>2, <1>3, <1>4, <1>5 DEF Acts

LEMMA TwoAttempts == \A n \in Int : Cardinality({n - 1, n}) = 2 /\ Cardinality({n}) = 1
  <1> TAKE n \in Int
  <1>1. IsFiniteSet({n}) /\ Cardinality({n}) = 1
    BY FS_Singleton
  <1>2. n - 1 \notin {n} /\ {n - 1, n} = {n} \cup {n - 1}
    OBVIOUS
  <1>3. Cardinality({n} \cup {n - 1}) = Cardinality({n}) + 1
    BY <1>1, <1>2, FS_AddElement
  <1> QED BY <1>1, <1>2, <1>3

(* The second attempt of an account is its last one. *)
LEMMA TwiceStays ==
    ASSUME Types, Placed, Budgeted, NEW r \in Requests, NEW a \in Accounts, Acts(r) \/ Kept(r),
           Cardinality(Tries(r, a)) = 2
    PROVE  Cardinality(Tries(r, a))' = 2
  <1>1. CASE Send(r)
    <2>1. loop[r].on \in Accounts /\ tries'[r] = Append(tries[r], loop[r].on)
          /\ pc[r] = "send" /\ tries[r] \in Seq(Accounts)
      BY <1>1, SendLoop DEF Types
    <2>2. Fresh(r, loop[r].on)
      BY <2>1 DEF Budgeted, Order
    <2> PICK b \in Accounts : b = loop[r].on
      BY <2>1
    <2>3. Tries(r, b) = {} \/ Tries(r, b) = {Len(tries[r])}
      BY <2>2 DEF Fresh
    <2>4. Cardinality(Tries(r, b)) # 2
      <3>1. Len(tries[r]) \in Int
        BY <2>1
      <3>2. Cardinality({Len(tries[r])}) = 1 /\ Cardinality({}) = 0
        BY <3>1, TwoAttempts, FS_EmptySet
      <3>3. Cardinality(Tries(r, b)) = 0 \/ Cardinality(Tries(r, b)) = 1
        BY <2>3, <3>2
      <3> QED BY <3>3
    <2> QED BY <2>1, <2>4, TriesSent
  <1>2. CASE ~Send(r)
    <2>1. tries'[r] = tries[r]
      BY <1>2, LeaseLoop, RejectedLoop, RenewLoop, RenewedLoop
         DEF Acts, Ends, GoesOn, Works, SameBudget, Streams, Resumes, Watches, Kept
    <2> QED BY <2>1, TriesKept
  <1> QED BY <1>1, <1>2

(* The verdict is passed by nothing but a second rejection. *)
LEMMA BlameStep ==
    ASSUME Types, [Next]_vars, NEW a \in Accounts, blame'[a] = "rejectedTwice"
    PROVE  \/ blame[a] = "rejectedTwice"
           \/ \E r \in Requests : RejectedAgain(r) /\ a = loop[r].on
  <1>1. CASE Outside
    BY <1>1 DEF Outside, ClientLeaves, CoolingEnds, TimePasses, history, vars
  <1>2. ASSUME NEW r \in Requests, Attempt(r) \/ StreamReportsQuota(r)
        PROVE  blame[a] = "rejectedTwice" \/ (RejectedAgain(r) /\ a = loop[r].on)
    <2>1. CASE RejectedAgain(r)
      BY <2>1 DEF RejectedAgain, DisableAccount, Types
    <2>2. CASE Remove(r) \/ StreamReportsQuota(r) \/ RenewalFails(r) \/ FetchFails(r)
      BY <2>2 DEF Remove, RemoveAccount, StreamReportsQuota, RenewalFails, DisableAccount,
                  FetchFails, Types
    <2>3. CASE ~(Remove(r) \/ StreamReportsQuota(r) \/ RenewalFails(r) \/ FetchFails(r)
                 \/ RejectedAgain(r))
      BY <1>2, <2>3
         DEF Attempt, Lease, PreferredUnavailable, NoAccountLeft, LeaveQueue, BudgetSpent,
         SkipCatalog, FetchCatalog, FetchSucceeds, ModelGone, BackendChanged,
         RenderFails, Render, Send, TransportFails, BodyUnreadable, Rejected, Succeeds,
         Renew, Renewed, Unwilling, BackoffEnds, StreamCloses, history
    <2> QED BY <2>1, <2>2, <2>3
  <1> QED BY <1>1, <1>2 DEF Next, Outside, AllEnded

LEMMA VerdictStep ==
    ASSUME Types, Placed, Budgeted, VerdictNeedsRefresh, [Next]_vars
    PROVE  VerdictNeedsRefresh'
  <1> SUFFICES ASSUME NEW a \in Accounts, blame'[a] = "rejectedTwice"
               PROVE  \E r \in Requests : a \in loop'[r].refreshed /\ Cardinality(Tries(r, a))' = 2
    BY DEF VerdictNeedsRefresh
  <1>1. ASSUME NEW r \in Requests, a \in loop[r].refreshed, Cardinality(Tries(r, a)) = 2
        PROVE  a \in loop'[r].refreshed /\ Cardinality(Tries(r, a))' = 2
    <2>1. CASE Unmoved
      BY <1>1, <2>1 DEF Unmoved, Tries
    <2>2. CASE Acts(r) \/ Kept(r)
      BY <1>1, <2>2, RefreshedGrows, TwiceStays
    <2> QED BY <2>1, <2>2, Steps
  <1>2. CASE blame[a] = "rejectedTwice"
    BY <1>1, <1>2 DEF VerdictNeedsRefresh
  <1>3. ASSUME NEW r \in Requests, RejectedAgain(r), a = loop[r].on
        PROVE  a \in loop[r].refreshed /\ Cardinality(Tries(r, a)) = 2
    <2>1. pc[r] = "failed" /\ a \in loop[r].refreshed
      BY <1>3 DEF RejectedAgain
    <2>2. Tries(r, a) = {Len(tries[r]) - 1, Len(tries[r])}
      BY <1>3, <2>1 DEF Budgeted, Order
    <2>3. Len(tries[r]) \in Int
      BY DEF Types
    <2> QED BY <2>1, <2>2, <2>3, TwoAttempts
  <1> QED BY <1>1, <1>2, <1>3, BlameStep
-----------------------------------------------------------------------------
(* The accounting of leases.                                                 *)

Holders(a) == {r \in Requests : lease[r] = a}
Fetchers(a) == {r \in Requests : lease[r] = a /\ pc[r] = "fetching"}
Counts == \A a \in Accounts :
             inflight[a] = Cardinality(Holders(a)) + Cardinality(Fetchers(a))

(* What one request has of the count of its account. *)
Slots(r) == IF lease[r] = None THEN 0 ELSE IF pc[r] = "fetching" THEN 2 ELSE 1

SlotStep(r) ==
    \/ lease'[r] = lease[r] /\ Slots(r)' = Slots(r) /\ inflight' = inflight
    \/ \E a \in Accounts :
         /\ lease[r] \in {None, a} /\ lease'[r] \in {None, a}
         /\ inflight'[a] = inflight[a] + Slots(r)' - Slots(r)
         /\ \A b \in Accounts \ {a} : inflight'[b] = inflight[b]

LEMMA ReleaseSlot ==
    ASSUME Types, Placed, NEW r \in Requests, pc[r] \in Holding \ {"fetching"}, Release(r)
    PROVE  SlotStep(r)
  <1> PICK a \in Accounts : a = lease[r]
    BY InHand
  <1>1. lease' = [lease EXCEPT ![r] = None] /\ inflight' = [inflight EXCEPT ![a] = @ - 1]
    BY DEF Release
  <1>2. /\ lease'[r] = None /\ inflight'[a] = inflight[a] - 1 /\ inflight[a] \in Int
        /\ \A b \in Accounts \ {a} : inflight'[b] = inflight[b]
    BY <1>1 DEF Types
  <1>3. Slots(r) = 1 /\ Slots(r)' = 0
    BY <1>2, AttemptsAssumption DEF Slots
  <1>4. inflight'[a] = inflight[a] + Slots(r)' - Slots(r)
    BY <1>2, <1>3
  <1> QED BY <1>2, <1>4 DEF SlotStep

LEMMA FetchSlot ==
    ASSUME Types, Placed, NEW r \in Requests, pc[r] \in {"leased", "fetching"}, lease' = lease,
           IF pc[r] = "leased"
           THEN pc'[r] = "fetching" /\ inflight' = [inflight EXCEPT ![lease[r]] = @ + 1]
           ELSE pc'[r] = "render" /\ inflight' = [inflight EXCEPT ![lease[r]] = @ - 1]
    PROVE  SlotStep(r)
  <1> PICK a \in Accounts : a = lease[r]
    BY InHand DEF Holding
  <1>1. /\ lease'[r] = a /\ a # None /\ inflight[a] \in Int
        /\ inflight'[a] = IF pc[r] = "leased" THEN inflight[a] + 1 ELSE inflight[a] - 1
        /\ \A b \in Accounts \ {a} : inflight'[b] = inflight[b]
    BY AttemptsAssumption DEF Types
  <1>2. IF pc[r] = "leased" THEN Slots(r) = 1 /\ Slots(r)' = 2 ELSE Slots(r) = 2 /\ Slots(r)' = 1
    BY <1>1 DEF Slots
  <1>3. inflight'[a] = inflight[a] + Slots(r)' - Slots(r)
    BY <1>1, <1>2
  <1> QED BY <1>1, <1>3 DEF SlotStep

LEMMA KeepSlot ==
    ASSUME Types, Placed, NEW r \in Requests, Keep, pc[r] # "fetching", pc'[r] # "fetching"
    PROVE  SlotStep(r)
  BY DEF Keep, SlotStep, Slots

LEMMA SlotSteps ==
    ASSUME Types, Placed, NEW r \in Requests, Attempt(r) \/ StreamReportsQuota(r)
    PROVE  SlotStep(r)
  <1> USE DEF Go, Types
  <1>1. CASE Lease(r)
    <2> PICK a \in Accounts : Take(r, a)
      BY <1>1 DEF Lease
    <2>1. pc[r] = "choose" /\ pc'[r] \in {"send", "leased"} /\ lease[r] = None /\ a # None
      BY <1>1, AttemptsAssumption DEF Lease, Placed, Place, Holding
    <2>2. /\ lease'[r] = a /\ inflight'[a] = inflight[a] + 1 /\ inflight[a] \in Int
          /\ \A b \in Accounts \ {a} : inflight'[b] = inflight[b]
      BY DEF Take
    <2>3. Slots(r) = 0 /\ Slots(r)' = 1
      BY <2>1, <2>2 DEF Slots
    <2>4. inflight'[a] = inflight[a] + Slots(r)' - Slots(r)
      BY <2>2, <2>3
    <2> QED BY <2>1, <2>2, <2>4 DEF SlotStep
  <1>2. CASE PreferredUnavailable(r) \/ NoAccountLeft(r) \/ LeaveQueue(r) \/ BudgetSpent(r)
    BY <1>2, KeepSlot DEF PreferredUnavailable, NoAccountLeft, LeaveQueue, BudgetSpent, End
  <1>3. CASE SkipCatalog(r) \/ Render(r) \/ Send(r) \/ Renew(r) \/ Renewed(r)
    BY <1>3, KeepSlot DEF SkipCatalog, Render, Send, Renew, Renewed
  <1>4. CASE FetchCatalog(r) \/ FetchFails(r) \/ FetchSucceeds(r)
    BY <1>4, FetchSlot DEF FetchCatalog, FetchFails, FetchSucceeds
  <1>5. CASE ModelGone(r)
    <2> PICK a \in Accounts : a = lease[r]
      BY <1>5, InHand DEF ModelGone, Holding
    <2>1. /\ lease' = [lease EXCEPT ![r] = None] /\ inflight' = [inflight EXCEPT ![a] = @ - 2]
          /\ pc[r] = "fetching"
      BY <1>5 DEF ModelGone
    <2>2. /\ lease'[r] = None /\ inflight'[a] = inflight[a] - 2 /\ inflight[a] \in Int
          /\ \A b \in Accounts \ {a} : inflight'[b] = inflight[b]
      BY <2>1
    <2>3. Slots(r) = 2 /\ Slots(r)' = 0
      BY <2>1, <2>2, AttemptsAssumption DEF Slots
    <2>4. inflight'[a] = inflight[a] + Slots(r)' - Slots(r)
      BY <2>2, <2>3
    <2> QED BY <2>2, <2>4 DEF SlotStep
  <1>6. CASE BackendChanged(r) \/ RenderFails(r)
    BY <1>6, ReleaseSlot DEF BackendChanged, RenderFails, End, Holding
  <1>7. CASE TransportFails(r) \/ BodyUnreadable(r) \/ Rejected(r) \/ StreamCloses(r)
    BY <1>7, ReleaseSlot DEF TransportFails, BodyUnreadable, Rejected, StreamCloses, End, Holding
  <1>8. CASE Succeeds(r)
    <2>1. CASE r \in Streaming
      BY <1>8, <2>1, KeepSlot DEF Succeeds
    <2>2. CASE r \notin Streaming
      BY <1>8, <2>2, ReleaseSlot DEF Succeeds, Holding
    <2> QED BY <2>1, <2>2
  <1>9. CASE Remove(r) \/ RenewalFails(r) \/ RejectedAgain(r)
    BY <1>9, KeepSlot DEF Remove, RenewalFails, RejectedAgain, NextRound, End, Continue
  <1>10. CASE Unwilling(r) \/ BackoffEnds(r)
    BY <1>10, KeepSlot DEF Unwilling, BackoffEnds, End, Continue
  <1>11. CASE StreamReportsQuota(r)
    BY <1>11, KeepSlot DEF StreamReportsQuota
  <1> QED BY <1>1, <1>2, <1>3, <1>4, <1>5, <1>6, <1>7, <1>8, <1>9, <1>10, <1>11 DEF Attempt

(* A set with and without one element. *)
LEMMA WithOne ==
    ASSUME NEW S, IsFiniteSet(S), NEW r
    PROVE  /\ Cardinality(S \ {r}) \in Nat
           /\ Cardinality(S) = Cardinality(S \ {r}) + IF r \in S THEN 1 ELSE 0
  <1>1. Cardinality(S) \in Nat /\ IsFiniteSet(S \ {r})
    BY FS_CardinalityType, FS_RemoveElement
  <1>2. Cardinality(S \ {r}) = IF r \in S THEN Cardinality(S) - 1 ELSE Cardinality(S)
    BY FS_RemoveElement
  <1>3. Cardinality(S \ {r}) \in Nat
    BY <1>1, FS_CardinalityType
  <1> QED BY <1>1, <1>2, <1>3

LEMMA CountsStep ==
    ASSUME Types, Types', Counts, NEW r \in Requests, SlotStep(r),
           Placed, Placed',
           \A q \in Requests \ {r} : pc'[q] = pc[q] /\ lease'[q] = lease[q]
    PROVE  Counts'
  <1> SUFFICES ASSUME NEW a \in Accounts
               PROVE  inflight'[a] = Cardinality(Holders(a)') + Cardinality(Fetchers(a)')
    BY DEF Counts
  <1> DEFINE h == Cardinality(Holders(a) \ {r})
             f == Cardinality(Fetchers(a) \ {r})
             mine == IF lease[r] = a THEN Slots(r) ELSE 0
             mineNow == IF lease'[r] = a THEN Slots(r)' ELSE 0
  <1>1. /\ IsFiniteSet(Holders(a)) /\ IsFiniteSet(Holders(a)')
        /\ IsFiniteSet(Fetchers(a)) /\ IsFiniteSet(Fetchers(a)')
    <2>1. /\ Holders(a) \subseteq Requests /\ Holders(a)' \subseteq Requests
          /\ Fetchers(a) \subseteq Requests /\ Fetchers(a)' \subseteq Requests
      BY DEF Holders, Fetchers
    <2> QED BY <2>1, AttemptsAssumption, FS_Subset
  <1>2. Holders(a)' \ {r} = Holders(a) \ {r} /\ Fetchers(a)' \ {r} = Fetchers(a) \ {r}
    BY DEF Holders, Fetchers
  <1>3. /\ h \in Nat /\ f \in Nat
        /\ Cardinality(Holders(a)) = h + IF r \in Holders(a) THEN 1 ELSE 0
        /\ Cardinality(Fetchers(a)) = f + IF r \in Fetchers(a) THEN 1 ELSE 0
        /\ Cardinality(Holders(a)') = h + IF r \in Holders(a)' THEN 1 ELSE 0
        /\ Cardinality(Fetchers(a)') = f + IF r \in Fetchers(a)' THEN 1 ELSE 0
    BY <1>1, <1>2, WithOne
  <1>4. /\ Cardinality(Holders(a)) + Cardinality(Fetchers(a)) = h + f + mine
        /\ Cardinality(Holders(a)') + Cardinality(Fetchers(a)') = h + f + mineNow
    <2>1. mine = (IF r \in Holders(a) THEN 1 ELSE 0) + IF r \in Fetchers(a) THEN 1 ELSE 0
      BY AttemptsAssumption DEF Holders, Fetchers, Slots
    <2>2. mineNow = (IF r \in Holders(a)' THEN 1 ELSE 0) + IF r \in Fetchers(a)' THEN 1 ELSE 0
      BY AttemptsAssumption DEF Holders, Fetchers, Slots
    <2> HIDE DEF h, f, mine, mineNow
    <2> QED BY <1>3, <2>1, <2>2
  <1>5. inflight'[a] = inflight[a] + mineNow - mine
    <2>1. inflight[a] \in Int /\ mine \in Int
      BY DEF Types, Slots
    <2>2. CASE lease'[r] = lease[r] /\ Slots(r)' = Slots(r) /\ inflight' = inflight
      BY <2>1, <2>2
    <2>3. ASSUME NEW b \in Accounts,
                 lease[r] \in {None, b}, lease'[r] \in {None, b},
                 inflight'[b] = inflight[b] + Slots(r)' - Slots(r),
                 \A c \in Accounts \ {b} : inflight'[c] = inflight[c]
          PROVE  inflight'[a] = inflight[a] + mineNow - mine
      <3>1. CASE a = b
        <4>1. mine = Slots(r) /\ mineNow = Slots(r)'
          BY <2>3, <3>1, AttemptsAssumption DEF Slots
        <4> QED BY <2>3, <3>1, <4>1
      <3>2. CASE a # b
        <4>1. mine = 0 /\ mineNow = 0 /\ inflight'[a] = inflight[a]
          BY <2>3, <3>2, AttemptsAssumption
        <4> HIDE DEF mine, mineNow
        <4> QED BY <2>1, <4>1
      <3> QED BY <3>1, <3>2
    <2> QED BY <2>2, <2>3 DEF SlotStep
  <1>6. inflight[a] = h + f + mine /\ mine \in Int /\ mineNow \in Int
    <2>1. inflight[a] = Cardinality(Holders(a)) + Cardinality(Fetchers(a))
      BY DEF Counts
    <2>2. mine \in Int /\ mineNow \in Int
      BY DEF Slots
    <2> QED BY <1>4, <2>1, <2>2
  <1> HIDE DEF h, f, mine, mineNow
  <1> QED BY <1>3, <1>4, <1>5, <1>6
-----------------------------------------------------------------------------
(* The invariant and what follows from it.                                   *)

Inv == Types /\ Placed /\ OneRun /\ AtHome /\ Budgeted /\ VerdictNeedsRefresh /\ Counts

LEMMA InvInit == Init => Inv
  <1> SUFFICES ASSUME Init PROVE Inv
    OBVIOUS
  <1>1. Types /\ Placed
    BY TypedInit
  <1>2. OneRun
    BY DEF Init, OneRun, RanOnce
  <1>3. /\ \A r \in Requests : tries[r] = <<>> /\ ran[r] = 0 /\ lease[r] = None
        /\ \A r \in Requests : /\ loop[r].used = {} /\ loop[r].refreshed = {}
                               /\ loop[r].attempts = 0
                               /\ pc[r] \in {"choose", "ended"}
                               /\ pc[r] = "ended" => "absent" \in role[r]
                               /\ r \in Pinned => /\ loop[r].pin \in Accounts
                                                  /\ loop[r].prefer = loop[r].pin
    BY DEF Init
  <1>4. AtHome
    <2>1. ASSUME NEW r \in Pinned PROVE pc[r] # "ended"
      <3>1. role \in [Requests -> {{}, {"streaming"}, {"pinned"}, {"streaming", "pinned"},
                                   {"proxied"}, {"absent"}}]
        BY AttemptsAssumption DEF Init
      <3> QED BY <1>3, <3>1 DEF Pinned
    <2> QED BY <1>3, <2>1 DEF AtHome, Home, Holding, Pinned
  <1>5. Budgeted
    <2> SUFFICES ASSUME NEW r \in Requests PROVE Known(r) /\ Counted(r) /\ Order(r)
      BY DEF Budgeted
    <2>1. \A a : Tries(r, a) = {}
      BY <1>3 DEF Tries
    <2>2. Len(tries[r]) = 0 /\ Cardinality({}) = 0 /\ MaxAttempts \in Nat
      BY <1>3, FS_EmptySet, AttemptsAssumption
    <2>3. Known(r)
      BY <1>3, <2>1 DEF Known, Midway
    <2>4. Counted(r)
      <3>1. /\ Spent(r) = 0 /\ Reserved(r) = 0
            /\ Cardinality(loop[r].refreshed) = 0 /\ Cardinality(loop[r].used) = 0
        BY <1>3, <2>2 DEF Reserved, Spent
      <3> QED BY <2>2, <3>1 DEF Counted
    <2>5. Order(r)
      BY <1>3, <2>1 DEF Order, OnceOrTwice, Fresh
    <2> QED BY <2>3, <2>4, <2>5
  <1>6. VerdictNeedsRefresh
    BY DEF Init, None, VerdictNeedsRefresh
  <1>7. Counts
    <2> SUFFICES ASSUME NEW a \in Accounts
                 PROVE  inflight[a] = Cardinality(Holders(a)) + Cardinality(Fetchers(a))
      BY DEF Counts
    <2>1. Holders(a) = {} /\ Fetchers(a) = {}
      BY <1>3, AttemptsAssumption DEF Holders, Fetchers
    <2>2. inflight[a] = 0
      BY DEF Init
    <2> QED BY <2>1, <2>2, FS_EmptySet
  <1> QED BY <1>1, <1>2, <1>4, <1>5, <1>6, <1>7 DEF Inv

LEMMA InvStep == Inv /\ [Next]_vars => Inv'
  <1> SUFFICES ASSUME Inv, [Next]_vars PROVE Inv'
    OBVIOUS
  <1>1. Types' /\ Placed'
    BY PlacedStep DEF Inv
  <1>2. OneRun' /\ AtHome' /\ Budgeted' /\ VerdictNeedsRefresh'
    BY OneRunStep, AtHomeStep, BudgetedStep, VerdictStep DEF Inv
  <1>3. Counts'
    <2>1. CASE Outside
      <3>1. UNCHANGED <<pc, lease, inflight>>
        BY <2>1 DEF Outside, ClientLeaves, CoolingEnds, TimePasses, vars
      <3> QED BY <3>1 DEF Inv, Counts, Holders, Fetchers
    <2>2. ASSUME NEW r \in Requests, Attempt(r) \/ StreamReportsQuota(r)
          PROVE  Counts'
      <3>1. \A q \in Requests \ {r} : pc'[q] = pc[q] /\ lease'[q] = lease[q]
        BY <2>2, OthersKept DEF Inv, Kept
      <3>2. SlotStep(r)
        BY <2>2, SlotSteps DEF Inv
      <3> QED BY <1>1, <3>1, <3>2, CountsStep DEF Inv
    <2> QED BY <2>1, <2>2 DEF Next, Outside, AllEnded
  <1> QED BY <1>1, <1>2, <1>3 DEF Inv

(* Every state the retry loops reach satisfies the inductive invariant.      *)
THEOREM InvHolds == Spec => []Inv
  BY InvInit, InvStep, PTL DEF Spec

(* The variables have their types, and no account's count of leases falls    *)
(* below zero (Pool's account.inflight, released once per lease).            *)
THEOREM TypeCorrect == Spec => []TypeOK
  <1>1. Inv => TypeOK
    <2> SUFFICES ASSUME Inv PROVE TypeOK
      OBVIOUS
    <2>1. inflight \in [Accounts -> Nat]
      <3> SUFFICES ASSUME NEW a \in Accounts PROVE inflight[a] \in Nat
        BY DEF Inv, Types
      <3>1. IsFiniteSet(Holders(a)) /\ IsFiniteSet(Fetchers(a))
        <4>1. Holders(a) \subseteq Requests /\ Fetchers(a) \subseteq Requests
          BY DEF Holders, Fetchers
        <4> QED BY <4>1, AttemptsAssumption, FS_Subset
      <3>2. Cardinality(Holders(a)) \in Nat /\ Cardinality(Fetchers(a)) \in Nat
        BY <3>1, FS_CardinalityType
      <3> QED BY <3>2 DEF Inv, Counts
    <2> QED BY <2>1 DEF Inv, Types, TypeOK, LoopType, Points, Blames
  <1> QED BY <1>1, InvHolds, PTL

(* On every way out of a round of DoInference, OpenInference and DoJSON the  *)
(* lease has been given back, once, whatever failed.                         *)
THEOREM LeasesExact == Spec => []LeaseExact
  <1>1. Inv => LeaseExact
    BY DEF Inv, Counts, Holders, Fetchers, Placed, Place, Holding, LeaseExact
  <1> QED BY <1>1, InvHolds, PTL

(* After a success, an unreadable answer or a transport failure with the     *)
(* body sent, no way through the loops sends the request again, however many *)
(* accounts are left; the runs beyond the first are those a server error     *)
(* answered.                                                                 *)
THEOREM NoBlindReplayCorrect == Spec => []NoBlindReplay
  <1>1. Inv => NoBlindReplay
    <2> SUFFICES ASSUME Inv, NEW r \in Requests
                 PROVE  /\ ran[r] <= failedRuns[r] + 1
                        /\ ran[r] > failedRuns[r] => pc[r] \in {"streaming", "ended"}
      BY DEF NoBlindReplay
    <2>1. ran[r] \in Nat /\ failedRuns[r] \in Nat
      BY DEF Inv, Types
    <2>2. RanOnce(r)
      BY DEF Inv, OneRun
    <2> QED BY <2>1, <2>2 DEF RanOnce
  <1> QED BY <1>1, InvHolds, PTL

(* A request that carries state is sent to the account of that state only,   *)
(* over the protocol of that state.                                          *)
THEOREM PinnedHome == Spec => []PinnedStaysHome
  <1>1. Inv => PinnedStaysHome
    BY DEF Inv, AtHome, Home, Pinned, PinnedStaysHome
  <1> QED BY <1>1, InvHolds, PTL

(* A request is sent no more often than its budget and its refreshes allow,  *)
(* and an account a second time only right after its token was refreshed.    *)
THEOREM TriesBudgeted == Spec => []TriesAreBudgeted
  <1>1. ASSUME Inv PROVE TriesAreBudgeted
    <2> SUFFICES ASSUME NEW r \in Requests
                 PROVE  /\ Len(tries[r]) <= MaxAttempts + Cardinality(loop[r].refreshed)
                        /\ \A a \in Accounts : Cardinality(Tries(r, a)) >= 2 =>
                             /\ a \in loop[r].refreshed
                             /\ \E i \in 1..(Len(tries[r]) - 1) : Tries(r, a) = {i, i + 1}
      BY DEF TriesAreBudgeted
    <2>1. Len(tries[r]) <= MaxAttempts + Cardinality(loop[r].refreshed)
      BY <1>1 DEF Inv, Budgeted, Counted
    <2>2. ASSUME NEW a \in Accounts, Cardinality(Tries(r, a)) >= 2
          PROVE  /\ a \in loop[r].refreshed
                 /\ \E i \in 1..(Len(tries[r]) - 1) : Tries(r, a) = {i, i + 1}
      <3>1. OnceOrTwice(r, a)
        BY <1>1 DEF Inv, Budgeted, Order
      <3>2. Tries(r, a) # {}
        <4>1. Cardinality({}) = 0
          BY FS_EmptySet
        <4> QED BY <2>2, <4>1
      <3>3. ASSUME NEW i \in 1..Len(tries[r]), Tries(r, a) = {i} PROVE FALSE
        <4>1. Cardinality({i}) = 1
          BY FS_Singleton
        <4> QED BY <2>2, <3>3, <4>1
      <3> QED BY <3>1, <3>2, <3>3 DEF OnceOrTwice
    <2> QED BY <2>1, <2>2
  <1> QED BY <1>1, InvHolds, PTL

(* An account is disabled for a rejected token only after one request had    *)
(* that token rejected, refreshed and rejected again.                        *)
THEOREM VerdictCorrect == Spec => []VerdictNeedsRefresh
  <1>1. Inv => VerdictNeedsRefresh
    BY DEF Inv
  <1> QED BY <1>1, InvHolds, PTL

(* An unpinned request reports the failure of an account only when its       *)
(* budget is spent, its client is gone or no account is left, or when the    *)
(* account it has just refreshed went away.                                  *)
THEOREM GivesUpLateCorrect == Spec => GivesUpLate
  <1>1. ASSUME Inv, [Next]_vars, NEW r \in Requests \ Pinned,
               pc[r] # "ended", pc'[r] = "ended",
               loop'[r].err \in {"unauthorized", "removed", "limited", "overloaded", "noAccount"}
        PROVE  ~InBudget(r) \/ left[r] \/ Eligible(r) = {} \/ loop[r].prefer # None
    <2>1. ASSUME NEW from, NEW e, End(r, from, e) PROVE loop'[r].err = e
      BY <1>1, <2>1 DEF End, Forgotten, Inv, Types, LoopType
    <2>2. Attempt(r) \/ StreamReportsQuota(r)
      <3>1. ~Kept(r) /\ ~Outside
        BY <1>1 DEF Kept, Outside, ClientLeaves, CoolingEnds, TimePasses, vars
      <3> QED BY <1>1, <3>1, OthersKept DEF Next, Outside, AllEnded, Inv
    <2>3. CASE PreferredUnavailable(r) \/ NoAccountLeft(r) \/ LeaveQueue(r) \/ BudgetSpent(r)
      BY <2>3 DEF PreferredUnavailable, NoAccountLeft, LeaveQueue, BudgetSpent
    <2>4. CASE \/ Lease(r) \/ SkipCatalog(r) \/ FetchCatalog(r) \/ FetchFails(r) \/ FetchSucceeds(r)
               \/ Render(r) \/ Send(r) \/ Rejected(r) \/ Renew(r) \/ Renewed(r)
               \/ StreamReportsQuota(r)
      BY <1>1, <2>4 DEF Lease, SkipCatalog, FetchCatalog, FetchFails, FetchSucceeds, Render, Send,
                        Rejected, Renew, Renewed, StreamReportsQuota, Go, Inv, Types
    <2>5. CASE ModelGone(r) \/ RenderFails(r) \/ BackendChanged(r)
      BY <1>1, <2>5 DEF ModelGone, RenderFails, BackendChanged, Mismatched, Continue, Go, Inv, Types
    <2>6. CASE TransportFails(r)
      BY <1>1, <2>1, <2>6 DEF TransportFails, Continue, Go, Inv, Types
    <2>7. CASE BodyUnreadable(r) \/ Succeeds(r) \/ StreamCloses(r)
      BY <1>1, <2>1, <2>7 DEF BodyUnreadable, Succeeds, StreamCloses, Go, Inv, Types
    <2>8. CASE Remove(r) \/ RenewalFails(r) \/ RejectedAgain(r)
      BY <1>1, <2>8 DEF Remove, RenewalFails, RejectedAgain, NextRound, Continue, Go, Inv, Types
    <2>9. CASE Unwilling(r)
      BY <1>1, <2>1, <2>9 DEF Unwilling, Continue, Go, Inv, Types
    <2>10. CASE BackoffEnds(r)
      BY <1>1, <2>10 DEF BackoffEnds, Go, Inv, Types
    <2> QED BY <2>2, <2>3, <2>4, <2>5, <2>6, <2>7, <2>8, <2>9, <2>10 DEF Attempt
  <1>2. Inv /\ [Next]_vars =>
          [\A r \in Requests \ Pinned :
             /\ pc[r] # "ended" /\ pc'[r] = "ended"
             /\ loop'[r].err \in {"unauthorized", "removed", "limited", "overloaded", "noAccount"}
             => \/ ~InBudget(r)
                \/ left[r]
                \/ Eligible(r) = {}
                \/ loop[r].prefer # None]_vars
    BY <1>1
  <1> QED BY <1>2, InvHolds, PTL DEF Spec, GivesUpLate
=============================================================================
