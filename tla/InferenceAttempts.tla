------------------------- MODULE InferenceAttempts -------------------------
(***************************************************************************)
(* The retry loops of the upstream client: DoInference, OpenInference and  *)
(* DoJSON lease an account, render, send and then, depending on what comes *)
(* back, return, refresh the token and try the account again, or go on to  *)
(* another account; a stream keeps its lease until it is closed.           *)
(*                                                                         *)
(* The pool is seen from outside: how Acquire searches, waits and uses the *)
(* affinity cache is PoolCapacity, what a refresh or a deletion does to a  *)
(* credential is CredentialLifecycle, what a success binds is Continuity.  *)
(* The model cooldown of one model and the cooldown of its account are one *)
(* status.  A catalog is the backend it gives the requested model, Gone    *)
(* when it does not list the model.  Durations, identities and bodies are  *)
(* left out.                                                               *)
(***************************************************************************)
EXTENDS Naturals, Sequences, FiniteSets

CONSTANTS Requests, Accounts, Backends,
          Mixes,        (* the assignments of roles to requests a run considers *)
          Renderable,   (* Renderable[r]: the backends r has a rendering for    *)
          Retries,      (* Retries[a]: MaxRetries of its descriptor, or Unset   *)
          FirstCatalog, (* the catalogs at the start                            *)
          MaxAttempts,  (* GROK_RETRY_MAX_ATTEMPTS                              *)
          Limit,        (* GROK_ACCOUNT_MAX_INFLIGHT                            *)
          MaxChanges    (* bound: clients leaving, changes of catalogs, idle times*)

None == "none"
Gone == "gone"
Unset == MaxAttempts

ASSUME AttemptsAssumption ==
    /\ IsFiniteSet(Requests) /\ IsFiniteSet(Accounts)
    /\ None \notin Accounts \cup Backends /\ Gone \notin Backends
    /\ Mixes \subseteq [Requests -> {{}, {"streaming"}, {"pinned"}, {"streaming", "pinned"},
                                     {"proxied"}, {"absent"}}]
    /\ Renderable \in [Requests -> SUBSET Backends]
    /\ MaxAttempts \in Nat \ {0} /\ Limit \in Nat \ {0} /\ MaxChanges \in Nat
    /\ FirstCatalog \in [Accounts -> Backends \cup {Gone}]
    /\ Retries \in [Accounts -> 0..Unset]

VARIABLES
    role,          (* what a request is, for good                                *)
    pc,            (* where each request is                                      *)
    lease,         (* the account of the lease it holds                          *)
    loop,          (* the local variables of its loop                            *)
    left,          (* its client is gone: the context is cancelled               *)
    account,       (* ready, cooling, disabled or deleted                        *)
    catalog,       (* the backend of the model in each account's catalog         *)
    lastInference, (* when it was last used: long ago is ten minutes    *)
    inflight,      (* account.inflight                                           *)
    changes,       (* outside changes so far                                     *)
    tries,         (* history: the accounts a request was sent to, in order      *)
    ran,           (* history: times the upstream has or may have run it         *)
    failedRuns,    (* history: those of them answered with a server error        *)
    blame          (* history: why an account was disabled                       *)

shared == <<role, account, catalog, lastInference, changes>>
history == <<tries, ran, failedRuns, blame>>
vars == <<role, pc, lease, loop, left, account, catalog, lastInference, inflight,
          changes, tries, ran, failedRuns, blame>>

Failures == {"transport", "unauthorized", "removed", "limited", "overloaded", "refused"}
Errors == Failures \cup {"none", "ok", "unread", "unrendered", "noModel", "noAccount",
                         "cooling", "stateUnavailable", "cancelled"}
Statuses == {"ready", "cooling", "disabled", "deleted"}

-----------------------------------------------------------------------------
(* Helpers.                                                                  *)

(* Requests of OpenInference (of DoInference without the role), bodiless     *)
(* ones of DoJSON, and those that carry state of one account.  A run with    *)
(* fewer requests leaves the others absent.                                  *)
Streaming == {r \in Requests : "streaming" \in role[r]}
Proxied == {r \in Requests : "proxied" \in role[r]}
Pinned == {r \in Requests : "pinned" \in role[r]}

Go(r, from, to) == pc[r] = from /\ pc' = [pc EXCEPT ![r] = to]

Take(r, a) == /\ lease' = [lease EXCEPT ![r] = a]
              /\ inflight' = [inflight EXCEPT ![a] = @ + 1]

(* Lease.Release: once per lease. *)
Release(r) == /\ lease' = [lease EXCEPT ![r] = None]
              /\ inflight' = [inflight EXCEPT ![lease[r]] = @ - 1]

Keep == UNCHANGED <<lease, inflight>>

(* What a round knows of its account is forgotten with the round. *)
Forgotten(l) == [l EXCEPT !.on = None, !.desc = Gone, !.current = FALSE]

(* The loop goes on with e as its last error. *)
Continue(r, from, to, e) ==
    /\ Go(r, from, to)
    /\ loop' = [loop EXCEPT ![r] = [Forgotten(@) EXCEPT !.err = e]]

(* The request returns e to its caller. *)
End(r, from, e) ==
    /\ Go(r, from, "ended")
    /\ loop' = [loop EXCEPT ![r] = [Forgotten(@) EXCEPT !.err = e, !.used = {},
                                      !.prefer = None, !.max = MaxAttempts, !.attempts = 0]]

(* The error of an attempt is what the loop returns when nothing follows. *)
LastOr(r, e) == IF loop[r].err = "none" THEN e ELSE loop[r].err

(* backendMatches *)
BackendMatches(expected, actual) == expected = actual

InBudget(r) == IF r \in Proxied THEN Cardinality(loop[r].used) < MaxAttempts
                                ELSE loop[r].attempts < loop[r].max

Available(a) == account[a] = "ready"
Supports(r, a) == r \in Proxied \/ catalog[a] # Gone
Eligible(r) == {a \in Accounts \ loop[r].used : Available(a) /\ Supports(r, a)}
HasSlot(a) == inflight[a] < Limit

Init ==
    /\ role \in Mixes
    /\ pc = [r \in Requests |-> IF "absent" \in role[r] THEN "ended" ELSE "choose"]
    /\ lease = [r \in Requests |-> None]
    /\ catalog = FirstCatalog
    /\ \E pin \in [Pinned -> Accounts], expected \in [Pinned -> Backends] :
         loop = [r \in Requests |->
                   [on |-> None, desc |-> Gone, used |-> {}, refreshed |-> {},
                    prefer |-> IF r \in Pinned THEN pin[r] ELSE None,
                    pin |-> IF r \in Pinned THEN pin[r] ELSE None,
                    expected |-> IF r \in Pinned THEN expected[r] ELSE None,
                    max |-> MaxAttempts, attempts |-> 0, err |-> "none",
                    current |-> FALSE]]
    /\ left = [r \in Requests |-> FALSE]
    /\ account = [a \in Accounts |-> "ready"]
    /\ \E since \in {"recent", "longAgo"} : lastInference = [a \in Accounts |-> since]
    /\ inflight = [a \in Accounts |-> 0]
    /\ changes = 0
    /\ tries = [r \in Requests |-> <<>>]
    /\ ran = [r \in Requests |-> 0]
    /\ failedRuns = [r \in Requests |-> 0]
    /\ blame = [a \in Accounts |-> None]

-----------------------------------------------------------------------------
(* The head of the loop: acquireInferenceLease, and the Acquire calls of     *)
(* DoJSON.                                                                   *)

(* Wrong variant: the account counts as used only once it is sent to. *)
LeaseUnmarked(r) ==
    /\ Go(r, "choose", IF r \in Proxied THEN "send" ELSE "leased")
    /\ InBudget(r)
    /\ \E a \in Accounts :
         /\ IF loop[r].prefer # None
            THEN a = loop[r].prefer /\ Available(a) /\ Supports(r, a)
            ELSE a \in Eligible(r)
         /\ HasSlot(a)
         /\ Take(r, a)
         /\ loop' = [loop EXCEPT ![r].on = a, ![r].prefer = None,
                                 ![r].desc = catalog[a], ![r].current = TRUE]
    /\ UNCHANGED <<left, shared, history>>

(* An account is leased: the one the request must or would rather use, or    *)
(* any that the pool finds.                                                  *)
Lease(r) ==
    /\ Go(r, "choose", IF r \in Proxied THEN "send" ELSE "leased")
    /\ InBudget(r)
    /\ \E a \in Accounts :
         /\ IF loop[r].prefer # None
            THEN a = loop[r].prefer /\ Available(a) /\ Supports(r, a)
            ELSE a \in Eligible(r)
         /\ HasSlot(a)
         /\ Take(r, a)
         /\ loop' = [loop EXCEPT ![r].on = a, ![r].prefer = None, ![r].used = @ \cup {a},
                                 ![r].desc = catalog[a], ![r].current = TRUE]
    /\ UNCHANGED <<left, shared, history>>

(* The preferred account cannot be leased.  After a refresh this ends an     *)
(* unpinned request too, whatever other accounts there are.                  *)
PreferredUnavailable(r) ==
    LET p == loop[r].prefer
        unavailable == IF r \notin Pinned THEN "noAccount"
                       ELSE IF account[p] = "cooling" THEN "cooling" ELSE "stateUnavailable"
    IN
    /\ InBudget(r) /\ p # None
    /\ ~(Available(p) /\ Supports(r, p))
    /\ End(r, "choose", IF r \in Proxied THEN "noAccount" ELSE LastOr(r, unavailable))
    /\ Keep
    /\ UNCHANGED <<left, shared, history>>

(* No account is left to try.  DoJSON prefers the pool's own error unless    *)
(* the last account was removed.                                             *)
NoAccountLeft(r) ==
    /\ InBudget(r) /\ loop[r].prefer = None
    /\ Eligible(r) = {}
    /\ End(r, "choose", IF r \in Proxied /\ loop[r].err # "removed" THEN "noAccount"
                        ELSE LastOr(r, "noAccount"))
    /\ Keep
    /\ UNCHANGED <<left, shared, history>>

(* The client leaves while the request waits for a slot. *)
LeaveQueue(r) ==
    /\ InBudget(r) /\ left[r]
    /\ End(r, "choose", LastOr(r, "cancelled"))
    /\ Keep
    /\ UNCHANGED <<left, shared, history>>

BudgetSpent(r) ==
    /\ ~InBudget(r)
    /\ End(r, "choose", LastOr(r, "noAccount"))
    /\ Keep
    /\ UNCHANGED <<left, shared, history>>

-----------------------------------------------------------------------------
(* refreshIdleInferenceCatalog: an account that was idle for ten minutes has *)
(* its catalog fetched first, under a metadata lease of its own.             *)

SkipCatalog(r) ==
    /\ Go(r, "leased", "render")
    /\ lastInference[lease[r]] # "longAgo"
    /\ lastInference' = [lastInference EXCEPT ![lease[r]] = "recent"]
    /\ Keep
    /\ UNCHANGED <<role, loop, left, account, catalog, changes, history>>

FetchCatalog(r) ==
    /\ Go(r, "leased", "fetching")
    /\ lastInference[lease[r]] = "longAgo"
    /\ lastInference' = [lastInference EXCEPT ![lease[r]] = "recent"]
    /\ inflight' = [inflight EXCEPT ![lease[r]] = @ + 1]
    /\ UNCHANGED <<role, lease, loop, left, account, catalog, changes, history>>

(* Best effort: without an answer the leased descriptor is used, also when   *)
(* the answer removed the account.  The refresh and the second call after a  *)
(* 401 of the metadata call are left out.                                    *)
FetchFails(r) ==
    /\ Go(r, "fetching", "render")
    /\ inflight' = [inflight EXCEPT ![lease[r]] = @ - 1]
    /\ \/ UNCHANGED <<account, blame>>
       \/ /\ account' = [account EXCEPT ![lease[r]] = "deleted"]
          /\ blame' = [blame EXCEPT ![lease[r]] = "removed"]
    /\ UNCHANGED <<role, lease, loop, left, catalog, lastInference, changes, tries, ran, failedRuns>>

FetchSucceeds(r) ==
    /\ Go(r, "fetching", "render")
    /\ catalog[lease[r]] # Gone
    /\ inflight' = [inflight EXCEPT ![lease[r]] = @ - 1]
    /\ loop' = [loop EXCEPT ![r].desc = catalog[lease[r]]]
    /\ UNCHANGED <<lease, left, shared, history>>

(* The account no longer offers the model: another one, uncounted. *)
ModelGone(r) ==
    /\ pc[r] = "fetching"
    /\ catalog[lease[r]] = Gone
    /\ lease' = [lease EXCEPT ![r] = None]
    /\ inflight' = [inflight EXCEPT ![lease[r]] = @ - 2]
    /\ IF r \in Pinned
       THEN End(r, "fetching", "stateUnavailable")
       ELSE Continue(r, "fetching", "choose", "noModel")
    /\ UNCHANGED <<left, shared, history>>

-----------------------------------------------------------------------------
(* Rendering for the descriptor, and sending.                                *)

Mismatched(r) == r \in Pinned /\ ~BackendMatches(loop[r].expected, loop[r].desc)

BackendChanged(r) ==
    /\ End(r, "render", "stateUnavailable")
    /\ Mismatched(r)
    /\ Release(r)
    /\ UNCHANGED <<left, shared, history>>

(* No representation for this backend: another account, uncounted. *)
RenderFails(r) ==
    /\ pc[r] = "render" /\ ~Mismatched(r)
    /\ loop[r].desc \notin Renderable[r]
    /\ Release(r)
    /\ IF r \in Pinned
       THEN End(r, "render", "unrendered")
       ELSE Continue(r, "render", "choose", "unrendered")
    /\ UNCHANGED <<left, shared, history>>

(* Wrong variant: MaxRetries is taken for the number of attempts. *)
RenderRetriesAreAttempts(r) ==
    /\ Go(r, "render", "send")
    /\ ~Mismatched(r)
    /\ loop[r].desc \in Renderable[r]
    /\ loop' = [loop EXCEPT ![r].max = IF Retries[loop[r].on] < @ THEN Retries[loop[r].on] ELSE @]
    /\ Keep
    /\ UNCHANGED <<left, shared, history>>

(* MaxRetries of a descriptor lowers the budget of the whole request, but    *)
(* only after this account has been let through.                             *)
Render(r) ==
    LET limit == Retries[loop[r].on] + 1 IN
    /\ Go(r, "render", "send")
    /\ ~Mismatched(r)
    /\ loop[r].desc \in Renderable[r]
    /\ loop' = [loop EXCEPT ![r].max = IF limit < @ THEN limit ELSE @]
    /\ Keep
    /\ UNCHANGED <<left, shared, history>>

Send(r) ==
    /\ Go(r, "send", "sent")
    /\ loop' = [loop EXCEPT ![r].attempts = IF r \in Proxied THEN @ ELSE @ + 1]
    /\ tries' = [tries EXCEPT ![r] = Append(@, lease[r])]
    /\ Keep
    /\ UNCHANGED <<left, shared, ran, failedRuns, blame>>

-----------------------------------------------------------------------------
(* What comes back.  The lease is returned before the outcome is handled.    *)

(* The upstream has, or may have, run the request; a GET runs nothing. *)
Runs(r) == ran' = [ran EXCEPT ![r] = IF r \in Proxied THEN @ ELSE @ + 1]

(* Wrong variant: every transport error is retried. *)
CanRetryEverything(r, wrote) ==
    ~left[r] /\ r \notin Pinned /\ InBudget(r)

CanRetryTransport(r, wrote) ==
    /\ ~left[r] /\ r \notin Pinned
    /\ wrote => r \in Proxied
    /\ IF r \in Proxied THEN Cardinality(loop[r].used) < MaxAttempts
                        ELSE loop[r].attempts < loop[r].max

(* No response.  When the body was handed to the connection nobody knows     *)
(* what the upstream did with it.                                            *)
TransportFails(r) ==
    /\ pc[r] = "sent"
    /\ \E wrote \in BOOLEAN :
         /\ IF wrote THEN Runs(r) ELSE UNCHANGED ran
         /\ IF CanRetryTransport(r, wrote)
            THEN Continue(r, "sent", "backoff", "transport")
            ELSE End(r, "sent", "transport")
    /\ Release(r)
    /\ UNCHANGED <<left, shared, tries, failedRuns, blame>>

(* Wrong variant: the lease is forgotten. *)
BodyUnreadableKeepsLease(r) ==
    /\ End(r, "sent", "unread")
    /\ Runs(r) \/ UNCHANGED ran
    /\ Keep
    /\ UNCHANGED <<left, shared, tries, failedRuns, blame>>

(* The body of the response cannot be read or decoded, whatever its status. *)
BodyUnreadable(r) ==
    /\ End(r, "sent", "unread")
    /\ Runs(r) \/ UNCHANGED ran
    /\ Release(r)
    /\ UNCHANGED <<left, shared, tries, failedRuns, blame>>

(* A server error is an answer, but does not say that nothing was run; it is *)
(* "overloaded" when the loop retries it, "refused" when it does not.        *)
RunFails(r) ==
    /\ r \notin Proxied
    /\ Runs(r)
    /\ failedRuns' = [failedRuns EXCEPT ![r] = @ + 1]

Rejected(r) ==
    /\ Go(r, "sent", "failed")
    /\ \E e \in Failures \ {"transport"} :
         /\ loop' = [loop EXCEPT ![r].err = e]
         /\ \/ UNCHANGED <<ran, failedRuns>>
            \/ e \in {"overloaded", "refused"} /\ RunFails(r)
    /\ Release(r)
    /\ UNCHANGED <<left, shared, tries, blame>>

Succeeds(r) ==
    /\ pc[r] = "sent"
    /\ Runs(r)
    /\ IF r \in Streaming
       THEN Go(r, "sent", "streaming") /\ Keep /\ UNCHANGED loop
       ELSE End(r, "sent", "ok") /\ Release(r)
    /\ UNCHANGED <<left, shared, tries, failedRuns, blame>>

-----------------------------------------------------------------------------
(* A rejected attempt.                                                       *)

(* Wrong variant: a pinned request goes on as well. *)
NextRoundForAll(r, from) == Continue(r, from, "choose", loop[r].err)

(* The next round of the loop, or the end of a pinned request. *)
NextRound(r, from) ==
    IF r \in Pinned THEN End(r, from, "stateUnavailable")
                    ELSE Continue(r, from, "choose", loop[r].err)

(* deleteCredentialOrDisable; an account that is gone already stays so. *)
RemoveAccount(a) ==
    /\ account' \in {[account EXCEPT ![a] = s] :
                       s \in IF account[a] = "deleted" THEN {"deleted"}
                             ELSE {"deleted", "disabled"}}
    /\ blame' = [blame EXCEPT ![a] = IF account[a] = "deleted" THEN @ ELSE "removed"]

(* Pool.Disable, for authentication_failed. *)
DisableAccount(a, why) ==
    IF account[a] = "deleted"
    THEN UNCHANGED <<account, blame>>
    ELSE /\ account' = [account EXCEPT ![a] = "disabled"]
         /\ blame' = [blame EXCEPT ![a] = why]

CoolAccount(a) ==
    account' = [account EXCEPT ![a] = IF @ = "ready" THEN "cooling" ELSE @]

(* Wrong variant: the request fails with its account. *)
RemoveAndFail(r) ==
    /\ pc[r] = "failed"
    /\ loop[r].err = "removed"
    /\ RemoveAccount(loop[r].on)
    /\ End(r, "failed", IF r \in Pinned THEN "stateUnavailable" ELSE "removed")
    /\ Keep
    /\ UNCHANGED <<role, left, catalog, lastInference, changes, tries, ran, failedRuns>>

Remove(r) ==
    /\ pc[r] = "failed"
    /\ loop[r].err = "removed"
    /\ RemoveAccount(loop[r].on)
    /\ NextRound(r, "failed")
    /\ Keep
    /\ UNCHANGED <<role, left, catalog, lastInference, changes, tries, ran, failedRuns>>

(* Wrong variant: the refresh is not remembered. *)
RenewForgotten(r) ==
    /\ loop[r].err = "unauthorized" /\ loop[r].on \notin loop[r].refreshed
    /\ Go(r, "failed", "renewing")
    /\ Keep
    /\ UNCHANGED <<loop, left, shared, history>>

(* The first 401 of an account in this request starts a refresh. *)
Renew(r) ==
    /\ loop[r].err = "unauthorized" /\ loop[r].on \notin loop[r].refreshed
    /\ Go(r, "failed", "renewing")
    /\ loop' = [loop EXCEPT ![r].refreshed = @ \cup {loop[r].on}]
    /\ Keep
    /\ UNCHANGED <<left, shared, history>>

(* RefreshIfUnchanged succeeds, at once when somebody else has refreshed     *)
(* since the lease: the attempt does not count and the account is tried      *)
(* again.  A refresh ends the cooldown of earlier failed refreshes, not that *)
(* of a 429.                                                                 *)
Renewed(r) ==
    LET a == loop[r].on IN
    /\ Go(r, "renewing", "choose")
    /\ account[a] # "deleted"
    /\ account[a] = "disabled" => ~loop[r].current
    /\ loop' = [q \in Requests |->
         IF q = r
         THEN [Forgotten(loop[r]) EXCEPT !.attempts = IF r \in Proxied THEN @ ELSE @ - 1,
                                       !.used = @ \ {a}, !.prefer = a]
         ELSE [loop[q] EXCEPT !.current = @ /\ ~(loop[r].current /\ loop[q].on = a)]]
    /\ \/ UNCHANGED account
       \/ loop[r].current /\ account[a] = "cooling" /\ account' = [account EXCEPT ![a] = "ready"]
    /\ Keep
    /\ UNCHANGED <<role, left, catalog, lastInference, changes, history>>

(* The refresh fails: the provider refuses, or the caller has left; the      *)
(* account is disabled in both cases.                                        *)
RenewalFails(r) ==
    LET a == loop[r].on IN
    /\ pc[r] = "renewing"
    /\ loop[r].current \/ account[a] = "deleted" \/ left[r]
    /\ \/ (loop[r].current \/ account[a] = "deleted") /\ DisableAccount(a, "refreshRefused")
       \/ left[r] /\ DisableAccount(a, "callerLeft")
    /\ NextRound(r, "renewing")
    /\ Keep
    /\ UNCHANGED <<role, left, catalog, lastInference, changes, tries, ran, failedRuns>>

(* Wrong variant: the first rejection is enough. *)
RejectedAtOnce(r) ==
    /\ pc[r] = "failed"
    /\ loop[r].err = "unauthorized"
    /\ DisableAccount(loop[r].on, "rejectedTwice")
    /\ NextRound(r, "failed")
    /\ Keep
    /\ UNCHANGED <<role, left, catalog, lastInference, changes, tries, ran, failedRuns>>

(* The refreshed token is rejected too. *)
RejectedAgain(r) ==
    /\ pc[r] = "failed"
    /\ loop[r].err = "unauthorized" /\ loop[r].on \in loop[r].refreshed
    /\ DisableAccount(loop[r].on, "rejectedTwice")
    /\ NextRound(r, "failed")
    /\ Keep
    /\ UNCHANGED <<role, left, catalog, lastInference, changes, tries, ran, failedRuns>>

(* handleRetryable: 429 cools the account, 5xx does not; "refused" is every  *)
(* other answer, x-should-retry: false included.                             *)
Unwilling(r) ==
    /\ pc[r] = "failed"
    /\ loop[r].err \in {"limited", "overloaded", "refused"}
    /\ IF loop[r].err = "limited" THEN CoolAccount(loop[r].on) ELSE UNCHANGED account
    /\ IF loop[r].err = "refused" \/ r \in Pinned \/ ~InBudget(r)
       THEN End(r, "failed", loop[r].err)
       ELSE Continue(r, "failed", IF r \in Proxied /\ loop[r].err = "limited"
                                  THEN "choose" ELSE "backoff", loop[r].err)
    /\ Keep
    /\ UNCHANGED <<role, left, catalog, lastInference, changes, history>>

BackoffEnds(r) ==
    /\ pc[r] = "backoff"
    /\ \/ Go(r, "backoff", "choose") /\ UNCHANGED loop
       \/ left[r] /\ End(r, "backoff", "cancelled")
    /\ Keep
    /\ UNCHANGED <<left, shared, history>>

-----------------------------------------------------------------------------
(* An open stream.  EventStream.observe acts on the quota errors inside it;  *)
(* reading ends with the upstream's last byte, an error, the idle timer, an  *)
(* oversized event, or the client.                                           *)

StreamReportsQuota(r) ==
    /\ pc[r] = "streaming"
    /\ \/ RemoveAccount(lease[r])
       \/ CoolAccount(lease[r]) /\ UNCHANGED blame
    /\ Keep
    /\ UNCHANGED <<role, pc, loop, left, catalog, lastInference, changes, tries, ran, failedRuns>>

(* EventStream.Close: from Next when reading ends, or deferred. *)
StreamCloses(r) ==
    /\ End(r, "streaming", "ok")
    /\ Release(r)
    /\ UNCHANGED <<left, shared, history>>

-----------------------------------------------------------------------------
(* Outside the loops.                                                        *)

ClientLeaves(r) ==
    /\ pc[r] # "ended" /\ ~left[r]
    /\ changes < MaxChanges
    /\ changes' = changes + 1
    /\ left' = [left EXCEPT ![r] = TRUE]
    /\ UNCHANGED <<role, pc, lease, loop, account, catalog, lastInference, inflight, history>>

CoolingEnds(a) ==
    /\ account[a] = "cooling"
    /\ account' = [account EXCEPT ![a] = "ready"]
    /\ UNCHANGED <<role, pc, lease, loop, left, catalog, lastInference, inflight, changes, history>>

(* A catalog refresh, or ten minutes without a request. *)
TimePasses(a) ==
    /\ changes < MaxChanges
    /\ changes' = changes + 1
    /\ \/ /\ \E b \in (Backends \cup {Gone}) \ {catalog[a]} : catalog' = [catalog EXCEPT ![a] = b]
          /\ UNCHANGED lastInference
       \/ /\ lastInference[a] = "recent"
          /\ lastInference' = [lastInference EXCEPT ![a] = "longAgo"]
          /\ UNCHANGED catalog
    /\ UNCHANGED <<role, pc, lease, loop, left, account, inflight, history>>

-----------------------------------------------------------------------------
Attempt(r) ==
    \/ Lease(r) \/ PreferredUnavailable(r) \/ NoAccountLeft(r) \/ LeaveQueue(r) \/ BudgetSpent(r)
    \/ SkipCatalog(r) \/ FetchCatalog(r) \/ FetchFails(r) \/ FetchSucceeds(r) \/ ModelGone(r)
    \/ BackendChanged(r) \/ RenderFails(r) \/ Render(r) \/ Send(r)
    \/ TransportFails(r) \/ BodyUnreadable(r) \/ Rejected(r) \/ Succeeds(r)
    \/ Remove(r) \/ Renew(r) \/ Renewed(r) \/ RenewalFails(r) \/ RejectedAgain(r)
    \/ Unwilling(r) \/ BackoffEnds(r) \/ StreamCloses(r)

AllEnded == (\A r \in Requests : pc[r] = "ended") /\ UNCHANGED vars

Next ==
    \/ \E r \in Requests : Attempt(r) \/ StreamReportsQuota(r) \/ ClientLeaves(r)
    \/ \E a \in Accounts : CoolingEnds(a) \/ TimePasses(a)
    \/ AllEnded

(* Every call of the loop has a deadline: the upstream answers or the        *)
(* transport times out, a refresh and a deletion have 20 and 30 seconds, a   *)
(* stream is read to its end or closed.  Clients need not leave and cooldowns*)
(* need not end.                                                             *)
Fairness == \A r \in Requests : WF_vars(Attempt(r))

Spec == Init /\ [][Next]_vars /\ Fairness

-----------------------------------------------------------------------------
(* Properties.                                                               *)

(* Types of the variables. *)
TypeOK ==
    /\ role \in Mixes
    /\ pc \in [Requests -> {"choose", "leased", "fetching", "render", "send", "sent", "failed",
                            "renewing", "backoff", "streaming", "ended"}]
    /\ lease \in [Requests -> Accounts \cup {None}]
    /\ loop \in [Requests ->
         [on : Accounts \cup {None}, desc : Backends \cup {Gone}, used : SUBSET Accounts,
          refreshed : SUBSET Accounts, prefer : Accounts \cup {None},
          pin : Accounts \cup {None}, expected : Backends \cup {None},
          max : 1..MaxAttempts, attempts : 0..MaxAttempts, err : Errors, current : BOOLEAN]]
    /\ left \in [Requests -> BOOLEAN]
    /\ account \in [Accounts -> Statuses]
    /\ catalog \in [Accounts -> Backends \cup {Gone}]
    /\ lastInference \in [Accounts -> {"recent", "longAgo"}]
    /\ inflight \in [Accounts -> Nat]
    /\ changes \in 0..MaxChanges
    /\ tries \in [Requests -> Seq(Accounts)]
    /\ ran \in [Requests -> Nat] /\ failedRuns \in [Requests -> Nat]
    /\ blame \in [Accounts -> {None, "removed", "refreshRefused", "callerLeft", "rejectedTwice"}]

(* On every one of the many ways out of a round the lease has been returned, *)
(* once: a request that waits for an account, a refresh or a backoff, or has *)
(* ended, holds none, and an account's count is that of its leases, the      *)
(* metadata leases of idle refreshes included.                               *)
LeaseExact ==
    /\ \A a \in Accounts :
         inflight[a] = Cardinality({r \in Requests : lease[r] = a})
                       + Cardinality({r \in Requests : lease[r] = a /\ pc[r] = "fetching"})
    /\ \A r \in Requests :
         lease[r] # None <=>
            pc[r] \in {"leased", "fetching", "render", "send", "sent", "streaming"}

(* A request with a body that the upstream has run, or may have run, is over *)
(* unless the upstream answered that it failed: a success, an answer nobody  *)
(* could read and a failure after the body was sent lead back to no other    *)
(* account, "an unknown failure must not be cross-account replayed"          *)
(* (client.go:837).  After a server error the loop does replay it, so it may *)
(* run once more for each of these.  [DoInference, OpenInference, DoJSON]    *)
NoBlindReplay ==
    \A r \in Requests :
        /\ ran[r] <= failedRuns[r] + 1
        /\ ran[r] > failedRuns[r] => pc[r] \in {"streaming", "ended"}

(* The same without the exception.  It does not hold, see the README.        *)
(* [handleRetryable]                                                         *)
RunsAtMostOnce == \A r \in Requests : ran[r] <= 1

(* A request that carries state reaches no account but the one the state is  *)
(* of, over the protocol the state was made for, whatever failed before and  *)
(* whatever the catalog says now.                                            *)
PinnedStaysHome ==
    \A r \in Pinned :
        /\ \A i \in DOMAIN tries[r] : tries[r][i] = loop[r].pin
        /\ pc[r] \in {"sent", "streaming"} => loop[r].desc = loop[r].expected

Tries(r, a) == {i \in DOMAIN tries[r] : tries[r][i] = a}

(* A request is sent at most as often as the budget says, plus once for each *)
(* account whose token it had refreshed; an account is tried again only      *)
(* directly after that.                                                      *)
TriesAreBudgeted ==
    \A r \in Requests :
        /\ Len(tries[r]) <= MaxAttempts + Cardinality(loop[r].refreshed)
        /\ \A a \in Accounts : Cardinality(Tries(r, a)) >= 2 =>
             /\ a \in loop[r].refreshed
             /\ \E i \in 1..(Len(tries[r]) - 1) : Tries(r, a) = {i, i + 1}

(* README_EN.md:388: "Maximum number of distinct accounts tried per request" *)
DistinctAccountsBudgeted ==
    \A r \in Requests : Cardinality({tries[r][i] : i \in DOMAIN tries[r]}) <= MaxAttempts

(* An account loses its place for a rejected token only when one request had *)
(* its token rejected, refreshed, and rejected again.                        *)
VerdictNeedsRefresh ==
    \A a \in Accounts : blame[a] = "rejectedTwice" =>
        \E r \in Requests : a \in loop[r].refreshed /\ Cardinality(Tries(r, a)) = 2

(* A request that may use any account fails with an error of one of them     *)
(* only when its budget is spent, its client is gone or no account is left;  *)
(* or when the account it wants back after a refresh went away, the case in  *)
(* which the loop gives up early (PreferredUnavailable).                     *)
GivesUpLate ==
    [][\A r \in Requests \ Pinned :
         /\ pc[r] # "ended" /\ pc'[r] = "ended"
         /\ loop'[r].err \in {"unauthorized", "removed", "limited", "overloaded", "noAccount"}
         => \/ ~InBudget(r)
            \/ left[r]
            \/ Eligible(r) = {}
            \/ loop[r].prefer # None]_vars

(* Every request returns, and every stream gives its lease back. *)
EveryRequestEnds == \A r \in Requests : <>(pc[r] = "ended")
=============================================================================
