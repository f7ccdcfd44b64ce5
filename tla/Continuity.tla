----------------------------- MODULE Continuity -----------------------------
(***************************************************************************)
(* How requests that continue a conversation find the account that holds   *)
(* its upstream state: prepareInferenceExecution, the sending of the       *)
(* request by the client, and commitContinuity or commitStreamContinuity   *)
(* (inference_execution.go) over the bindings of the continuity store.     *)
(*                                                                         *)
(* Requests are of the Responses protocol and name one model, which is     *)
(* part of every key.  A response's identifier and its opaque reasoning    *)
(* token are named by the request that produced them.  Only a renderer for *)
(* the "responses" backend keeps such state.  An upstream session is named *)
(* by the request that opened it.  Every call of the store is a step; the  *)
(* checkpoint is the business of ContinuityStore, expiry and eviction are  *)
(* events here.  Local variables are forgotten after their last use.       *)
(***************************************************************************)
EXTENDS Integers, FiniteSets

CONSTANTS Requests,   (* HTTP requests                                        *)
          Tenants,    (* namespaces of API keys; "public" is the shared one   *)
          Aliases,    (* values of X-Grok-Session-ID                          *)
          Accounts,
          None,       (* no alias, account, session, key or binding           *)
          Catalogs,   (* what the accounts offer at first                     *)
          Changes,    (* what an account may offer later                      *)
          Streaming,  (* whether requests may, or must, be streaming          *)
          MaxHints,   (* bound: alias and state handles in one request        *)
          MaxActive,  (* bound: requests served at the same time              *)
          MaxEvents   (* bound: changes from outside                          *)

Backends == {"responses", "chat"}
Offers == Backends \cup {"gone"}
Handles == [kind : {"previous", "signature"}, of : Requests]
Keys == [tenant : Tenants, kind : {"session"}, of : Aliases]
            \cup [tenant : Tenants, kind : {"previous", "signature"}, of : Requests]
Route == [account : Accounts, backend : Backends, session : Requests]
Binding == [account : Accounts, backend : Backends, session : Requests, next : Nat]

ASSUME ContinuityAssumption ==
    /\ Catalogs \subseteq [Accounts -> Offers]
    /\ Changes \subseteq Offers
    /\ Streaming \subseteq BOOLEAN
    /\ MaxHints \in Nat /\ MaxActive \in Nat /\ MaxEvents \in Nat
    /\ None \notin Accounts \cup Requests \cup Aliases
    /\ None \notin Keys /\ None \notin Binding

VARIABLES
    pc,         (* where each request is                                     *)
    asked,      (* what each request came with: its tenant, session alias    *)
                (* and state handles, and whether it streams                 *)
    todo,       (* keys it has yet to look up, later keys it has yet to bind *)
    known,      (* the bindings its lookups found, by key                    *)
    pinned,     (* the route of the binding it follows                       *)
    reserve,    (* the key whose turn it reserves                            *)
    turn,       (* its turn                                                  *)
    pending,    (* keys to bind when it succeeds                             *)
    wire,       (* what was sent upstream for it                             *)
    emitted,    (* state that clients have received                          *)
    bindings,   (* the continuity store                                      *)
    catalog,    (* the backend each account offers the model on              *)
    deleting,   (* accounts deleted from the pool, not yet from the store    *)
    events,     (* changes from outside so far                               *)
    moved,      (* auxiliary: an offer changed before the request was sent   *)
    lost        (* auxiliary: keys that expired, were evicted or deleted     *)

planVars == <<asked, todo, known, pinned, reserve, turn, pending>>
storeVars == <<bindings, lost>>
outsideVars == <<catalog, deleting, events, moved>>
vars == <<pc, planVars, wire, emitted, storeVars, outsideVars>>

Go(r, from, to) == pc[r] = from /\ pc' = [pc EXCEPT ![r] = to]

NoRoute == [account |-> None, backend |-> "none", session |-> None]
NotSent == [account |-> None, backend |-> "none", session |-> None, handles |-> {}]
NotAsked == [tenant |-> "public", alias |-> None, handles |-> {}, stream |-> FALSE]
RouteOf(b) == [account |-> b.account, backend |-> b.backend, session |-> b.session]

(* continuityKey *)
KeyOf(t, kind, of) == [tenant |-> t, kind |-> kind, of |-> of]

SessionKey(r) == KeyOf(asked[r].tenant, "session", asked[r].alias)
HandleKey(r, h) == KeyOf(asked[r].tenant, h.kind, h.of)
SessionKeys(r) == IF asked[r].alias = None THEN {} ELSE {SessionKey(r)}
KeysOf(r, handles) == {HandleKey(r, h) : h \in handles}

Found(r) == DOMAIN known[r]
Private(r) == asked[r].tenant # "public"

(* The plan's state: opaque tokens nobody here knows have been taken out. *)
Plan(r) == {h \in asked[r].handles : h.kind = "previous" \/ HandleKey(r, h) \in Found(r)}

(* renderedStateHandleSet: what a renderer leaves of the plan's state. *)
Rendered(r, backend) == IF backend = "responses" THEN Plan(r) ELSE {}

(* planPreservedStateHandles: what some account's renderer would leave of it. *)
Preservable(r) == UNION {Rendered(r, catalog[a]) : a \in Accounts}

Init ==
    /\ pc = [r \in Requests |-> "idle"]
    /\ asked = [r \in Requests |-> NotAsked]
    /\ todo = [r \in Requests |-> {}]
    /\ known = [r \in Requests |-> << >>]
    /\ pinned = [r \in Requests |-> NoRoute]
    /\ reserve = [r \in Requests |-> None]
    /\ turn = [r \in Requests |-> 0]
    /\ pending = [r \in Requests |-> {}]
    /\ wire = [r \in Requests |-> NotSent]
    /\ emitted = {}
    /\ bindings = [k \in Keys |-> None]
    /\ catalog \in Catalogs
    /\ deleting = {}
    /\ events = 0
    /\ moved = [r \in Requests |-> FALSE]
    /\ lost = {}

(* The request ends with an error. *)
Forgotten(r) ==
    /\ asked' = [asked EXCEPT ![r] = NotAsked]
    /\ todo' = [todo EXCEPT ![r] = {}]
    /\ known' = [known EXCEPT ![r] = << >>]
    /\ pinned' = [pinned EXCEPT ![r] = NoRoute]
    /\ reserve' = [reserve EXCEPT ![r] = None]
    /\ turn' = [turn EXCEPT ![r] = 0]
    /\ pending' = [pending EXCEPT ![r] = {}]
    /\ wire' = [wire EXCEPT ![r] = NotSent]
    /\ moved' = [moved EXCEPT ![r] = FALSE]

-----------------------------------------------------------------------------
(* prepareInferenceExecution                                                 *)

(* A client sends any alias and any state that it, or somebody else, was     *)
(* given; a body has room for one previous_response_id.                      *)
Start(r) ==
    /\ Go(r, "idle", "lookup")
    /\ Cardinality({s \in Requests : pc[s] \notin {"idle", "done", "failed"}}) < MaxActive
    /\ \E t \in Tenants, x \in Aliases \cup {None}, s \in Streaming, H \in SUBSET emitted :
        /\ Cardinality({h \in H : h.kind = "previous"}) <= 1
        /\ Cardinality(H) + Cardinality({x} \ {None}) <= MaxHints
        /\ asked' = [asked EXCEPT ![r] = [tenant |-> t, alias |-> x, handles |-> H,
                                          stream |-> s]]
        /\ todo' = [todo EXCEPT ![r] = {KeyOf(t, h.kind, h.of) : h \in H} \cup
                        {KeyOf(t, "session", y) : y \in {x} \ {None}}]
    /\ UNCHANGED <<known, pinned, reserve, turn, pending, wire, emitted, storeVars, outsideVars>>

(* Lookup, the session's key before those of the state handles. *)
Lookup(r) ==
    /\ pc[r] = "lookup"
    /\ \E k \in todo[r] :
        /\ todo[r] \cap SessionKeys(r) \subseteq {k}
        /\ todo' = [todo EXCEPT ![r] = @ \ {k}]
        /\ known' = IF bindings[k] = None THEN known
                    ELSE [known EXCEPT ![r] = [l \in DOMAIN @ \cup {k} |->
                                                  IF l = k THEN bindings[k] ELSE @[l]]]
    /\ UNCHANGED <<pc, asked, pinned, reserve, turn, pending, wire, emitted, storeVars,
                   outsideVars>>

FoundSession(r) == SessionKeys(r) \cap Found(r)
FoundState(r) == KeysOf(r, Plan(r)) \cap Found(r)

(* The bindings asked to lead: the session's, or else those of the state. *)
Leads(r) == IF FoundSession(r) # {} THEN FoundSession(r) ELSE FoundState(r)

(* renderForBinding fails: the account no longer offers the bound backend.   *)
(* An account that is gone is rendered for like one with an old catalog.     *)
Stranded(r, k) ==
    LET offer == catalog[known[r][k].account]
    IN known[r][k].backend # (IF offer = "gone" THEN "chat" ELSE offer)

(* The session always leads; state leads if its bound renderer keeps it. *)
Leaders(r) ==
    {k \in Leads(r) : k \in FoundSession(r) \/ known[r][k].backend = "responses"}

Kept(r, k) == KeysOf(r, Rendered(r, known[r][k].backend))

SameRoute(r, k, l) == RouteOf(known[r][k]) = RouteOf(known[r][l])

(* Wrong variant: only the leading binding is looked at. *)
LeaderAlone(r, k) == TRUE

(* prepareBoundExecution: state that stays in the body belongs to the route  *)
(* of the leader; unknown state is let through for the public namespace.     *)
Compatible(r, k) ==
    /\ Private(r) => Kept(r, k) \subseteq Found(r)
    /\ \A l \in Kept(r, k) \cap Found(r) : SameRoute(r, k, l)

(* The bindings of the execution, and the one furthest on among them. *)
Followed(r, k) == {k} \cup (Kept(r, k) \cap Found(r))
Furthest(r, k) ==
    {l \in Followed(r, k) :
        /\ \A m \in Followed(r, k) : known[r][m].next <= known[r][l].next
        /\ l = k \/ known[r][l].next > known[r][k].next}

Decides(r) == pc[r] = "lookup" /\ todo[r] = {}

Follow(r) ==
    /\ Decides(r)
    /\ \A k \in Leads(r) : ~Stranded(r, k)
    /\ \E k \in Leaders(r) :
        /\ Compatible(r, k)
        /\ \E l \in Furthest(r, k) : reserve' = [reserve EXCEPT ![r] = l]
        /\ pinned' = [pinned EXCEPT ![r] = RouteOf(known[r][k])]
        /\ pending' = [pending EXCEPT ![r] = Followed(r, k) \cup SessionKeys(r)]
    /\ Go(r, "lookup", "reserve")
    /\ UNCHANGED <<asked, todo, known, turn, wire, emitted, storeVars, outsideVars>>

(* Wrong variant: every tenant carries on with unknown state. *)
UnplaceableIfFound(r) ==
    /\ Leaders(r) = {}
    /\ \E h \in Preservable(r) : HandleKey(r, h) \in Found(r)

(* Without a leader, state that a viable route could send upstream is not    *)
(* accepted; only the public namespace carries on with unknown state.        *)
Unplaceable(r) ==
    /\ Leaders(r) = {}
    /\ \E h \in Preservable(r) : Private(r) \/ HandleKey(r, h) \in Found(r)

Refuse(r) ==
    /\ Decides(r)
    /\ \/ \E k \in Leads(r) : Stranded(r, k)
       \/ \E k \in Leaders(r) : ~Compatible(r, k)
       \/ Unplaceable(r)
    /\ Go(r, "lookup", "failed")
    /\ Forgotten(r)
    /\ UNCHANGED <<emitted, storeVars, catalog, deleting, events>>

(* A fresh upstream session; the alias, or else the public state, is bound   *)
(* to it when the request succeeds.                                          *)
BeginFresh(r) ==
    /\ Decides(r)
    /\ \A k \in Leads(r) : ~Stranded(r, k)
    /\ Leaders(r) = {}
    /\ ~Unplaceable(r)
    /\ Go(r, "lookup", "send")
    /\ pending' = [pending EXCEPT ![r] = IF SessionKeys(r) # {} THEN SessionKeys(r)
                                         ELSE KeysOf(r, Preservable(r))]
    /\ UNCHANGED <<asked, todo, known, pinned, reserve, turn, wire, emitted, storeVars,
                   outsideVars>>

(* ReserveTurn, and the second look at the route it returns. *)
ReserveTurn(r) ==
    LET k == reserve[r] IN
    /\ pc[r] = "reserve"
    /\ \/ /\ bindings[k] = None
          /\ Go(r, "reserve", "noTurn")
          /\ UNCHANGED <<turn, bindings>>
       \/ /\ bindings[k] # None
          /\ bindings' = [bindings EXCEPT ![k].next = @ + 1]
          /\ turn' = [turn EXCEPT ![r] = bindings[k].next]
          /\ Go(r, "reserve", IF RouteOf(bindings[k]) = pinned[r] THEN "send" ELSE "noTurn")
    /\ reserve' = [reserve EXCEPT ![r] = None]
    /\ UNCHANGED <<asked, todo, known, pinned, pending, wire, emitted, lost, outsideVars>>

-----------------------------------------------------------------------------
(* DoInference and OpenInference, their last attempt.                        *)

(* Wrong variant: only bindings name an upstream session. *)
SessionOfBinding(r) == pinned[r].session

SessionOf(r) == IF pinned[r] = NoRoute THEN r ELSE pinned[r].session

(* Wrong variant: the backend the account offers now is not compared with    *)
(* the backend of the binding.                                               *)
SendOnAnyBackend(r) ==
    \E a \in Accounts :
        /\ catalog[a] # "gone"
        /\ pinned[r] # NoRoute => a = pinned[r].account
        /\ wire' = [wire EXCEPT ![r] = [account |-> a, backend |-> catalog[a],
                       session |-> SessionOf(r), handles |-> Rendered(r, catalog[a])]]
        /\ Go(r, "send", "sent")
        /\ known' = [known EXCEPT ![r] = << >>]
        /\ UNCHANGED <<asked, todo, pinned, reserve, turn, pending, emitted, storeVars,
                       outsideVars>>

(* A pinned request is for one account and the backend of its binding. *)
Send(r) ==
    \E a \in Accounts :
        /\ catalog[a] # "gone"
        /\ pinned[r] # NoRoute => a = pinned[r].account /\ catalog[a] = pinned[r].backend
        /\ wire' = [wire EXCEPT ![r] = [account |-> a, backend |-> catalog[a],
                       session |-> SessionOf(r), handles |-> Rendered(r, catalog[a])]]
        /\ Go(r, "send", "sent")
        /\ known' = [known EXCEPT ![r] = << >>]
        /\ UNCHANGED <<asked, todo, pinned, reserve, turn, pending, emitted, storeVars,
                       outsideVars>>

(* No turn, no account, a refusal, an error in mid-stream, a client that is gone. *)
Fail(r) ==
    /\ Go(r, pc[r], "failed")
    /\ pc[r] \in {"noTurn", "send", "sent"}
    /\ Forgotten(r)
    /\ UNCHANGED <<emitted, storeVars, catalog, deleting, events>>

-----------------------------------------------------------------------------
(* Success: commitContinuity before the answer is written, or                *)
(* commitStreamContinuity after the terminal event has been.                 *)

(* The state a response carries: an identifier, and a token of its backend. *)
Output(r) == {[kind |-> "previous", of |-> r]} \cup
             {[kind |-> k, of |-> r] : k \in IF wire[r].backend = "responses"
                                             THEN {"signature"} ELSE {}}

(* bindPendingContinuity skips state that the attempt did not carry. *)
Survives(r, k) == k.kind = "session" \/ k \in KeysOf(r, wire[r].handles)

Succeed(r) ==
    /\ Go(r, "sent", "commit")
    /\ todo' = [todo EXCEPT ![r] = {k \in pending[r] : Survives(r, k)}
                                       \cup KeysOf(r, Output(r))]
    /\ emitted' = IF asked[r].stream THEN emitted \cup Output(r) ELSE emitted
    /\ pending' = [pending EXCEPT ![r] = {}]
    /\ pinned' = [pinned EXCEPT ![r] = NoRoute]
    /\ moved' = [moved EXCEPT ![r] = FALSE]
    /\ UNCHANGED <<asked, known, reserve, turn, wire, storeVars, catalog, deleting, events>>

(* Bind, the pending keys before the response's own; after the last one the  *)
(* client has its answer.                                                    *)
Bind(r) ==
    \E k \in todo[r] :
        /\ k \in KeysOf(r, Output(r)) => todo[r] \subseteq KeysOf(r, Output(r))
        /\ k.kind = "signature" /\ k.of = r => todo[r] = {k}
        /\ Go(r, "commit", IF todo[r] = {k} THEN "done" ELSE "commit")
        /\ todo' = [todo EXCEPT ![r] = @ \ {k}]
        /\ bindings' = [bindings EXCEPT ![k] =
                          [account |-> wire[r].account, backend |-> wire[r].backend,
                           session |-> wire[r].session, next |-> turn[r] + 1]]
        /\ lost' = lost \ {k}
        /\ emitted' = IF todo[r] = {k} THEN emitted \cup Output(r) ELSE emitted
        /\ asked' = IF todo[r] = {k}
                    THEN [asked EXCEPT ![r] = [NotAsked EXCEPT !.tenant = asked[r].tenant]]
                    ELSE asked
        /\ UNCHANGED <<known, pinned, reserve, turn, pending, wire, outsideVars>>

-----------------------------------------------------------------------------
(* What happens around the requests.                                         *)

Event == events < MaxEvents /\ events' = events + 1

AtWork == {r \in Requests : pc[r] = "send"}
Offer(a, o) ==
    /\ catalog' = [catalog EXCEPT ![a] = o]
    /\ moved' = [r \in Requests |-> moved[r] \/ r \in AtWork]

(* A catalog refresh, an import, or the end of an account. *)
ChangeOffer(a, o) ==
    /\ Event
    /\ catalog[a] # o
    /\ Offer(a, o)
    /\ UNCHANGED <<pc, planVars, wire, emitted, storeVars, deleting>>

(* adminCredential: first the pool, then the store. *)
DeleteCredential(a) ==
    /\ Event
    /\ catalog[a] # "gone"
    /\ Offer(a, "gone")
    /\ deleting' = deleting \cup {a}
    /\ UNCHANGED <<pc, planVars, wire, emitted, storeVars>>

Lose(K) ==
    /\ bindings' = [k \in Keys |-> IF k \in K THEN None ELSE bindings[k]]
    /\ lost' = lost \cup K

DeleteAccount(a) ==
    /\ a \in deleting
    /\ deleting' = deleting \ {a}
    /\ Lose({k \in Keys : bindings[k] # None /\ bindings[k].account = a})
    /\ UNCHANGED <<pc, planVars, wire, emitted, catalog, events, moved>>

(* A binding expires or is evicted. *)
Expire(k) ==
    /\ Event
    /\ bindings[k] # None
    /\ Lose({k})
    /\ UNCHANGED <<pc, planVars, wire, emitted, catalog, deleting, moved>>

-----------------------------------------------------------------------------

Prepares(r) == Start(r) \/ Lookup(r) \/ Follow(r) \/ Refuse(r) \/ BeginFresh(r) \/ ReserveTurn(r)
Executes(r) == Send(r) \/ Fail(r) \/ Succeed(r) \/ Bind(r)

Ended ==
    /\ \A r \in Requests : pc[r] \in {"done", "failed"}
    /\ UNCHANGED vars

Next ==
    \/ \E r \in Requests : Prepares(r) \/ Executes(r)
    \/ \E a \in Accounts : (\E o \in Changes : ChangeOffer(a, o))
                           \/ DeleteCredential(a) \/ DeleteAccount(a)
    \/ \E k \in Keys : Expire(k)
    \/ Ended

Spec == Init /\ [][Next]_vars

-----------------------------------------------------------------------------
(* Properties.                                                               *)

(* The types of the state. *)
TypeOK ==
    /\ pc \in [Requests -> {"idle", "lookup", "reserve", "noTurn", "send", "sent",
                            "commit", "done", "failed"}]
    /\ asked \in [Requests -> [tenant : Tenants \cup {"public"}, alias : Aliases \cup {None},
                               handles : SUBSET Handles, stream : BOOLEAN]]
    /\ todo \in [Requests -> SUBSET Keys]
    /\ \A r \in Requests : /\ DOMAIN known[r] \subseteq Keys
                           /\ \A k \in DOMAIN known[r] : known[r][k] \in Binding
    /\ pinned \in [Requests -> Route \cup {NoRoute}]
    /\ reserve \in [Requests -> Keys \cup {None}]
    /\ turn \in [Requests -> Nat]
    /\ pending \in [Requests -> SUBSET Keys]
    /\ wire \in [Requests -> [account : Accounts, backend : Backends, session : Requests,
                              handles : SUBSET Handles] \cup {NotSent}]
    /\ emitted \subseteq Handles
    /\ bindings \in [Keys -> Binding \cup {None}]
    /\ catalog \in [Accounts -> Offers]
    /\ deleting \subseteq Accounts
    /\ events \in 0..MaxEvents
    /\ moved \in [Requests -> BOOLEAN]
    /\ lost \subseteq Keys

Sent(r) == pc[r] \in {"sent", "commit", "done"}

(* State handles reach only the account and the upstream session they come   *)
(* from, and only for the tenant they were given to.  The one exception is a *)
(* request that found no route and was sent after an account's catalog had   *)
(* changed: what could be kept was decided with the catalogs of before.      *)
StateStaysHome ==
    \A r \in Requests :
        pc[r] = "sent" /\ Private(r) /\ (pinned[r] # NoRoute \/ ~moved[r]) =>
            \A h \in wire[r].handles :
                /\ wire[h.of].account = wire[r].account
                /\ wire[h.of].session = wire[r].session
                /\ asked[h.of].tenant = asked[r].tenant

(* An upstream session belongs to one tenant, and all its turns go to one    *)
(* account and one backend, whatever requests, commits, deletions and        *)
(* catalog changes come in between.                                          *)
SessionHasOneHome ==
    \A r, s \in Requests :
        Sent(r) /\ Sent(s) /\ wire[r].session = wire[s].session =>
            /\ wire[r].account = wire[s].account
            /\ wire[r].backend = wire[s].backend
            /\ asked[r].tenant = asked[s].tenant

(* When a request of a tenant has ended well, its response can be continued: *)
(* the identifier leads to the account and session that produced it, unless  *)
(* it expired, was evicted or its account was deleted, and no other request  *)
(* makes it lead anywhere else.                                              *)
OwnerIsRemembered ==
    \A r \in Requests :
        pc[r] = "done" /\ Private(r) =>
            LET k == KeyOf(asked[r].tenant, "previous", r)
            IN k \notin lost => bindings[k] # None
                                /\ bindings[k].account = wire[r].account
                                /\ bindings[k].session = wire[r].session

(* "ReserveTurn atomically reserves a zero-based turn for a persisted hard   *)
(* session" (continuity.go): no two requests get the same turn of a session. *)
TurnUsedOnce ==
    \A r, s \in Requests :
        r # s /\ Sent(r) /\ Sent(s) /\ wire[r].session = wire[s].session => turn[r] # turn[s]
=============================================================================
