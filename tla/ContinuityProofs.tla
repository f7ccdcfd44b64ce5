-------------------------- MODULE ContinuityProofs --------------------------
(***************************************************************************)
(* Proofs about Continuity: whatever requests, commits, catalog changes,   *)
(* deletions and expiries come in between, an upstream session has one     *)
(* tenant, one account and one backend, private state goes home, and a     *)
(* response that ended well can be continued.                              *)
(***************************************************************************)
EXTENDS Continuity, TLAPS

Working == {"lookup", "reserve", "noTurn", "send", "sent", "commit"}
Settled == {"commit", "done"}

(* The upstream session of a route was opened by an answered request of the  *)
(* tenant, on the account and the backend of the route.                      *)
Lives(b, t) ==
    /\ pc[b.session] \in Settled
    /\ wire[b.session].session = b.session
    /\ wire[b.session].account = b.account
    /\ wire[b.session].backend = b.backend
    /\ asked[b.session].tenant = t

(* A private state key leads where the request that produced it was sent.    *)
Produced(b, k) ==
    k.kind # "session" /\ k.tenant # "public" =>
        /\ pc[k.of] \in Settled
        /\ wire[k.of].session = b.session
        /\ wire[k.of].account = b.account
        /\ wire[k.of].backend = b.backend
        /\ asked[k.of].tenant = k.tenant

(* The invariant.                                                            *)
Types == TypeOK /\ DOMAIN known = Requests

(* The store.                                                                *)
Stored == \A k \in Keys : bindings[k] # None => Lives(bindings[k], k.tenant)
                                                /\ Produced(bindings[k], k)

(* What the lookups of a request found, possibly gone from the store since.  *)
Looked(r) == \A k \in DOMAIN known[r] : Lives(known[r][k], k.tenant)
                                        /\ Produced(known[r][k], k)

(* A request that has not decided follows nothing.                           *)
Blank(r) == pc[r] \in {"idle", "lookup"} =>
    /\ pending[r] = {} /\ pinned[r] = NoRoute
    /\ pc[r] = "idle" => DOMAIN known[r] = {}

(* Its keys are those of its tenant.                                         *)
OwnKeys(r) == pc[r] \in Working =>
    /\ asked[r].tenant \in Tenants
    /\ \A k \in todo[r] \cup pending[r] \cup DOMAIN known[r] : k.tenant = asked[r].tenant

Turning(r) == pc[r] = "reserve" => reserve[r] \in Keys /\ pinned[r] # NoRoute

(* A request that follows a route takes along only state of that route.      *)
Bound(r) == pinned[r] # NoRoute =>
    /\ pc[r] \in {"reserve", "noTurn", "send", "sent"}
    /\ Lives(pinned[r], asked[r].tenant)
    /\ \A k \in pending[r] : Produced(pinned[r], k)
    /\ pc[r] \in {"reserve", "send"} =>
           \A h \in Rendered(r, pinned[r].backend) : Produced(pinned[r], HandleKey(r, h))

(* A private request that follows none takes along no state, unless a catalog *)
(* has changed since it was decided.                                         *)
Free(r) == pinned[r] = NoRoute /\ pc[r] = "send" /\ Private(r) =>
    /\ \A k \in pending[r] : k.kind = "session"
    /\ ~moved[r] => Preservable(r) = {}

(* What was sent, and what is to be bound for it, is at home.                *)
OnWire(r) == Sent(r) =>
    /\ wire[r] # NotSent
    /\ wire[r].session # r => Lives(wire[r], asked[r].tenant)
    /\ pc[r] = "sent" => \A k \in pending[r] : Produced(wire[r], k)
    /\ pc[r] = "sent" /\ (pinned[r] # NoRoute \/ ~moved[r]) =>
           \A h \in wire[r].handles : Produced(wire[r], HandleKey(r, h))
    /\ pc[r] = "commit" => \A k \in todo[r] : Produced(wire[r], k)

(* The identifier of an answer is bound, or is going to be, or was lost.     *)
Remembered(r) == pc[r] \in Settled /\ Private(r) =>
    LET k == KeyOf(asked[r].tenant, "previous", r)
    IN /\ k \in Keys
       /\ (pc[r] = "commit" /\ k \in todo[r]) \/ k \in lost \/ bindings[k] # None

Request(r) == Looked(r) /\ Blank(r) /\ OwnKeys(r) /\ Turning(r) /\ Bound(r) /\ Free(r)
              /\ OnWire(r) /\ Remembered(r)

Inv == Types /\ Stored /\ \A r \in Requests : Request(r)

-----------------------------------------------------------------------------
(* The types.                                                                *)

LEMMA RouteIsSomething == \A b \in Binding : RouteOf(b) \in Route /\ RouteOf(b) # NoRoute
  BY ContinuityAssumption DEF RouteOf, Route, NoRoute, Binding

LEMMA KeyTypes ==
  ASSUME NEW t \in Tenants
  PROVE  /\ \A h \in Handles : KeyOf(t, h.kind, h.of) \in Keys
         /\ \A x \in Aliases : KeyOf(t, "session", x) \in Keys
  BY DEF KeyOf, Keys, Handles

LEMMA InitTypes == Init => Types
  BY ContinuityAssumption
     DEF Init, Types, TypeOK, NotAsked, NoRoute, NotSent, Keys, Handles, Offers, Backends

LEMMA ForgottenTypes ==
  ASSUME Types, NEW r \in Requests, Forgotten(r), pc' = [pc EXCEPT ![r] = "failed"],
         UNCHANGED <<emitted, storeVars, catalog, deleting, events>>
  PROVE  Types'
  BY DEF Types, TypeOK, Forgotten, storeVars, NotAsked

LEMMA StartTypes ==
  ASSUME Types, NEW r \in Requests, Start(r)
  PROVE  Types'
<1>1. PICK t \in Tenants, x \in Aliases \cup {None}, s \in Streaming, H \in SUBSET emitted :
        /\ asked' = [asked EXCEPT ![r] = [tenant |-> t, alias |-> x, handles |-> H,
                                          stream |-> s]]
        /\ todo' = [todo EXCEPT ![r] = {KeyOf(t, h.kind, h.of) : h \in H} \cup
                        {KeyOf(t, "session", y) : y \in {x} \ {None}}]
  BY DEF Start
<1>2. /\ {KeyOf(t, h.kind, h.of) : h \in H} \subseteq Keys
      /\ {KeyOf(t, "session", y) : y \in {x} \ {None}} \subseteq Keys
  BY KeyTypes DEF Types, TypeOK
<1>3. [tenant |-> t, alias |-> x, handles |-> H, stream |-> s]
        \in [tenant : Tenants \cup {"public"}, alias : Aliases \cup {None},
             handles : SUBSET Handles, stream : BOOLEAN]
  BY ContinuityAssumption DEF Types, TypeOK
<1>4. QED
  BY <1>1, <1>2, <1>3
     DEF Types, TypeOK, Start, Go, storeVars, outsideVars

LEMMA LookupTypes ==
  ASSUME Types, NEW r \in Requests, Lookup(r)
  PROVE  Types'
<1>1. PICK k \in todo[r] :
        /\ todo' = [todo EXCEPT ![r] = @ \ {k}]
        /\ known' = IF bindings[k] = None THEN known
                    ELSE [known EXCEPT ![r] = [l \in DOMAIN @ \cup {k} |->
                                                  IF l = k THEN bindings[k] ELSE @[l]]]
  BY DEF Lookup
<1>2. k \in Keys /\ (bindings[k] # None => bindings[k] \in Binding)
  BY DEF Types, TypeOK
<1>3. /\ DOMAIN known' = Requests
      /\ \A q \in Requests : /\ DOMAIN known'[q] \subseteq Keys
                             /\ \A l \in DOMAIN known'[q] : known'[q][l] \in Binding
  BY <1>1, <1>2 DEF Types, TypeOK
<1>4. QED
  BY <1>1, <1>3 DEF Types, TypeOK, Lookup, storeVars, outsideVars

LEMMA FollowTypes ==
  ASSUME Types, NEW r \in Requests, OwnKeys(r), Follow(r)
  PROVE  Types' /\ reserve'[r] \in Keys /\ pinned'[r] # NoRoute
<1>1. PICK k \in Leaders(r) :
        /\ \E l \in Furthest(r, k) : reserve' = [reserve EXCEPT ![r] = l]
        /\ pinned' = [pinned EXCEPT ![r] = RouteOf(known[r][k])]
        /\ pending' = [pending EXCEPT ![r] = Followed(r, k) \cup SessionKeys(r)]
  BY DEF Follow
<1>2. PICK l \in Furthest(r, k) : reserve' = [reserve EXCEPT ![r] = l]
  BY <1>1
<1>3. k \in DOMAIN known[r] /\ k \in Keys /\ known[r][k] \in Binding
  BY DEF Leaders, Leads, FoundSession, FoundState, Found, Types, TypeOK
<1>4. RouteOf(known[r][k]) \in Route /\ RouteOf(known[r][k]) # NoRoute
  BY <1>3, RouteIsSomething
<1>5. Followed(r, k) \subseteq Keys
  BY <1>3 DEF Followed, Found, Types, TypeOK
<1>6. l \in Keys
  BY <1>5 DEF Furthest
<1>7. SessionKeys(r) \subseteq Keys
  BY KeyTypes DEF SessionKeys, SessionKey, OwnKeys, Working, Follow, Decides, Types, TypeOK
<1>8. QED
  BY <1>1, <1>2, <1>4, <1>5, <1>6, <1>7
     DEF Types, TypeOK, Follow, Go, storeVars, outsideVars

LEMMA BeginFreshTypes ==
  ASSUME Types, NEW r \in Requests, OwnKeys(r), BeginFresh(r)
  PROVE  Types'
<1>1. SessionKeys(r) \subseteq Keys
  BY KeyTypes DEF SessionKeys, SessionKey, OwnKeys, Working, BeginFresh, Decides, Types, TypeOK
<1>2. Preservable(r) \subseteq Handles
  BY DEF Preservable, Rendered, Plan, Types, TypeOK
<1>3. KeysOf(r, Preservable(r)) \subseteq Keys
  BY <1>2, KeyTypes
     DEF KeysOf, HandleKey, OwnKeys, Working, BeginFresh, Decides, Types, TypeOK
<1>4. QED
  BY <1>1, <1>3 DEF Types, TypeOK, BeginFresh, Go, storeVars, outsideVars

LEMMA ReserveTurnTypes ==
  ASSUME Types, NEW r \in Requests, Turning(r), ReserveTurn(r)
  PROVE  Types'
<1>1. reserve[r] \in Keys /\ bindings[reserve[r]] \in Binding \cup {None}
  BY DEF ReserveTurn, Turning, Types, TypeOK
<1>2. CASE bindings[reserve[r]] = None
  BY <1>1, <1>2 DEF Types, TypeOK, ReserveTurn, Go, outsideVars
<1>3. CASE bindings[reserve[r]] # None
  <2>1. bindings[reserve[r]] \in Binding
    BY <1>1, <1>3
  <2>2. [bindings[reserve[r]] EXCEPT !.next = @ + 1] \in Binding /\ bindings[reserve[r]].next \in Nat
    BY <2>1 DEF Binding
  <2>3. /\ bindings' = [bindings EXCEPT ![reserve[r]] =
                           [bindings[reserve[r]] EXCEPT !.next = @ + 1]]
        /\ turn' = [turn EXCEPT ![r] = bindings[reserve[r]].next]
    BY <1>3 DEF ReserveTurn
  <2>4. bindings' \in [Keys -> Binding \cup {None}]
    BY <1>1, <2>2, <2>3 DEF Types, TypeOK
  <2>5. turn' \in [Requests -> Nat]
    BY <2>2, <2>3 DEF Types, TypeOK
  <2>6. QED
    BY <1>3, <2>4, <2>5 DEF Types, TypeOK, ReserveTurn, Go, outsideVars
<1>4. QED
  BY <1>2, <1>3

LEMMA SendTypes ==
  ASSUME Types, NEW r \in Requests, Send(r)
  PROVE  Types'
<1>1. PICK a \in Accounts :
        /\ catalog[a] # "gone"
        /\ wire' = [wire EXCEPT ![r] = [account |-> a, backend |-> catalog[a],
                       session |-> SessionOf(r), handles |-> Rendered(r, catalog[a])]]
  BY DEF Send
<1>2. catalog[a] \in Backends
  BY <1>1 DEF Types, TypeOK, Offers
<1>3. SessionOf(r) \in Requests
  BY DEF SessionOf, Types, TypeOK, Route
<1>4. Rendered(r, catalog[a]) \subseteq Handles
  BY DEF Rendered, Plan, Types, TypeOK
<1>5. known' = [known EXCEPT ![r] = << >>]
  BY DEF Send
<1>6. DOMAIN << >> = {}
  OBVIOUS
<1>7. QED
  BY <1>1, <1>2, <1>3, <1>4, <1>5, <1>6
     DEF Types, TypeOK, Send, Go, storeVars, outsideVars

LEMMA OutputTypes ==
  ASSUME NEW r \in Requests, asked[r].tenant \in Tenants
  PROVE  Output(r) \subseteq Handles /\ KeysOf(r, Output(r)) \subseteq Keys
<1>1. Output(r) \subseteq Handles
  BY DEF Output, Handles
<1>2. QED
  BY <1>1, KeyTypes DEF KeysOf, HandleKey

LEMMA SucceedTypes ==
  ASSUME Types, NEW r \in Requests, OwnKeys(r), Succeed(r)
  PROVE  Types'
<1>1. Output(r) \subseteq Handles /\ KeysOf(r, Output(r)) \subseteq Keys
  BY OutputTypes DEF OwnKeys, Working, Succeed, Go
<1>2. QED
  BY <1>1 DEF Types, TypeOK, Succeed, Go, storeVars

LEMMA BindTypes ==
  ASSUME Types, NEW r \in Requests, OwnKeys(r), OnWire(r), Bind(r)
  PROVE  Types'
<1>1. PICK k \in todo[r] :
        /\ Go(r, "commit", IF todo[r] = {k} THEN "done" ELSE "commit")
        /\ todo' = [todo EXCEPT ![r] = @ \ {k}]
        /\ bindings' = [bindings EXCEPT ![k] =
                          [account |-> wire[r].account, backend |-> wire[r].backend,
                           session |-> wire[r].session, next |-> turn[r] + 1]]
        /\ lost' = lost \ {k}
        /\ emitted' = IF todo[r] = {k} THEN emitted \cup Output(r) ELSE emitted
        /\ asked' = IF todo[r] = {k}
                    THEN [asked EXCEPT ![r] = [NotAsked EXCEPT !.tenant = asked[r].tenant]]
                    ELSE asked
        /\ UNCHANGED <<known, pinned, reserve, turn, pending, wire, outsideVars>>
  BY DEF Bind
<1>2. k \in Keys /\ Output(r) \subseteq Handles
  BY <1>1, OutputTypes DEF OwnKeys, Working, Go, Types, TypeOK
<1>3. [account |-> wire[r].account, backend |-> wire[r].backend,
       session |-> wire[r].session, next |-> turn[r] + 1] \in Binding
  BY <1>1 DEF OnWire, Sent, Go, Types, TypeOK, Binding
<1>4. [NotAsked EXCEPT !.tenant = asked[r].tenant]
        \in [tenant : Tenants \cup {"public"}, alias : Aliases \cup {None},
             handles : SUBSET Handles, stream : BOOLEAN]
  BY DEF NotAsked, Types, TypeOK
<1>5. /\ bindings' \in [Keys -> Binding \cup {None}]
      /\ asked' \in [Requests -> [tenant : Tenants \cup {"public"}, alias : Aliases \cup {None},
                                  handles : SUBSET Handles, stream : BOOLEAN]]
  BY <1>1, <1>2, <1>3, <1>4 DEF Types, TypeOK
<1>6. QED
  BY <1>1, <1>2, <1>5 DEF Types, TypeOK, Go, outsideVars

(* The steps of nobody's request. *)
Outside ==
    \/ \E a \in Accounts : (\E o \in Changes : ChangeOffer(a, o))
                           \/ DeleteCredential(a) \/ DeleteAccount(a)
    \/ \E k \in Keys : Expire(k)

LEMMA OutsideTypes ==
  ASSUME Types, Outside
  PROVE  Types'
<1>1. Changes \subseteq Offers /\ "gone" \in Offers /\ MaxEvents \in Nat
  BY ContinuityAssumption DEF Offers
<1>2. ASSUME NEW a \in Accounts,
             (\E o \in Changes : ChangeOffer(a, o)) \/ DeleteCredential(a)
      PROVE  Types'
  <2>1. PICK o \in Offers : Offer(a, o)
    BY <1>1, <1>2 DEF ChangeOffer, DeleteCredential
  <2>2. events' \in 0..MaxEvents
    BY <1>1, <1>2 DEF ChangeOffer, DeleteCredential, Event, Types, TypeOK
  <2>3. catalog' \in [Accounts -> Offers] /\ moved' \in [Requests -> BOOLEAN]
    BY <2>1 DEF Offer, Types, TypeOK
  <2>4. deleting' \subseteq Accounts
    BY <1>2 DEF ChangeOffer, DeleteCredential, Types, TypeOK
  <2>5. QED
    BY <1>2, <2>2, <2>3, <2>4
       DEF Types, TypeOK, ChangeOffer, DeleteCredential, planVars, storeVars
<1>3. ASSUME NEW a \in Accounts, DeleteAccount(a)
      PROVE  Types'
  BY <1>3 DEF Types, TypeOK, DeleteAccount, Lose, planVars
<1>4. ASSUME NEW k \in Keys, Expire(k)
      PROVE  Types'
  BY <1>1, <1>4 DEF Types, TypeOK, Expire, Event, Lose, planVars
<1>5. QED
  BY <1>2, <1>3, <1>4 DEF Outside

LEMMA StepTypes ==
  ASSUME Inv, [Next]_vars
  PROVE  Types'
<1>1. Types /\ \A r \in Requests : OwnKeys(r) /\ Turning(r) /\ OnWire(r)
  BY DEF Inv, Request
<1>2. ASSUME NEW r \in Requests, Prepares(r)
      PROVE  Types'
  <2>1. CASE Refuse(r)
    BY <1>1, <2>1, ForgottenTypes DEF Refuse, Go
  <2>2. QED
    BY <1>1, <1>2, <2>1, StartTypes, LookupTypes, FollowTypes, BeginFreshTypes,
       ReserveTurnTypes DEF Prepares
<1>3. ASSUME NEW r \in Requests, Executes(r)
      PROVE  Types'
  <2>1. CASE Fail(r)
    BY <1>1, <2>1, ForgottenTypes DEF Fail, Go
  <2>2. QED
    BY <1>1, <1>3, <2>1, SendTypes, SucceedTypes, BindTypes DEF Executes
<1>4. CASE UNCHANGED vars
  BY <1>1, <1>4 DEF vars, planVars, storeVars, outsideVars, Types, TypeOK
<1>5. QED
  BY <1>1, <1>2, <1>3, <1>4, OutsideTypes DEF Next, Outside, Ended

-----------------------------------------------------------------------------
(* What a step leaves alone.                                                 *)

(* The state of a request is its own. *)
SameRequest(q) ==
    /\ pc'[q] = pc[q] /\ asked'[q] = asked[q] /\ todo'[q] = todo[q]
    /\ known'[q] = known[q] /\ pinned'[q] = pinned[q] /\ reserve'[q] = reserve[q]
    /\ pending'[q] = pending[q] /\ wire'[q] = wire[q] /\ moved'[q] = moved[q]

LEMMA Alone ==
  ASSUME Types, NEW r \in Requests, Prepares(r) \/ Executes(r),
         NEW q \in Requests, q # r
  PROVE  SameRequest(q) /\ catalog' = catalog
<1>1. CASE Start(r) \/ Lookup(r) \/ Follow(r)
  BY <1>1 DEF SameRequest, Types, TypeOK, Start, Lookup, Follow, Go, storeVars, outsideVars
<1>2. CASE Refuse(r) \/ Fail(r)
  BY <1>2 DEF SameRequest, Types, TypeOK, Refuse, Fail, Forgotten, Go
<1>3. CASE BeginFresh(r) \/ ReserveTurn(r) \/ Send(r)
  BY <1>3 DEF SameRequest, Types, TypeOK, BeginFresh, ReserveTurn, Send, Go, storeVars,
              outsideVars
<1>4. CASE Succeed(r) \/ Bind(r)
  BY <1>4 DEF SameRequest, Types, TypeOK, Succeed, Bind, Go, outsideVars
<1>5. QED
  BY <1>1, <1>2, <1>3, <1>4 DEF Prepares, Executes

(* Outside the requests, only the offers and the bindings change. *)
LEMMA OutsideLeaves ==
  ASSUME Outside
  PROVE  /\ UNCHANGED <<pc, planVars, wire, emitted>>
         /\ \/ UNCHANGED <<catalog, moved>>
            \/ moved' = [q \in Requests |-> moved[q] \/ q \in AtWork]
  BY DEF Outside, ChangeOffer, DeleteCredential, DeleteAccount, Expire, Offer

(* What became of an answered request is never forgotten. *)
Steady ==
    \A q \in Requests : pc[q] \in Settled =>
        pc'[q] \in Settled /\ wire'[q] = wire[q] /\ asked'[q].tenant = asked[q].tenant

LEMMA StaysSettled ==
  ASSUME Types, [Next]_vars
  PROVE  Steady
<1>1. ASSUME NEW r \in Requests, Prepares(r) \/ Executes(r),
             NEW q \in Requests, pc[q] \in Settled
      PROVE  pc'[q] \in Settled /\ wire'[q] = wire[q] /\ asked'[q].tenant = asked[q].tenant
  <2>1. CASE q # r
    BY <1>1, <2>1, Alone DEF SameRequest
  <2>2. CASE q = r
    <3>1. Bind(r)
      BY <1>1, <2>2
         DEF Settled, Prepares, Executes, Start, Lookup, Follow, Refuse, BeginFresh, Decides,
             ReserveTurn, Send, Fail, Succeed, Go
    <3>2. [NotAsked EXCEPT !.tenant = asked[r].tenant].tenant = asked[r].tenant
      BY DEF NotAsked
    <3>3. QED
      BY <2>2, <3>1, <3>2 DEF Bind, Go, Settled, Types, TypeOK
  <2>3. QED
    BY <2>1, <2>2
<1>2. CASE UNCHANGED vars
  BY <1>2 DEF vars, planVars, Steady
<1>3. CASE Outside
  BY <1>3, OutsideLeaves DEF planVars, Steady
<1>4. QED
  BY <1>1, <1>2, <1>3 DEF Next, Outside, Ended, Steady

(* So routes stay good. *)
LEMMA StaysGood ==
  ASSUME Steady
  PROVE  /\ \A b, t : b.session \in Requests /\ Lives(b, t) => Lives(b, t)'
         /\ \A b, k : k.of \in Requests /\ Produced(b, k) => Produced(b, k)'
  BY DEF Steady, Lives, Produced

(* Only the account, the backend and the session of a route matter. *)
LEMMA SameGood ==
  ASSUME NEW b, NEW c, b.account = c.account, b.backend = c.backend, b.session = c.session
  PROVE  /\ \A t : Lives(b, t) => Lives(c, t)
         /\ \A k : Produced(b, k) => Produced(c, k)
  BY DEF Lives, Produced

(* A binding is the one of before, or the reservation of a turn of it, or    *)
(* that of a request that commits.                                           *)
LEMMA StoreSteps ==
  ASSUME Inv, [Next]_vars, NEW k \in Keys, bindings'[k] # None
  PROVE  \/ /\ bindings[k] # None
            /\ bindings'[k].account = bindings[k].account
            /\ bindings'[k].backend = bindings[k].backend
            /\ bindings'[k].session = bindings[k].session
         \/ \E r \in Requests :
               /\ pc[r] = "commit" /\ k \in todo[r]
               /\ bindings'[k].account = wire[r].account
               /\ bindings'[k].backend = wire[r].backend
               /\ bindings'[k].session = wire[r].session
<1>1. Types
  BY DEF Inv
<1>2. CASE bindings' = bindings
  BY <1>2
<1>3. ASSUME NEW r \in Requests, Bind(r)
      PROVE  \/ bindings'[k] = bindings[k]
             \/ /\ pc[r] = "commit" /\ k \in todo[r]
                /\ bindings'[k].account = wire[r].account
                /\ bindings'[k].backend = wire[r].backend
                /\ bindings'[k].session = wire[r].session
  BY <1>1, <1>3 DEF Bind, Go, Types, TypeOK
<1>4. ASSUME NEW r \in Requests, ReserveTurn(r), bindings' # bindings
      PROVE  /\ bindings[k] # None
             /\ bindings'[k].account = bindings[k].account
             /\ bindings'[k].backend = bindings[k].backend
             /\ bindings'[k].session = bindings[k].session
  <2>1. bindings' = [bindings EXCEPT ![reserve[r]] =
                         [bindings[reserve[r]] EXCEPT !.next = @ + 1]]
        /\ bindings[reserve[r]] # None
    BY <1>4 DEF ReserveTurn
  <2>2. CASE k = reserve[r]
    <3>1. bindings[k] \in Binding
      BY <1>1, <2>1, <2>2 DEF Types, TypeOK
    <3>2. bindings'[k] = [bindings[k] EXCEPT !.next = @ + 1]
      BY <1>1, <2>1, <2>2 DEF Types, TypeOK
    <3>3. QED
      BY <2>1, <2>2, <3>1, <3>2 DEF Binding
  <2>3. CASE k # reserve[r]
    BY <1>1, <2>1, <2>3 DEF Types, TypeOK
  <2>4. QED
    BY <2>2, <2>3
<1>5. CASE Outside
  BY <1>5 DEF Outside, ChangeOffer, DeleteCredential, DeleteAccount, Expire, Lose, storeVars
<1>6. ASSUME NEW r \in Requests, Prepares(r) \/ Executes(r)
      PROVE  bindings' = bindings \/ Bind(r) \/ ReserveTurn(r)
  BY <1>6 DEF Prepares, Executes, Start, Lookup, Follow, Refuse, BeginFresh, Send, Fail,
              Succeed, storeVars
<1>7. QED
  BY <1>2, <1>3, <1>4, <1>5, <1>6 DEF Next, Outside, Ended, vars, storeVars

-----------------------------------------------------------------------------
(* The parts of the invariant, one after the other.                          *)

LEMMA StoredStep ==
  ASSUME Inv, [Next]_vars
  PROVE  Stored'
<1> SUFFICES ASSUME NEW k \in Keys, bindings'[k] # None
             PROVE  (Lives(bindings[k], k.tenant) /\ Produced(bindings[k], k))'
  BY DEF Stored
<1>1. Types /\ Types' /\ Steady
  BY StepTypes, StaysSettled DEF Inv
<1>2. bindings'[k] \in Binding /\ bindings'[k].session \in Requests
  BY <1>1 DEF Types, TypeOK, Binding
<1>3. k.kind # "session" => k.of \in Requests
  BY DEF Keys
<1>4. CASE /\ bindings[k] # None
           /\ bindings'[k].account = bindings[k].account
           /\ bindings'[k].backend = bindings[k].backend
           /\ bindings'[k].session = bindings[k].session
  <2>1. Lives(bindings[k], k.tenant) /\ Produced(bindings[k], k)
    BY <1>4 DEF Inv, Stored
  <2>2. QED
    BY <1>1, <1>2, <1>3, <1>4, <2>1 DEF Steady, Lives, Produced
<1>5. ASSUME NEW r \in Requests,
             pc[r] = "commit" /\ k \in todo[r],
             bindings'[k].account = wire[r].account,
             bindings'[k].backend = wire[r].backend,
             bindings'[k].session = wire[r].session
      PROVE  (Lives(bindings[k], k.tenant) /\ Produced(bindings[k], k))'
  <2>1. OnWire(r) /\ OwnKeys(r)
    BY DEF Inv, Request
  <2>2. k.tenant = asked[r].tenant
    BY <1>5, <2>1 DEF OwnKeys, Working
  <2>3. Lives(wire[r], k.tenant)
    BY <1>5, <2>1, <2>2 DEF OnWire, Sent, Lives, Settled
  <2>4. Produced(wire[r], k)
    BY <1>5, <2>1 DEF OnWire, Sent
  <2>5. QED
    BY <1>1, <1>2, <1>3, <1>5, <2>3, <2>4 DEF Steady, Lives, Produced
<1>6. QED
  BY <1>4, <1>5, StoreSteps

(* What a lookup found is forgotten or kept as it was. *)
LEMMA FoundSteps ==
  ASSUME Types, [Next]_vars, NEW q \in Requests, NEW k \in DOMAIN known'[q]
  PROVE  \/ k \in DOMAIN known[q] /\ known'[q][k] = known[q][k]
         \/ /\ pc[q] = "lookup" /\ k \in todo[q]
            /\ bindings[k] # None /\ known'[q][k] = bindings[k]
<1>1. ASSUME NEW r \in Requests, Prepares(r) \/ Executes(r), q # r
      PROVE  known'[q] = known[q]
  BY <1>1, Alone DEF SameRequest
<1>2. CASE Lookup(q)
  <2>1. PICK l \in todo[q] :
          known' = IF bindings[l] = None THEN known
                   ELSE [known EXCEPT ![q] = [m \in DOMAIN @ \cup {l} |->
                                                 IF m = l THEN bindings[l] ELSE @[m]]]
    BY <1>2 DEF Lookup
  <2>2. QED
    BY <1>2, <2>1 DEF Lookup, Types
<1>3. CASE Refuse(q) \/ Fail(q) \/ Send(q)
  <2>1. known'[q] = << >> /\ DOMAIN << >> = {}
    BY <1>3 DEF Refuse, Fail, Forgotten, Send, Types
  <2>2. QED
    BY <2>1
<1>4. CASE Start(q) \/ Follow(q) \/ BeginFresh(q) \/ ReserveTurn(q) \/ Succeed(q) \/ Bind(q)
  BY <1>4 DEF Start, Follow, BeginFresh, ReserveTurn, Succeed, Bind
<1>5. CASE Outside \/ UNCHANGED vars
  BY <1>5, OutsideLeaves DEF vars, planVars
<1>6. QED
  BY <1>1, <1>2, <1>3, <1>4, <1>5 DEF Next, Outside, Ended, Prepares, Executes

LEMMA LookedStep ==
  ASSUME Inv, [Next]_vars, NEW q \in Requests
  PROVE  Looked(q)'
<1> SUFFICES ASSUME NEW k \in DOMAIN known'[q]
             PROVE  (Lives(known[q][k], k.tenant) /\ Produced(known[q][k], k))'
  BY DEF Looked
<1>1. Types /\ Types' /\ Steady /\ Looked(q) /\ Stored
  BY StepTypes, StaysSettled DEF Inv, Request
<1>2. k \in Keys /\ known'[q][k].session \in Requests
  BY <1>1 DEF Types, TypeOK, Binding
<1>3. k.kind # "session" => k.of \in Requests
  BY <1>2 DEF Keys
<1>4. CASE k \in DOMAIN known[q] /\ known'[q][k] = known[q][k]
  <2>1. Lives(known[q][k], k.tenant) /\ Produced(known[q][k], k)
    BY <1>1, <1>4 DEF Looked
  <2>2. QED
    BY <1>1, <1>2, <1>3, <1>4, <2>1 DEF Steady, Lives, Produced
<1>5. CASE bindings[k] # None /\ known'[q][k] = bindings[k]
  <2>1. Lives(bindings[k], k.tenant) /\ Produced(bindings[k], k)
    BY <1>1, <1>2, <1>5 DEF Stored
  <2>2. QED
    BY <1>1, <1>2, <1>3, <1>5, <2>1 DEF Steady, Lives, Produced
<1>6. QED
  BY <1>1, <1>4, <1>5, FoundSteps

(* Every step of a request, told from the program counters.                  *)
LEMMA RequestSteps ==
  ASSUME Types, [Next]_vars, NEW q \in Requests
  PROVE  \/ SameRequest(q) /\ catalog' = catalog
         \/ Prepares(q) \/ Executes(q)
         \/ /\ UNCHANGED <<pc, planVars, wire>>
            /\ moved' = [p \in Requests |-> moved[p] \/ p \in AtWork]
<1>1. ASSUME NEW r \in Requests, Prepares(r) \/ Executes(r), q # r
      PROVE  SameRequest(q) /\ catalog' = catalog
  BY <1>1, Alone
<1>2. CASE UNCHANGED vars
  BY <1>2 DEF vars, planVars, outsideVars, SameRequest
<1>3. CASE Outside
  BY <1>3, OutsideLeaves DEF planVars, SameRequest
<1>4. QED
  BY <1>1, <1>2, <1>3 DEF Next, Outside, Ended

LEMMA BlankStep ==
  ASSUME Inv, [Next]_vars, NEW q \in Requests
  PROVE  Blank(q)'
<1>1. Types /\ Blank(q)
  BY DEF Inv, Request
<1>2. CASE SameRequest(q) \/ UNCHANGED <<pc, planVars, wire>>
  BY <1>1, <1>2 DEF SameRequest, planVars, Blank
<1>3. CASE Start(q) \/ Lookup(q)
  BY <1>1, <1>3 DEF Blank, Start, Lookup, Go, Types, TypeOK
<1>4. CASE Follow(q) \/ BeginFresh(q) \/ ReserveTurn(q) \/ Refuse(q)
  BY <1>1, <1>4 DEF Blank, Follow, BeginFresh, ReserveTurn, Refuse, Go, Types, TypeOK
<1>5. CASE Executes(q)
  BY <1>1, <1>5 DEF Blank, Executes, Send, Fail, Succeed, Bind, Go, Types, TypeOK
<1>6. QED
  BY <1>1, <1>2, <1>3, <1>4, <1>5, RequestSteps DEF Prepares

(* Every key of a request is one of its tenant. *)
LEMMA OwnKeysStep ==
  ASSUME Inv, [Next]_vars, NEW q \in Requests
  PROVE  OwnKeys(q)'
<1>1. Types /\ Blank(q) /\ OwnKeys(q)
  BY DEF Inv, Request
<1>2. CASE SameRequest(q) \/ UNCHANGED <<pc, planVars, wire>>
  BY <1>1, <1>2 DEF SameRequest, planVars, OwnKeys
<1>3. CASE Start(q)
  <2>1. PICK t \in Tenants, x \in Aliases \cup {None}, s \in Streaming, H \in SUBSET emitted :
          /\ asked' = [asked EXCEPT ![q] = [tenant |-> t, alias |-> x, handles |-> H,
                                            stream |-> s]]
          /\ todo' = [todo EXCEPT ![q] = {KeyOf(t, h.kind, h.of) : h \in H} \cup
                          {KeyOf(t, "session", y) : y \in {x} \ {None}}]
    BY <1>3 DEF Start
  <2>2. asked'[q].tenant = t /\ \A k \in todo'[q] : k.tenant = t
    BY <1>1, <2>1 DEF KeyOf, Types, TypeOK
  <2>3. pending'[q] = {} /\ DOMAIN known'[q] = {}
    BY <1>1, <1>3 DEF Blank, Start, Go
  <2>4. QED
    BY <2>2, <2>3 DEF OwnKeys
<1>4. CASE Lookup(q)
  <2>1. DOMAIN known'[q] \subseteq DOMAIN known[q] \cup todo[q]
    BY <1>1, <1>4 DEF Lookup, Types
  <2>2. todo'[q] \subseteq todo[q] /\ pending' = pending /\ asked' = asked
    BY <1>1, <1>4 DEF Lookup, Types, TypeOK
  <2>3. QED
    BY <1>1, <1>4, <2>1, <2>2 DEF OwnKeys, Lookup, Working
<1>5. CASE Follow(q) \/ BeginFresh(q)
  <2>1. /\ \A k \in SessionKeys(q) : k.tenant = asked[q].tenant
        /\ \A k \in KeysOf(q, Preservable(q)) : k.tenant = asked[q].tenant
        /\ \A l \in Found(q) : Followed(q, l) \subseteq Found(q)
        /\ Leaders(q) \subseteq Found(q)
    BY DEF SessionKeys, SessionKey, KeysOf, HandleKey, KeyOf, Followed, Leaders, Leads,
           FoundSession, FoundState
  <2>2. /\ asked' = asked /\ todo' = todo /\ known' = known
        /\ \A k \in pending'[q] : k \in Found(q) \/ k.tenant = asked[q].tenant
    BY <1>1, <1>5, <2>1 DEF Follow, BeginFresh, Types, TypeOK
  <2>3. QED
    BY <1>1, <1>5, <2>2 DEF OwnKeys, Working, Found, Follow, BeginFresh, Go
<1>6. CASE Refuse(q) \/ Fail(q)
  BY <1>1, <1>6 DEF OwnKeys, Working, Refuse, Fail, Go, Types, TypeOK
<1>7. CASE ReserveTurn(q)
  BY <1>1, <1>7 DEF OwnKeys, Working, ReserveTurn, Go
<1>8. CASE Send(q)
  <2>1. known'[q] = << >> /\ DOMAIN << >> = {}
    BY <1>1, <1>8 DEF Send, Types
  <2>2. QED
    BY <1>1, <1>8, <2>1 DEF OwnKeys, Working, Send, Go
<1>9. CASE Succeed(q)
  <2>1. \A k \in KeysOf(q, Output(q)) : k.tenant = asked[q].tenant
    BY DEF KeysOf, HandleKey, KeyOf
  <2>2. /\ asked' = asked /\ known' = known /\ pending'[q] = {}
        /\ \A k \in todo'[q] : k \in pending[q] \/ k.tenant = asked[q].tenant
    BY <1>1, <1>9, <2>1 DEF Succeed, Types, TypeOK
  <2>3. QED
    BY <1>1, <1>9, <2>2 DEF OwnKeys, Working, Succeed, Go
<1>10. CASE Bind(q)
  <2>1. /\ todo'[q] \subseteq todo[q] /\ known' = known /\ pending' = pending
        /\ pc[q] = "commit"
        /\ pc'[q] \in Working => asked' = asked
    BY <1>1, <1>10 DEF Bind, Go, Working, Types, TypeOK
  <2>2. QED
    BY <1>1, <2>1 DEF OwnKeys, Working
<1>11. QED
  BY <1>1, <1>2, <1>3, <1>4, <1>5, <1>6, <1>7, <1>8, <1>9, <1>10, RequestSteps
     DEF Prepares, Executes

LEMMA TurningStep ==
  ASSUME Inv, [Next]_vars, NEW q \in Requests
  PROVE  Turning(q)'
<1>1. Types /\ OwnKeys(q) /\ Turning(q)
  BY DEF Inv, Request
<1>2. CASE SameRequest(q) \/ UNCHANGED <<pc, planVars, wire>>
  BY <1>1, <1>2 DEF SameRequest, planVars, Turning
<1>3. CASE Follow(q)
  BY <1>1, <1>3, FollowTypes DEF Turning
<1>4. CASE Prepares(q) /\ ~Follow(q)
  BY <1>1, <1>4 DEF Turning, Prepares, Start, Lookup, BeginFresh, ReserveTurn, Refuse, Go,
                    Types, TypeOK
<1>5. CASE Executes(q)
  BY <1>1, <1>5 DEF Turning, Executes, Send, Fail, Succeed, Bind, Go, Types, TypeOK
<1>6. QED
  BY <1>1, <1>2, <1>3, <1>4, <1>5, RequestSteps

(* What Compatible asks of the bindings that a request found is what makes   *)
(* their state go where it was produced.                                     *)
LEMMA Followable ==
  ASSUME Types, NEW q \in Requests, Looked(q), OwnKeys(q), pc[q] = "lookup",
         NEW k \in Leaders(q), Compatible(q, k), NEW b, b = RouteOf(known[q][k])
  PROVE  /\ Lives(b, asked[q].tenant)
         /\ \A l \in Followed(q, k) \cup SessionKeys(q) : Produced(b, l)
         /\ \A h \in Rendered(q, b.backend) : Produced(b, HandleKey(q, h))
<1>1. k \in DOMAIN known[q]
  BY DEF Leaders, Leads, FoundSession, FoundState, Found
<1>2. b.account = known[q][k].account /\ b.backend = known[q][k].backend
      /\ b.session = known[q][k].session
  BY DEF RouteOf
<1>3. ASSUME NEW l \in DOMAIN known[q], SameRoute(q, k, l)
      PROVE  Produced(b, l)
  <2>1. b.account = known[q][l].account /\ b.backend = known[q][l].backend
        /\ b.session = known[q][l].session
    BY <1>3 DEF SameRoute, RouteOf
  <2>2. Produced(known[q][l], l)
    BY <1>3 DEF Looked
  <2>3. QED
    BY <2>1, <2>2 DEF Produced
<1>4. Lives(b, asked[q].tenant)
  <2>1. Lives(known[q][k], k.tenant) /\ k.tenant = asked[q].tenant
    BY <1>1 DEF Looked, OwnKeys, Working
  <2>2. QED
    BY <1>2, <2>1 DEF Lives
<1>5. ASSUME NEW l \in Followed(q, k) \cup SessionKeys(q)
      PROVE  Produced(b, l)
  <2>1. CASE l \in Followed(q, k)
    <3>1. l \in DOMAIN known[q] /\ SameRoute(q, k, l)
      BY <1>1, <2>1 DEF Followed, Compatible, Found, SameRoute
    <3>2. QED
      BY <1>3, <3>1
  <2>2. CASE l \in SessionKeys(q)
    BY <2>2 DEF SessionKeys, SessionKey, KeyOf, Produced
  <2>3. QED
    BY <1>5, <2>1, <2>2
<1>6. ASSUME NEW h \in Rendered(q, b.backend)
      PROVE  Produced(b, HandleKey(q, h))
  <2>1. HandleKey(q, h) \in Kept(q, k)
    BY <1>2 DEF Kept, KeysOf
  <2>2. CASE Private(q)
    <3>1. HandleKey(q, h) \in DOMAIN known[q] /\ SameRoute(q, k, HandleKey(q, h))
      BY <2>1, <2>2 DEF Compatible, Found
    <3>2. QED
      BY <1>3, <3>1
  <2>3. CASE ~Private(q)
    BY <2>3 DEF Private, Produced, HandleKey, KeyOf
  <2>4. QED
    BY <2>2, <2>3
<1>7. QED
  BY <1>4, <1>5, <1>6

(* A good route stays good while its request still has it. *)
LEMMA BoundStays ==
  ASSUME Types, Steady, NEW q \in Requests, Bound(q),
         pinned'[q] # NoRoute => /\ pinned'[q] = pinned[q]
                                 /\ pc'[q] \in {"reserve", "noTurn", "send", "sent"}
                                 /\ asked'[q] = asked[q] /\ pending'[q] = pending[q],
         pinned'[q] # NoRoute /\ pc'[q] \in {"reserve", "send"} =>
                    pc[q] \in {"reserve", "send"} /\ known'[q] = known[q],
         \A k \in pending[q] : k \in Keys
  PROVE  Bound(q)'
<1> SUFFICES ASSUME pinned'[q] # NoRoute
             PROVE  /\ Lives(pinned[q], asked[q].tenant)'
                    /\ (\A k \in pending[q] : Produced(pinned[q], k))'
                    /\ pc'[q] \in {"reserve", "send"} =>
                          (\A h \in Rendered(q, pinned[q].backend) :
                              Produced(pinned[q], HandleKey(q, h)))'
  BY DEF Bound
<1>1. pinned'[q] = pinned[q] /\ pinned[q] # NoRoute /\ pinned[q].session \in Requests
  BY DEF Types, TypeOK, Route
<1>2. Lives(pinned[q], asked[q].tenant)'
  BY <1>1 DEF Bound, Lives, Steady
<1>3. (\A k \in pending[q] : Produced(pinned[q], k))'
  <2>1. \A k \in pending[q] : Produced(pinned[q], k) /\ (k.kind # "session" => k.of \in Requests)
    BY <1>1 DEF Bound, Keys
  <2>2. QED
    BY <1>1, <2>1 DEF Produced, Steady
<1>4. ASSUME pc'[q] \in {"reserve", "send"}
      PROVE  (\A h \in Rendered(q, pinned[q].backend) : Produced(pinned[q], HandleKey(q, h)))'
  <2>1. \A h \in Rendered(q, pinned[q].backend) : Produced(pinned[q], HandleKey(q, h))
    BY <1>1, <1>4 DEF Bound
  <2>2. Rendered(q, pinned[q].backend)' = Rendered(q, pinned[q].backend)
    BY <1>1, <1>4 DEF Rendered, Plan, Found, HandleKey
  <2>3. \A h \in Rendered(q, pinned[q].backend) : HandleKey(q, h).of \in Requests
    BY DEF Rendered, Plan, HandleKey, KeyOf, Types, TypeOK, Handles
  <2>4. \A h : HandleKey(q, h)' = HandleKey(q, h)
    BY <1>1 DEF HandleKey
  <2>5. QED
    BY <1>1, <2>1, <2>2, <2>3, <2>4 DEF Produced, Steady
<1>5. QED
  BY <1>2, <1>3, <1>4

LEMMA BoundStep ==
  ASSUME Inv, [Next]_vars, NEW q \in Requests
  PROVE  Bound(q)'
<1>1. Types /\ Types' /\ Steady /\ Blank(q) /\ OwnKeys(q) /\ Looked(q) /\ Bound(q)
  BY StepTypes, StaysSettled DEF Inv, Request
<1>2. \A k \in pending[q] : k \in Keys
  BY <1>1 DEF Types, TypeOK
<1>3. CASE SameRequest(q)
  BY <1>1, <1>2, <1>3, BoundStays DEF SameRequest, Bound
<1>4. CASE UNCHANGED <<pc, planVars, wire>>
  BY <1>1, <1>2, <1>4, BoundStays DEF planVars, Bound
<1>5. CASE Start(q) \/ Lookup(q) \/ BeginFresh(q)
  BY <1>1, <1>5 DEF Blank, Bound, Start, Lookup, BeginFresh, Decides, Go
<1>6. CASE Refuse(q) \/ Fail(q) \/ Succeed(q)
  BY <1>1, <1>6 DEF Bound, Refuse, Fail, Forgotten, Succeed, Types, TypeOK
<1>7. CASE ReserveTurn(q)
  BY <1>1, <1>2, <1>7, BoundStays DEF ReserveTurn, Go, Types, TypeOK
<1>8. CASE Send(q)
  BY <1>1, <1>2, <1>8, BoundStays DEF Send, Go, Types, TypeOK
<1>9. CASE Bind(q)
  BY <1>1, <1>9 DEF Bound, Bind, Go
<1>10. CASE Follow(q)
  <2>1. PICK k \in Leaders(q) :
          /\ Compatible(q, k)
          /\ pinned' = [pinned EXCEPT ![q] = RouteOf(known[q][k])]
          /\ pending' = [pending EXCEPT ![q] = Followed(q, k) \cup SessionKeys(q)]
    BY <1>10 DEF Follow
  <2> DEFINE b == RouteOf(known[q][k])
  <2>2. /\ pinned'[q] = b /\ pending'[q] = Followed(q, k) \cup SessionKeys(q)
        /\ asked' = asked /\ known' = known /\ pc[q] = "lookup" /\ pc'[q] = "reserve"
    BY <1>1, <1>10, <2>1 DEF Follow, Go, Decides, Types, TypeOK
  <2>3. /\ Lives(b, asked[q].tenant)
        /\ \A l \in Followed(q, k) \cup SessionKeys(q) : Produced(b, l)
        /\ \A h \in Rendered(q, b.backend) : Produced(b, HandleKey(q, h))
    BY <1>1, <2>1, <2>2, Followable
  <2> HIDE DEF b
  <2>4. Rendered(q, pinned[q].backend)' = Rendered(q, b.backend)
        /\ \A h : HandleKey(q, h)' = HandleKey(q, h)
    BY <2>2 DEF Rendered, Plan, Found, HandleKey
  <2>5. /\ \A h \in Rendered(q, b.backend) : HandleKey(q, h).of \in Requests
        /\ \A l \in pending'[q] : l.kind # "session" => l.of \in Requests
    BY <1>1 DEF Rendered, Plan, HandleKey, KeyOf, Types, TypeOK, Handles, Keys
  <2>6. b.session \in Requests
    BY <1>1, <2>1 DEF b, RouteOf, Leaders, Leads, FoundSession, FoundState, Found, Types, TypeOK,
                      Binding
  <2>7. Lives(pinned[q], asked[q].tenant)'
    BY <1>1, <2>2, <2>3, <2>6 DEF Lives, Steady
  <2>8. (\A l \in pending[q] : Produced(pinned[q], l))'
    BY <1>1, <2>2, <2>3, <2>5 DEF Produced, Steady
  <2>9. (\A h \in Rendered(q, pinned[q].backend) : Produced(pinned[q], HandleKey(q, h)))'
    BY <1>1, <2>2, <2>3, <2>4, <2>5 DEF Produced, Steady
  <2>10. QED
    BY <2>2, <2>7, <2>8, <2>9 DEF Bound
<1>11. QED
  BY <1>1, <1>3, <1>4, <1>5, <1>6, <1>7, <1>8, <1>9, <1>10, RequestSteps
     DEF Prepares, Executes

LEMMA FreeStep ==
  ASSUME Inv, [Next]_vars, NEW q \in Requests
  PROVE  Free(q)'
<1>1. Types /\ Turning(q) /\ Free(q)
  BY DEF Inv, Request
<1>2. CASE SameRequest(q) /\ catalog' = catalog
  BY <1>1, <1>2
     DEF SameRequest, Free, Private, Preservable, Rendered, Plan, HandleKey, Found
<1>3. CASE /\ UNCHANGED <<pc, planVars, wire>>
           /\ moved' = [p \in Requests |-> moved[p] \/ p \in AtWork]
  BY <1>1, <1>3 DEF planVars, Free, Private, AtWork
<1>4. CASE BeginFresh(q)
  <2>1. Private(q) => Preservable(q) = {}
    BY <1>4 DEF BeginFresh, Unplaceable
  <2>2. Private(q) => KeysOf(q, Preservable(q)) = {}
    BY <2>1 DEF KeysOf
  <2>3. pending'[q] = IF SessionKeys(q) # {} THEN SessionKeys(q) ELSE KeysOf(q, Preservable(q))
    BY <1>1, <1>4 DEF BeginFresh, Types, TypeOK
  <2>4. Private(q) => \A k \in pending'[q] : k.kind = "session"
    BY <2>2, <2>3 DEF SessionKeys, SessionKey, KeyOf
  <2>5. Preservable(q)' = Preservable(q) /\ Private(q)' = Private(q)
    BY <1>4 DEF BeginFresh, outsideVars, Preservable, Rendered, Plan, HandleKey, Found, Private
  <2>6. QED
    BY <2>1, <2>4, <2>5 DEF Free
<1>5. CASE Start(q) \/ Lookup(q) \/ Follow(q) \/ Refuse(q)
  BY <1>1, <1>5 DEF Free, Start, Lookup, Follow, Refuse, Go, Types, TypeOK
<1>6. CASE ReserveTurn(q)
  BY <1>1, <1>6 DEF Free, Turning, ReserveTurn, Go
<1>7. CASE Executes(q)
  BY <1>1, <1>7 DEF Free, Executes, Send, Fail, Succeed, Bind, Go, Types, TypeOK
<1>8. QED
  BY <1>1, <1>2, <1>3, <1>4, <1>5, <1>6, <1>7, RequestSteps DEF Prepares

LEMMA SendOnWire ==
  ASSUME Types, NEW q \in Requests, OwnKeys(q), Bound(q), Free(q), Steady, Send(q)
  PROVE  OnWire(q)'
<1>1. PICK a \in Accounts :
        /\ pinned[q] # NoRoute => a = pinned[q].account /\ catalog[a] = pinned[q].backend
        /\ wire' = [wire EXCEPT ![q] = [account |-> a, backend |-> catalog[a],
                       session |-> SessionOf(q), handles |-> Rendered(q, catalog[a])]]
  BY DEF Send
<1>2. /\ wire'[q] = [account |-> a, backend |-> catalog[a],
                     session |-> SessionOf(q), handles |-> Rendered(q, catalog[a])]
      /\ pc[q] = "send" /\ pc'[q] = "sent"
      /\ UNCHANGED <<asked, pinned, pending, moved>>
  BY <1>1 DEF Send, Go, outsideVars, Types, TypeOK
<1>3. wire'[q] # NotSent
  BY <1>2, ContinuityAssumption DEF NotSent
<1>4. (wire[q].session # q => Lives(wire[q], asked[q].tenant))'
  <2>1. wire'[q].session # q => pinned[q] # NoRoute /\ wire'[q].session = pinned[q].session
    BY <1>2 DEF SessionOf
  <2>2. pinned[q] # NoRoute => Lives(pinned[q], asked[q].tenant) /\ pinned[q].session \in Requests
    BY DEF Bound, Types, TypeOK, Route
  <2>3. QED
    BY <1>1, <1>2, <2>1, <2>2 DEF Lives, Steady
<1>5. (\A k \in pending[q] : Produced(wire[q], k))'
  <2>1. \A k \in pending[q] : k.tenant = asked[q].tenant /\ (k.kind # "session" => k.of \in Requests)
    BY <1>2 DEF OwnKeys, Working, Types, TypeOK, Keys
  <2>2. CASE pinned[q] # NoRoute
    <3>1. \A k \in pending[q] : Produced(pinned[q], k)
      BY <2>2 DEF Bound
    <3>2. wire'[q].account = pinned[q].account /\ wire'[q].backend = pinned[q].backend
          /\ wire'[q].session = pinned[q].session
      BY <1>1, <1>2, <2>2 DEF SessionOf
    <3>3. QED
      BY <1>2, <2>1, <3>1, <3>2 DEF Produced, Steady
  <2>3. CASE pinned[q] = NoRoute
    BY <1>2, <2>1, <2>3 DEF Free, Private, Produced
  <2>4. QED
    BY <2>2, <2>3
<1>6. (pinned[q] # NoRoute \/ ~moved[q] =>
          \A h \in wire[q].handles : Produced(wire[q], HandleKey(q, h)))'
  <2>1. /\ wire'[q].handles = Rendered(q, catalog[a])
        /\ \A h \in wire'[q].handles : HandleKey(q, h).of \in Requests
        /\ \A h : HandleKey(q, h)' = HandleKey(q, h)
        /\ \A h : HandleKey(q, h).tenant = asked[q].tenant
    BY <1>2 DEF Rendered, Plan, HandleKey, KeyOf, Types, TypeOK, Handles
  <2>2. CASE pinned[q] # NoRoute
    <3>1. \A h \in wire'[q].handles : Produced(pinned[q], HandleKey(q, h))
      BY <1>1, <1>2, <2>1, <2>2 DEF Bound
    <3>2. wire'[q].account = pinned[q].account /\ wire'[q].backend = pinned[q].backend
          /\ wire'[q].session = pinned[q].session
      BY <1>1, <1>2, <2>2 DEF SessionOf
    <3>3. QED
      BY <2>1, <3>1, <3>2 DEF Produced, Steady
  <2>3. CASE pinned[q] = NoRoute /\ ~moved[q] /\ Private(q)
    <3>1. Preservable(q) = {}
      BY <1>2, <2>3 DEF Free
    <3>2. wire'[q].handles \subseteq Preservable(q)
      BY <2>1 DEF Preservable
    <3>3. QED
      BY <3>1, <3>2
  <2>4. CASE ~Private(q)
    BY <2>1, <2>4 DEF Private, Produced
  <2>5. QED
    BY <1>2, <2>2, <2>3, <2>4
<1>7. QED
  BY <1>2, <1>3, <1>4, <1>5, <1>6 DEF OnWire, Sent

(* What was sent stays what it was while the request goes on. *)
LEMMA OnWireStays ==
  ASSUME Types, Steady, NEW q \in Requests, OnWire(q),
         UNCHANGED <<pc[q], pinned[q], pending[q], todo[q], asked[q], wire[q]>>,
         pc[q] = "sent" => moved'[q] = moved[q]
  PROVE  OnWire(q)'
<1> SUFFICES ASSUME Sent(q)
             PROVE  OnWire(q)'
  BY DEF OnWire, Sent
<1>1. wire[q].session \in Requests
  BY DEF OnWire, Sent, Types, TypeOK
<1>2. (wire[q].session # q => Lives(wire[q], asked[q].tenant))'
  BY <1>1 DEF OnWire, Lives, Steady
<1>3. \A k \in pending[q] \cup todo[q] : k.kind # "session" => k.of \in Requests
  BY DEF Types, TypeOK, Keys
<1>4. (\A k \in pending[q] : pc[q] = "sent" => Produced(wire[q], k))'
  BY <1>3 DEF OnWire, Produced, Steady
<1>5. (\A k \in todo[q] : pc[q] = "commit" => Produced(wire[q], k))'
  BY <1>3 DEF OnWire, Produced, Steady
<1>6. (pc[q] = "sent" /\ (pinned[q] # NoRoute \/ ~moved[q]) =>
          \A h \in wire[q].handles : Produced(wire[q], HandleKey(q, h)))'
  <2>1. /\ \A h \in wire[q].handles : pc[q] = "sent" => HandleKey(q, h).of \in Requests
        /\ \A h : HandleKey(q, h)' = HandleKey(q, h)
    BY DEF OnWire, Sent, HandleKey, KeyOf, Types, TypeOK, Handles
  <2>2. QED
    BY <2>1 DEF OnWire, Produced, Steady
<1>7. QED
  BY <1>2, <1>4, <1>5, <1>6 DEF OnWire, Sent

LEMMA OnWireStep ==
  ASSUME Inv, [Next]_vars, NEW q \in Requests
  PROVE  OnWire(q)'
<1>1. Types /\ Types' /\ Steady /\ OwnKeys(q) /\ Bound(q) /\ Free(q) /\ OnWire(q)
  BY StepTypes, StaysSettled DEF Inv, Request
<1>2. CASE SameRequest(q)
  BY <1>1, <1>2, OnWireStays DEF SameRequest
<1>3. CASE /\ UNCHANGED <<pc, planVars, wire>>
           /\ moved' = [p \in Requests |-> moved[p] \/ p \in AtWork]
  <2>1. pc[q] = "sent" => moved'[q] = moved[q]
    BY <1>1, <1>3 DEF AtWork, Types, TypeOK
  <2>2. QED
    BY <1>1, <1>3, <2>1, OnWireStays DEF planVars
<1>4. CASE Start(q) \/ Lookup(q) \/ Follow(q) \/ Refuse(q)
  BY <1>1, <1>4 DEF OnWire, Sent, Start, Lookup, Follow, Refuse, Go, Types, TypeOK
<1>5. CASE BeginFresh(q) \/ ReserveTurn(q) \/ Fail(q)
  BY <1>1, <1>5 DEF OnWire, Sent, BeginFresh, ReserveTurn, Fail, Go, Types, TypeOK
<1>6. CASE Send(q)
  BY <1>1, <1>6, SendOnWire
<1>7. CASE Succeed(q)
  <2>1. /\ pc[q] = "sent" /\ pc'[q] = "commit" /\ wire' = wire /\ asked' = asked
        /\ \A k \in todo'[q] : k \in pending[q] \/ k \in KeysOf(q, Output(q))
    BY <1>1, <1>7 DEF Succeed, Go, Types, TypeOK
  <2>2. wire[q].session \in Requests
    BY <1>1, <2>1 DEF OnWire, Sent, Types, TypeOK
  <2>3. (wire[q].session # q => Lives(wire[q], asked[q].tenant))'
    BY <1>1, <2>1, <2>2 DEF OnWire, Sent, Lives, Steady
  <2>4. ASSUME NEW k \in pending[q]
        PROVE  Produced(wire[q], k)'
    <3>1. Produced(wire[q], k) /\ (k.kind # "session" => k.of \in Requests)
      BY <1>1, <2>1 DEF OnWire, Sent, Types, TypeOK, Keys
    <3>2. QED
      BY <1>1, <2>1, <3>1 DEF Produced, Steady
  <2>5. ASSUME NEW k \in KeysOf(q, Output(q))
        PROVE  Produced(wire[q], k)'
    <3>1. k.of = q /\ k.tenant = asked[q].tenant
      BY DEF KeysOf, Output, HandleKey, KeyOf
    <3>2. QED
      BY <2>1, <3>1 DEF Produced, Settled
  <2>6. (\A k \in todo[q] : Produced(wire[q], k))'
    BY <2>1, <2>4, <2>5
  <2>7. QED
    BY <1>1, <2>1, <2>3, <2>6 DEF OnWire, Sent
<1>8. CASE Bind(q)
  <2>1. /\ pc[q] = "commit" /\ pc'[q] \in Settled /\ wire' = wire
        /\ asked'[q].tenant = asked[q].tenant /\ todo'[q] \subseteq todo[q]
    BY <1>1, <1>8 DEF Bind, Go, Settled, Steady, Types, TypeOK
  <2>2. wire[q].session \in Requests
    BY <1>1, <2>1 DEF OnWire, Sent, Types, TypeOK
  <2>3. (wire[q].session # q => Lives(wire[q], asked[q].tenant))'
    BY <1>1, <2>1, <2>2 DEF OnWire, Sent, Lives, Steady
  <2>4. \A k \in todo'[q] : Produced(wire[q], k) /\ (k.kind # "session" => k.of \in Requests)
    BY <1>1, <2>1 DEF OnWire, Sent, Types, TypeOK, Keys
  <2>5. (\A k \in todo[q] : Produced(wire[q], k))'
    BY <1>1, <2>1, <2>4 DEF Produced, Steady
  <2>6. QED
    BY <1>1, <2>1, <2>3, <2>5 DEF OnWire, Sent, Settled
<1>9. QED
  BY <1>1, <1>2, <1>3, <1>4, <1>5, <1>6, <1>7, <1>8, RequestSteps DEF Prepares, Executes

(* A key that is bound stays bound, or is lost. *)
LEMMA NothingVanishes ==
  ASSUME Inv, [Next]_vars, NEW k \in Keys, bindings[k] # None \/ k \in lost
  PROVE  bindings'[k] # None \/ k \in lost'
<1>1. Types /\ Types' /\ \A r \in Requests : OnWire(r)
  BY StepTypes DEF Inv, Request
<1>2. ASSUME NEW r \in Requests, Bind(r)
      PROVE  bindings'[k] # None \/ k \in lost'
  <2>1. PICK l \in todo[r] :
          /\ Go(r, "commit", IF todo[r] = {l} THEN "done" ELSE "commit")
          /\ bindings' = [bindings EXCEPT ![l] =
                            [account |-> wire[r].account, backend |-> wire[r].backend,
                             session |-> wire[r].session, next |-> turn[r] + 1]]
          /\ lost' = lost \ {l}
    BY <1>2 DEF Bind
  <2>2. [account |-> wire[r].account, backend |-> wire[r].backend,
         session |-> wire[r].session, next |-> turn[r] + 1] \in Binding
    BY <1>1, <2>1 DEF OnWire, Sent, Go, Types, TypeOK, Binding
  <2>3. l = k => bindings'[k] # None
    BY <1>1, <2>1, <2>2, ContinuityAssumption DEF Types, TypeOK
  <2>4. QED
    BY <1>1, <2>1, <2>3 DEF Types, TypeOK
<1>3. ASSUME NEW r \in Requests, ReserveTurn(r)
      PROVE  bindings'[k] # None \/ k \in lost'
  <2>1. lost' = lost
    BY <1>3 DEF ReserveTurn
  <2>2. bindings' # bindings =>
          /\ bindings[reserve[r]] # None
          /\ bindings' = [bindings EXCEPT ![reserve[r]] =
                             [bindings[reserve[r]] EXCEPT !.next = @ + 1]]
    BY <1>3 DEF ReserveTurn
  <2>3. CASE bindings' # bindings /\ k = reserve[r]
    <3>1. bindings[k] \in Binding
      BY <1>1, <2>2, <2>3 DEF Types, TypeOK
    <3>2. [bindings[k] EXCEPT !.next = @ + 1] \in Binding
      BY <3>1 DEF Binding
    <3>3. QED
      BY <1>1, <2>2, <2>3, <3>2, ContinuityAssumption DEF Types, TypeOK
  <2>4. CASE bindings' = bindings \/ k # reserve[r]
    BY <1>1, <2>1, <2>2, <2>4 DEF Types, TypeOK
  <2>5. QED
    BY <2>3, <2>4
<1>4. CASE Outside
  BY <1>4 DEF Outside, ChangeOffer, DeleteCredential, DeleteAccount, Expire, Lose, storeVars
<1>5. ASSUME NEW r \in Requests, Prepares(r) \/ Executes(r)
      PROVE  UNCHANGED storeVars \/ Bind(r) \/ ReserveTurn(r)
  BY <1>5 DEF Prepares, Executes, Start, Lookup, Follow, Refuse, BeginFresh, Send, Fail, Succeed
<1>6. QED
  BY <1>2, <1>3, <1>4, <1>5 DEF Next, Outside, Ended, vars, storeVars

LEMMA RememberedStep ==
  ASSUME Inv, [Next]_vars, NEW q \in Requests
  PROVE  Remembered(q)'
<1>1. Types /\ Types' /\ Steady /\ OwnKeys(q) /\ OnWire(q) /\ Remembered(q)
  BY StepTypes, StaysSettled DEF Inv, Request
<1> DEFINE k == KeyOf(asked[q].tenant, "previous", q)
<1>2. CASE SameRequest(q) \/ UNCHANGED <<pc, planVars, wire>>
  <2> SUFFICES ASSUME pc'[q] \in Settled, Private(q)'
               PROVE  Remembered(q)'
    BY DEF Remembered
  <2>1. pc'[q] = pc[q] /\ todo'[q] = todo[q] /\ asked'[q] = asked[q]
    BY <1>2 DEF SameRequest, planVars
  <2>2. k \in Keys /\ ((pc[q] = "commit" /\ k \in todo[q]) \/ k \in lost \/ bindings[k] # None)
    BY <1>1, <2>1 DEF Remembered, Private
  <2>3. k' = k
    BY <2>1 DEF KeyOf
  <2> HIDE DEF k
  <2>4. (pc'[q] = "commit" /\ k \in todo'[q]) \/ k \in lost' \/ bindings'[k] # None
    BY <2>1, <2>2, NothingVanishes
  <2>5. QED
    BY <2>2, <2>3, <2>4 DEF Remembered, k
<1>3. CASE Start(q) \/ Lookup(q) \/ Follow(q) \/ Refuse(q)
  BY <1>1, <1>3 DEF Remembered, Settled, Start, Lookup, Follow, Refuse, Go, Types, TypeOK
<1>4. CASE BeginFresh(q) \/ ReserveTurn(q) \/ Fail(q) \/ Send(q)
  BY <1>1, <1>4
     DEF Remembered, Settled, BeginFresh, ReserveTurn, Fail, Send, Go, Types, TypeOK
<1>5. CASE Succeed(q)
  <2>1. asked[q].tenant \in Tenants /\ pc'[q] = "commit" /\ asked' = asked
    BY <1>1, <1>5 DEF OwnKeys, Working, Succeed, Go, Types, TypeOK
  <2>2. k \in Keys
    BY <2>1 DEF KeyOf, Keys
  <2>3. k \in KeysOf(q, Output(q))
    <3>1. [kind |-> "previous", of |-> q] \in Output(q)
      BY DEF Output
    <3>2. HandleKey(q, [kind |-> "previous", of |-> q]) = k
      BY DEF HandleKey
    <3>3. QED
      BY <3>1, <3>2 DEF KeysOf
  <2>4. k \in todo'[q] /\ k' = k
    BY <1>1, <1>5, <2>1, <2>3 DEF Succeed, Types, TypeOK
  <2>5. QED
    BY <2>1, <2>2, <2>4 DEF Remembered
<1>6. CASE Bind(q)
  <2> SUFFICES ASSUME Private(q)'
               PROVE  Remembered(q)'
    BY DEF Remembered
  <2>1. PICK l \in todo[q] :
          /\ Go(q, "commit", IF todo[q] = {l} THEN "done" ELSE "commit")
          /\ todo' = [todo EXCEPT ![q] = @ \ {l}]
          /\ bindings' = [bindings EXCEPT ![l] =
                            [account |-> wire[q].account, backend |-> wire[q].backend,
                             session |-> wire[q].session, next |-> turn[q] + 1]]
    BY <1>6 DEF Bind
  <2>2. asked'[q].tenant = asked[q].tenant /\ pc[q] = "commit"
    BY <1>1, <2>1 DEF Steady, Settled, Go
  <2>3. k' = k
    BY <2>2
  <2>4. k \in Keys /\ (k \in todo[q] \/ k \in lost \/ bindings[k] # None)
    BY <1>1, <2>2 DEF Remembered, Settled, Private
  <2> HIDE DEF k
  <2>5. l = k => bindings'[k] # None
    <3>1. [account |-> wire[q].account, backend |-> wire[q].backend,
           session |-> wire[q].session, next |-> turn[q] + 1] \in Binding
      BY <1>1, <2>2 DEF OnWire, Sent, Types, TypeOK, Binding
    <3>2. QED
      BY <1>1, <2>1, <2>4, <3>1, ContinuityAssumption DEF Types, TypeOK
  <2>6. k \in todo[q] /\ l # k => k \in todo'[q] /\ pc'[q] = "commit"
    BY <1>1, <2>1 DEF Go, Types, TypeOK
  <2>7. (pc'[q] = "commit" /\ k \in todo'[q]) \/ k \in lost' \/ bindings'[k] # None
    BY <2>4, <2>5, <2>6, NothingVanishes
  <2>8. QED
    BY <2>3, <2>4, <2>7 DEF Remembered, k
<1>7. QED
  BY <1>1, <1>2, <1>3, <1>4, <1>5, <1>6, RequestSteps DEF Prepares, Executes

-----------------------------------------------------------------------------
(* The theorems.                                                             *)

LEMMA InitInv == Init => Inv
<1> SUFFICES ASSUME Init
             PROVE  Inv
  OBVIOUS
<1>1. Types
  BY InitTypes
<1>2. Stored
  BY DEF Init, Stored
<1>3. ASSUME NEW r \in Requests
      PROVE  Request(r)
  <2>1. known[r] = << >> /\ DOMAIN << >> = {}
    BY DEF Init
  <2>2. pc[r] = "idle" /\ pinned[r] = NoRoute /\ pending[r] = {}
    BY DEF Init
  <2>3. QED
    BY <2>1, <2>2
       DEF Request, Looked, Blank, OwnKeys, Turning, Bound, Free, OnWire, Remembered, Working,
           Settled, Sent
<1>4. QED
  BY <1>1, <1>2, <1>3 DEF Inv

LEMMA StepInv == Inv /\ [Next]_vars => Inv'
<1> SUFFICES ASSUME Inv, [Next]_vars
             PROVE  Inv'
  OBVIOUS
<1>1. Types' /\ Stored'
  BY StepTypes, StoredStep
<1>2. ASSUME NEW q \in Requests
      PROVE  Request(q)'
  BY LookedStep, BlankStep, OwnKeysStep, TurningStep, BoundStep, FreeStep, OnWireStep,
     RememberedStep DEF Request
<1>3. QED
  BY <1>1, <1>2 DEF Inv

(* In every reachable state, what the store, the lookups, the pinned routes  *)
(* and the requests on the wire say of a session agrees with the request     *)
(* that opened it.                                                           *)
THEOREM InvHolds == Spec => []Inv
<1>1. QED
  BY InitInv, StepInv, PTL DEF Spec

(* The state of prepareInferenceExecution and of the commits is well typed,  *)
(* for any number of requests, tenants, accounts and events.                 *)
THEOREM TypeCorrect == Spec => []TypeOK
<1>1. Inv => TypeOK
  BY DEF Inv, Types
<1>2. QED
  BY <1>1, InvHolds, PTL

(* However many requests continue, commit, expire and are deleted at the     *)
(* same time, an upstream session keeps its tenant, account and backend.     *)
THEOREM SessionHome == Spec => []SessionHasOneHome
<1>1. Inv => SessionHasOneHome
  <2> SUFFICES ASSUME Inv, NEW r \in Requests, NEW s \in Requests,
                      Sent(r), Sent(s), wire[r].session = wire[s].session
               PROVE  /\ wire[r].account = wire[s].account
                      /\ wire[r].backend = wire[s].backend
                      /\ asked[r].tenant = asked[s].tenant
    BY DEF SessionHasOneHome
  <2>1. OnWire(r) /\ OnWire(s)
    BY DEF Inv, Request
  <2>2. /\ wire[r].session # r => Lives(wire[r], asked[r].tenant)
        /\ wire[s].session # s => Lives(wire[s], asked[s].tenant)
    BY <2>1 DEF OnWire
  <2>3. QED
    BY <2>2 DEF Lives
<1>2. QED
  BY <1>1, InvHolds, PTL

(* Compatible, checked on the bindings looked up earlier, is enough for the  *)
(* state handles that are sent to be at home where they arrive.              *)
THEOREM StateHome == Spec => []StateStaysHome
<1>1. Inv => StateStaysHome
  <2> SUFFICES ASSUME Inv, NEW r \in Requests, pc[r] = "sent", Private(r),
                      pinned[r] # NoRoute \/ ~moved[r], NEW h \in wire[r].handles
               PROVE  /\ wire[h.of].account = wire[r].account
                      /\ wire[h.of].session = wire[r].session
                      /\ asked[h.of].tenant = asked[r].tenant
    BY DEF StateStaysHome
  <2>1. OnWire(r) /\ TypeOK
    BY DEF Inv, Request, Types
  <2>2. Produced(wire[r], HandleKey(r, h)) /\ h \in Handles
    BY <2>1 DEF OnWire, Sent, TypeOK
  <2>3. h.kind # "session"
    BY <2>2 DEF Handles
  <2>4. QED
    BY <2>2, <2>3 DEF Produced, HandleKey, KeyOf, Private
<1>2. QED
  BY <1>1, InvHolds, PTL

(* Once the answer of a private request is committed, its identifier leads   *)
(* to where it was sent for as long as the store keeps it.                   *)
THEOREM OwnerKnown == Spec => []OwnerIsRemembered
<1>1. Inv => OwnerIsRemembered
  <2> SUFFICES ASSUME Inv, NEW r \in Requests, pc[r] = "done", Private(r),
                      NEW k, k = KeyOf(asked[r].tenant, "previous", r), k \notin lost
               PROVE  /\ bindings[k] # None
                      /\ bindings[k].account = wire[r].account
                      /\ bindings[k].session = wire[r].session
    BY DEF OwnerIsRemembered
  <2>1. Remembered(r) /\ Stored
    BY DEF Inv, Request
  <2>2. k \in Keys /\ bindings[k] # None
    BY <2>1 DEF Remembered, Settled
  <2>3. Produced(bindings[k], k)
    BY <2>1, <2>2 DEF Stored
  <2>4. QED
    BY <2>2, <2>3 DEF Produced, KeyOf, Private
<1>2. QED
  BY <1>1, InvHolds, PTL
=============================================================================
