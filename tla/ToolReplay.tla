----------------------------- MODULE ToolReplay -----------------------------
(***************************************************************************)
(* The tool replay cache (internal/openai/tool_replay.go) and the requests *)
(* of the Responses endpoint that use it: what a request looks up before   *)
(* it is planned, what of it is rendered for the upstream, and what its    *)
(* answer leaves in the cache for the next one.  Every call of the cache   *)
(* is one section of its lock, so that requests interleave between them.   *)
(*                                                                         *)
(* An entry that is read lives for another ttl; here time only shows as    *)
(* the moment at which an entry expires.  The model name is part of every  *)
(* key, as the tenant is; one model stands for all.                        *)
(***************************************************************************)
EXTENDS Integers, FiniteSets, Sequences, SequencesExt, FiniteSetsExt

CONSTANTS
    Requests,       \* named by strings
    Bodies,         \* for each request, the bodies its client may send
    Turns,          \* for each request, the items of the upstream's answer
    Bytes(_),       \* the size of an encoded item
    MaxEntries,     \* maximum number of entries
    MaxBytes        \* the cache's byte budget

Elements == UNION {ToSet(Turns[r]) : r \in Requests}

ASSUME ReplayAssumption ==
    /\ MaxEntries \in Nat \ {0} /\ MaxBytes \in Nat \ {0}
    /\ \A r \in Requests : Turns[r] \in Seq(Elements)
    /\ \A r \in Requests : \A b \in Bodies[r] : b.input \in Seq(ToSet(b.input))
    /\ \A x \in Elements : Bytes(x) \in Nat

VARIABLES
    entries, bytes,     \* the ToolReplayCache
    req,                \* what each request is doing
    lost                \* history: keys whose entry was evicted, or expired

vars == <<entries, bytes, req, lost>>

(* Elements of an input: [type, id, call, name].  A call is named by its item  *)
(* id and by its call id; an output names the call it answers.                *)
CallIds(input, type) == {x.call : x \in {y \in ToSet(input) : y.type = type}} \ {""}
ResponseId(r) == "resp_" \o r

NewRequest(body) ==
    [pc |-> "arriving", body |-> body, input |-> <<>>, at |-> 1, prev |-> "",
     known |-> FALSE, stateful |-> FALSE, store |-> FALSE, sent |-> <<>>,
     items |-> <<>>, todo |-> <<>>, done |-> 0, told |-> 0, completed |-> FALSE]

Init ==
    /\ entries = <<>>
    /\ bytes = 0
    /\ req \in {f \in [Requests -> UNION {{NewRequest(b) : b \in Bodies[r]} : r \in Requests}] :
                    \A r \in Requests : f[r].body \in Bodies[r]}
    /\ lost = {}

-----------------------------------------------------------------------------
(* toolReplayKey.                                                             *)
KeyWithoutTenant(tenant, kind, name) == <<"public", kind, name>>
Key(tenant, kind, name) == <<tenant, kind, name>>

(* getRecordForTenant: an expired entry is removed when it is read.           *)
Has(k) == k \in DOMAIN entries /\ ~entries[k].expired
Without(f, ks) == [x \in DOMAIN f \ ks |-> f[x]]
With(f, k, v) == [x \in DOMAIN f \cup {k} |-> IF x = k THEN v ELSE f[x]]
Total(es) == MapThenSumSet(LAMBDA k : es[k].bytes, DOMAIN es)

Read(k) ==
    /\ entries' = IF Has(k) THEN entries ELSE Without(entries, {k})
    /\ bytes' = IF k \in DOMAIN entries /\ ~Has(k) THEN bytes - entries[k].bytes ELSE bytes
    /\ lost' = IF k \in DOMAIN entries /\ ~Has(k) THEN lost \cup {k} ELSE lost

Items(k) == IF Has(k) THEN entries[k].items ELSE <<>>

(* The elements at some places of an input, in their order.                    *)
Kept(input, at) ==
    FoldLeftDomain(LAMBDA acc, n : IF n \in at THEN Append(acc, input[n]) ELSE acc, <<>>, input)

(* normalizeReplayItems.                                                      *)
Replayable(x) == x.type = "call" /\ x.call # "" /\ x.name # ""
Normalize(items) == Kept(items, {n \in DOMAIN items : Replayable(items[n])})
Encoded(items) == FoldLeft(LAMBDA n, x : n + Bytes(x), 0, items)

Only(f, ks) == [x \in ks |-> f[x]]

(* The random evictions of putForTenant: entries go one after the other until  *)
(* both limits leave room for one of this size, or none is left.              *)
Evictions(es, used, size) ==
    LET room(gone) == /\ Cardinality(DOMAIN es \ gone) < MaxEntries
                      /\ used - Total(Only(es, gone)) + size =< MaxBytes
    IN  {gone \in SUBSET DOMAIN es :
            /\ room(gone) \/ gone = DOMAIN es
            /\ gone # {} => \E k \in gone : ~room(gone \ {k})}

(* putForTenant, once the old entry of the key is removed: others are the      *)
(* entries that stay, used the bytes counted for them.                        *)
PutBeside(k, items, store, others, used) ==
    LET norm == Normalize(items)
        size == Encoded(norm)
        expired == IF Cardinality(DOMAIN others) >= MaxEntries
                   THEN {x \in DOMAIN others : others[x].expired} ELSE {}
        live == Without(others, expired)
        left == used - Total(Only(others, expired))
    IN  IF norm = <<>> \/ size > MaxBytes THEN UNCHANGED <<entries, bytes, lost>>
        ELSE \E gone \in Evictions(live, left, size) :
            /\ entries' = With(Without(live, gone), k, [items |-> norm, store |-> store,
                                                        bytes |-> size, expired |-> FALSE])
            /\ bytes' = left - Total(Only(live, gone)) + size
            /\ lost' = (lost \cup expired \cup gone) \ {k}

(* Wrong variant: the bytes of an entry that is replaced stay counted.        *)
PutOver(k, items, store) == PutBeside(k, items, store, Without(entries, {k}), bytes)

Put(k, items, store) ==
    PutBeside(k, items, store, Without(entries, {k}),
              bytes - Total(Only(entries, DOMAIN entries \cap {k})))

(* The ttl of an entry has passed.                                            *)
Expire(k) ==
    /\ Has(k)
    /\ entries' = [entries EXCEPT ![k].expired = TRUE]
    /\ UNCHANGED <<bytes, req, lost>>

-----------------------------------------------------------------------------
Goto(r, pc) == [req[r] EXCEPT !.pc = pc]
Step(r, record) == req' = [req EXCEPT ![r] = record]
Prev(r) == Key(req[r].body.tenant, "prev", req[r].body.prev)

Finished(r) == req[r].pc = "ended" /\ req[r].completed

(* What a client can speak of: items and responses it was told about.         *)
CanSend(body) ==
    /\ body.after \in Requests => req[body.after].told >= body.told
    /\ body.prev = ResponseId(body.after) => Finished(body.after)

(* The responses handler: native CLI clients continue by themselves, and an    *)
(* answer of the upstream is not consulted for them.                          *)
Arrive(r) ==
    LET b == req[r].body
        start == [req[r] EXCEPT !.input = b.input, !.prev = b.prev,
                    !.pc = IF b.native THEN "rendering"
                           ELSE IF b.prev = "" THEN "expanding" ELSE "looking"]
    IN  /\ req[r].pc = "arriving"
        /\ CanSend(b)
        /\ Step(r, start)
        /\ UNCHANGED <<entries, bytes, lost>>

(* PrepareResponsesReplayWithTenant: is the previous response one that the     *)
(* upstream stores?                                                           *)
LookUpPrevious(r) ==
    LET stateful == Has(Prev(r)) /\ entries[Prev(r)].store IN
    /\ req[r].pc = "looking"
    /\ Read(Prev(r))
    /\ Step(r, [req[r] EXCEPT !.known = Has(Prev(r)), !.stateful = stateful,
                              !.pc = IF stateful THEN "applying" ELSE "expanding"])

(* expandItemReferencesForTenant, one element of the input at a time.         *)
Expand(r) ==
    LET q == req[r]
        x == q.input[q.at]
        k == Key(q.body.tenant, "item", x.id)
        found == IF Items(k) = <<>> THEN <<x>> ELSE Items(k)
        spliced == SubSeq(q.input, 1, q.at - 1) \o found
                   \o SubSeq(q.input, q.at + 1, Len(q.input))
    IN  /\ q.pc = "expanding"
        /\ q.at =< Len(q.input)
        /\ IF x.type = "reference" /\ x.id # ""
           THEN /\ Read(k)
                /\ Step(r, [q EXCEPT !.input = spliced, !.at = @ + Len(found)])
           ELSE /\ Step(r, [q EXCEPT !.at = @ + 1])
                /\ UNCHANGED <<entries, bytes, lost>>

Expanded(r) ==
    /\ req[r].pc = "expanding"
    /\ req[r].at > Len(req[r].input)
    /\ Step(r, Goto(r, "applying"))
    /\ UNCHANGED <<entries, bytes, lost>>

-----------------------------------------------------------------------------
(* applyToolCallReplayForTenant.  Candidates that the input lacks and answers   *)
(* are inserted before the first output of one of them; a replay that would    *)
(* leave an output without its call is refused.                               *)
MissingCalls(input, candidates) ==
    LET lacks(acc, x) ==
            IF x.type = "call" /\ x.call \in CallIds(input, "output") \ CallIds(input \o acc, "call")
            THEN Append(acc, x) ELSE acc
    IN  FoldLeft(lacks, <<>>, candidates)

Complete(input) == CallIds(input, "output") \subseteq CallIds(input, "call")

InsertionPoint(input, missing) ==
    LET outputs == {n \in DOMAIN input : input[n].type = "output"}
        answered == {n \in outputs : input[n].call \in CallIds(missing, "call") \cup {""}}
    IN  Min(IF answered = {} THEN outputs ELSE answered)

(* Wrong variant: what can be replayed is replayed.                           *)
ReplayPartly(input, candidates) ==
    LET missing == MissingCalls(input, candidates)
        n == InsertionPoint(input, missing)
    IN  IF candidates = <<>> \/ missing = <<>> THEN [ok |-> FALSE, input |-> input]
        ELSE [ok |-> TRUE, input |-> SubSeq(input, 1, n - 1) \o missing
                                     \o SubSeq(input, n, Len(input))]

Replay(input, candidates) ==
    LET missing == MissingCalls(input, candidates)
        n == InsertionPoint(input, missing)
    IN  IF candidates = <<>> \/ ~Complete(input \o missing) THEN [ok |-> FALSE, input |-> input]
        ELSE IF missing = <<>> THEN [ok |-> TRUE, input |-> input]
        ELSE [ok |-> TRUE, input |-> SubSeq(input, 1, n - 1) \o missing
                                     \o SubSeq(input, n, Len(input))]

(* The end of PrepareResponsesReplayWithTenant: a state handle is dropped when *)
(* the replay stands for it, or when no upstream can know it.                 *)
Prepared(q, replay) ==
    LET gone == replay.ok \/ (q.known /\ ~q.stateful) \/ q.body.store = "no" IN
    [q EXCEPT !.input = replay.input, !.prev = IF gone THEN "" ELSE @, !.pc = "rendering"]

Apply(r) ==
    LET q == req[r]
        session == Key(q.body.tenant, "cache", q.body.key)
        refused == [ok |-> FALSE, input |-> q.input]
        answers == CallIds(q.input, "output") # {}
        none == UNCHANGED <<entries, bytes, lost>>
    IN  /\ q.pc = "applying"
        /\ \/ /\ answers /\ q.body.prev # ""
              /\ Read(Prev(r))
              /\ LET local == Has(Prev(r)) /\ ~entries[Prev(r)].store IN
                 Step(r, Prepared(q, IF local THEN Replay(q.input, Items(Prev(r))) ELSE refused))
           \/ /\ answers /\ q.body.prev = "" /\ q.body.key # ""
              /\ Read(session)
              /\ Step(r, Prepared(q, Replay(q.input, Items(session))))
           \/ /\ ~answers \/ q.body.prev \o q.body.key = ""
              /\ Step(r, Prepared(q, refused))
              /\ none

-----------------------------------------------------------------------------
(* cleanNativeResponsesInput, and renderChatMessages for a Chat upstream:      *)
(* references do not reach an upstream, nor outputs without their call unless  *)
(* the upstream can know it.                                                  *)
CallBefore(input, n) == input[n].call \in CallIds(SubSeq(input, 1, n - 1), "call")

WellNamed(x) ==
    CASE x.type = "call" -> x.call # "" /\ x.name # ""
      [] x.type = "output" -> x.call # ""
      [] OTHER -> x.type = "message"
CleanNativeInput(input, prev) ==
    Kept(input, {n \in DOMAIN input :
        /\ WellNamed(input[n])
        /\ \/ input[n].type # "output" \/ prev # ""
           \/ input[n].call \in CallIds(input, "call")})
RenderInput(input) ==
    Kept(input, {n \in DOMAIN input :
        WellNamed(input[n]) /\ (input[n].type # "output" \/ CallBefore(input, n))})

Render(r) ==
    LET q == req[r]
        native == q.body.up = "responses"
        sent == IF native THEN CleanNativeInput(q.input, q.prev) ELSE RenderInput(q.input)
        store == native /\ (q.body.store = "yes" \/ (q.body.store = "unset" /\ ~q.body.native))
    IN  /\ q.pc = "rendering"
        /\ Step(r, [q EXCEPT !.sent = sent, !.store = store,
                             !.prev = IF native THEN @ ELSE "",
                             !.pc = IF sent = <<>> THEN "ended" ELSE "answering"])
        /\ UNCHANGED <<entries, bytes, lost>>

-----------------------------------------------------------------------------
(* What is still to be put in the cache: [key, items].                        *)
ToPut(tenant, kind, name, items) ==
    IF name = "" THEN <<>>
    ELSE <<[key |-> Key(tenant, kind, name), items |-> items]>>

Calls(output) == Kept(output, {n \in DOMAIN output : output[n].type = "call"})

(* RememberCompletedResponseWithStoreForTenant.                               *)
RememberCompleted(q, id, output) ==
    LET calls == Calls(output)
        single(x) == ToPut(q.body.tenant, "item", x.id, <<x>>)
    IN  IF calls = <<>> THEN <<>>
        ELSE ToPut(q.body.tenant, "prev", id, calls)
             \o ToPut(q.body.tenant, "cache", q.body.key, calls)
             \o FoldLeft(LAMBDA acc, x : acc \o single(x), <<>>, calls)

(* streamToolReplayState.handle: response.output_item.done.                   *)
ItemDone(r) ==
    LET q == req[r]
        x == Turns[r][q.done + 1]
    IN  /\ q.pc = "answering" /\ q.body.stream /\ q.done < Len(Turns[r])
        /\ Step(r, [q EXCEPT !.done = @ + 1, !.pc = "remembering",
                             !.items = IF x.type = "call" THEN Append(@, x) ELSE @,
                             !.todo = IF x.type = "call" /\ Normalize(<<x>>) # <<>>
                                      THEN ToPut(q.body.tenant, "item", x.id, <<x>>) ELSE <<>>])
        /\ UNCHANGED <<entries, bytes, lost>>

(* Wrong variant: an empty output of response.completed is taken as it is.    *)
CompletedUnpatched(r) ==
    LET q == req[r] IN
    /\ q.pc = "answering" /\ (q.body.stream => q.done = Len(Turns[r]))
    /\ \E output \in {Turns[r]} \cup (IF q.body.stream THEN {<<>>} ELSE {}) :
         Step(r, [q EXCEPT !.todo = RememberCompleted(q, ResponseId(r), output),
                           !.done = Len(Turns[r]), !.completed = TRUE, !.pc = "remembering"])
    /\ UNCHANGED <<entries, bytes, lost>>

(* response.completed, whose output may be empty, or a whole answer.          *)
Completed(r) ==
    LET q == req[r] IN
    /\ q.pc = "answering" /\ (q.body.stream => q.done = Len(Turns[r]))
    /\ \E output \in {Turns[r]} \cup (IF q.body.stream THEN {q.items} ELSE {}) :
         Step(r, [q EXCEPT !.todo = RememberCompleted(q, ResponseId(r), output),
                           !.done = Len(Turns[r]), !.completed = TRUE, !.pc = "remembering"])
    /\ UNCHANGED <<entries, bytes, lost>>

Remember(r) ==
    LET q == req[r] IN
    /\ q.pc = "remembering" /\ q.todo # <<>>
    /\ Put(Head(q.todo).key, Head(q.todo).items, q.store)
    /\ Step(r, [q EXCEPT !.todo = Tail(@)])

(* The event, or the answer, is written to the client.                        *)
Tell(r) ==
    LET q == req[r] IN
    /\ q.pc = "remembering" /\ q.todo = <<>>
    /\ Step(r, [q EXCEPT !.told = q.done, !.pc = IF q.completed THEN "ended" ELSE "answering"])
    /\ UNCHANGED <<entries, bytes, lost>>

(* The upstream fails, the caller leaves, or a write does not get through.     *)
Fail(r) ==
    /\ req[r].pc \in {"answering", "remembering"} /\ req[r].todo = <<>>
    /\ Step(r, [req[r] EXCEPT !.pc = "ended", !.completed = FALSE])
    /\ UNCHANGED <<entries, bytes, lost>>

Idle ==
    /\ \A r \in Requests : req[r].pc = "arriving" => ~CanSend(req[r].body)
    /\ \A r \in Requests : req[r].pc \in {"arriving", "ended"}
    /\ UNCHANGED vars

Next ==
    \/ \E r \in Requests :
        \/ Arrive(r) \/ LookUpPrevious(r) \/ Expand(r) \/ Expanded(r) \/ Apply(r) \/ Render(r)
        \/ ItemDone(r) \/ Completed(r) \/ Remember(r) \/ Tell(r) \/ Fail(r)
    \/ \E k \in DOMAIN entries : Expire(k)
    \/ Idle

Spec == Init /\ [][Next]_vars

-----------------------------------------------------------------------------
(* The types, and the accounts of the cache: the bytes it counts are those of   *)
(* its entries, and neither limit is ever exceeded, however entries are        *)
(* replaced, evicted and expire.  [putForTenant, getRecordForTenant]           *)
CacheWithinBudget ==
    /\ \A k \in DOMAIN entries : entries[k].items # <<>> /\ entries[k].bytes = Encoded(entries[k].items)
    /\ bytes = Total(entries) /\ bytes =< MaxBytes
    /\ Cardinality(DOMAIN entries) =< MaxEntries
    /\ \A r \in Requests :
          req[r].pc \in {"arriving", "looking", "expanding", "applying", "rendering",
                        "answering", "remembering", "ended"}

(* What is sent can be understood upstream: no call twice, every output after  *)
(* its call unless the handle of a previous response is sent along, and a      *)
(* replay is whole: when calls are put back, no output of the client is        *)
(* missing.  [applyToolCallReplayForTenant, cleanNativeResponsesInput]         *)
Sent(r) == req[r].pc \in {"answering", "remembering"}
PutBack(r) == {x \in ToSet(req[r].sent) : x.type = "call"} \ ToSet(req[r].body.input)

OutputsHaveCalls ==
    \A r \in {x \in Requests : Sent(x) /\ ~req[x].body.native} :
        LET sent == req[r].sent
            asked == req[r].body.input
            is(n, type) == sent[n].type = type
        IN  /\ \A m, n \in DOMAIN sent :
                  m # n /\ is(m, "call") /\ is(n, "call") => sent[m].call # sent[n].call
            /\ req[r].prev = "" => \A n \in DOMAIN sent : is(n, "output") => CallBefore(sent, n)
            /\ PutBack(r) # {} /\ CallIds(asked, "call") \cup {x.id : x \in ToSet(asked)} = {""}
                  => CallIds(sent, "output") = CallIds(asked, "output")

(* A call that is put back was made in an answer to the same tenant, to the    *)
(* response the client continues when it names one and no single item, even    *)
(* when two tenants use the same names of items, calls and sessions.           *)
(* [toolReplayKey, PrepareResponsesReplayWithTenant]                           *)
ReplayStaysHome ==
    \A r \in {x \in Requests : Sent(x)} : \A x \in PutBack(r) :
        \E a \in Requests :
            /\ x \in ToSet(Turns[a]) /\ req[a].body.tenant = req[r].body.tenant
            /\ req[r].body.prev = "" \/ (\E y \in ToSet(req[r].body.input) : y.type = "reference")
                  \/ req[r].body.prev = ResponseId(a)

(* What a client was told it can continue from: the calls of a completed       *)
(* response and each call of a stream under way are in the cache under their   *)
(* names, unless they were evicted or expired or are too large.               *)
(* [streamToolReplayState.handle before writeRawSSE]                           *)
InCache(k, items) ==
    k \in lost \/ Encoded(items) > MaxBytes \/ (k \in DOMAIN entries /\ entries[k].items = items)
RememberedBeforeTold ==
    \A r \in Requests :
        LET calls == Normalize(Turns[r]) tenant == req[r].body.tenant IN
        /\ Finished(r) /\ calls # <<>> => InCache(Key(tenant, "prev", ResponseId(r)), calls)
        /\ \A n \in 1..req[r].told : LET x == Turns[r][n] IN
              Normalize(<<x>>) # <<>> /\ x.id # "" => InCache(Key(tenant, "item", x.id), <<x>>)

(* Only calls of responses that the upstream does not store are put back.      *)
(* [RememberCompletedResponseWithStore]                                        *)
StoredNeverReplayed ==
    \A r \in {x \in Requests : Sent(x)} :
        \A x \in PutBack(r) : \E a \in Requests : x \in ToSet(Turns[a]) /\ ~req[a].store
=============================================================================
