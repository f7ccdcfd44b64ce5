-------------------------- MODULE StreamExecution --------------------------
(***************************************************************************)
(* executeStreaming (internal/server/inference_execution.go): one client's *)
(* stream from the opened upstream to the last byte.  The loop reads an    *)
(* upstream event, lets the adapter handle it, observes and writes what    *)
(* comes out, and commits continuity after a successful terminal.  The     *)
(* upstream may close, fail, send an error or something that cannot be     *)
(* decoded at any moment, the caller may leave and a write may fail.       *)
(***************************************************************************)
EXTENDS UpstreamStream

CONSTANTS
    Configs,        \* the adapters: pairs of protocols with their options
    Answers,        \* for each upstream protocol, the answers it may give
    MaxSwitches     \* bound: how often a stream leaves an unfinished part for another

(* A sequence, whatever its elements are.                                     *)
IsList(seq) == seq \in Seq(ToSet(seq))

ASSUME StreamAssumption ==
    /\ \A c \in Configs :
          c.client \in Protocols /\ c.up \in Protocols /\ "" \notin DOMAIN c.aliases
    /\ \A p \in Protocols : \A a \in Answers[p] :
          /\ IsList(a.items)
          /\ \A item \in ToSet(a.items) : IsList(item.chunks) /\ IsList(item.sig)
    /\ MaxSwitches \in Nat

VARIABLES
    ad, answer,         \* the adapter's configuration and the upstream's answer
    read,               \* how many events of each part were read
    part, switches,     \* the part read last, and how often it was left unfinished
    s,                  \* the adapter
    sent,               \* what the client received
    collector,          \* streamStateCollector
    bound,              \* what the commit bound: tokens and a response id
    pc,                 \* reading, then committing or finishing, then ended
    fate                \* why the stream ended early, if it did

vars == <<ad, answer, read, part, switches, s, sent, collector, bound, pc, fate>>

Parts == 0..Len(answer.items) + 1
Unbound == [done |-> FALSE, tokens |-> {}, id |-> ""]

Init ==
    /\ ad \in Configs
    /\ answer \in Answers[ad.up]
    /\ read = [k \in Parts |-> 0]
    /\ part = 0
    /\ switches = 0
    /\ s = NewBackendStreamAdapter
    /\ sent = <<>>
    /\ collector = [signatures |-> <<>>, tokens |-> {}]
    /\ bound = Unbound
    /\ pc = "reading"
    /\ fate = "none"

-----------------------------------------------------------------------------
(* streamStateCollector.finishSignature and Observe: a token is a signature    *)
(* given whole, or the fragments of one block put together.                   *)
FinishSignature(c, i) ==
    [signatures |-> Without(c.signatures, i),
     tokens |-> c.tokens \cup (IF i \in DOMAIN c.signatures THEN {c.signatures[i]} ELSE {})]

ResponseStateTokens(ev) ==
    {x.sig : x \in {y \in {ev} \cup ToSet(ev.items) : y.type = "reasoning" /\ y.sig # <<>>}}

Observe(c, ev) ==
    LET whole == [c EXCEPT !.tokens = @ \cup ResponseStateTokens(ev)] IN
    CASE ev.e = "content_block_delta" /\ ev.type = "signature_delta" ->
            [whole EXCEPT !.signatures = Put(@, ev.i, Lookup(@, ev.i, <<>>) \o ev.d)]
      [] ev.e = "content_block_stop" -> FinishSignature(whole, ev.i)
      [] OTHER -> whole

Tokens(c) == FoldSet(LAMBDA i, r : FinishSignature(r, i), c, DOMAIN c.signatures).tokens

(* ResponseID, for Responses clients only.                                    *)
ResponseID == IF ad.client = Responses THEN s.id ELSE ""

-----------------------------------------------------------------------------
(* Wrong variant: a write that fails is taken for one that succeeds.          *)
EmitRegardless(r, after) ==
    \E n \in 0..Len(r.out) :
        /\ s' = r.s
        /\ sent' = sent \o SubSeq(r.out, 1, n)
        /\ collector' = FoldLeft(Observe, collector, r.out)
        /\ pc' = after
        /\ fate' = fate

(* emit: every event is observed and written; the first write that fails ends  *)
(* the stream without a word.                                                 *)
Emit(r, after) ==
    \E n \in 0..Len(r.out) :
        /\ s' = r.s
        /\ sent' = sent \o SubSeq(r.out, 1, n)
        /\ collector' = FoldLeft(Observe, collector, SubSeq(r.out, 1, Min({n + 1, Len(r.out)})))
        /\ pc' = IF n < Len(r.out) THEN "ended" ELSE after
        /\ fate' = IF n < Len(r.out) THEN "clientGone" ELSE fate

(* Wrong variant: a failed terminal does not end the loop.                    *)
AfterHandleOnlySuccess(r) == IF r.s.success THEN "committing" ELSE "reading"

AfterHandle(r) ==
    IF ~r.s.terminal THEN "reading" ELSE IF r.s.success THEN "committing" ELSE "ended"

(* The next event of part k.  Messages blocks come one after the other, and so *)
(* do the items of an answer whose text may be cut at a stop sequence.        *)
Over(k) == read[k] = Len(Part(ad.up, answer, k))
Ready(k) ==
    /\ ~Over(k)
    /\ k = part \/ Over(part) \/ switches < MaxSwitches
    /\ \A j \in 0..k-1 :
          IF j = 0 \/ k = Len(answer.items) + 1 \/ ad.up = Messages \/ ad.stops # <<>>
          THEN Over(j) ELSE read[j] > 0

Deliver(k) ==
    /\ pc = "reading"
    /\ Ready(k)
    /\ LET r == Handle(ad, s, Part(ad.up, answer, k)[read[k] + 1]) IN Emit(r, AfterHandle(r))
    /\ read' = [read EXCEPT ![k] = @ + 1]
    /\ part' = k
    /\ switches' = IF k = part \/ Over(part) THEN switches ELSE switches + 1
    /\ UNCHANGED <<ad, answer, bound>>

(* The upstream reports an error inside the stream.                           *)
UpstreamError ==
    /\ pc = "reading"
    /\ LET r == Handle(ad, s, Event("error")) IN Emit(r, AfterHandle(r))
    /\ UNCHANGED <<ad, answer, read, part, switches, bound>>

(* EventStream.Next finds the end of the body.                                *)
EndOfStream ==
    /\ pc = "reading"
    /\ LET r == Finish(ad, s) IN Emit(r, IF r.s.success THEN "finishing" ELSE "ended")
    /\ UNCHANGED <<ad, answer, read, part, switches, bound>>

(* EventStream.Next fails, or Handle cannot decode the event: the client is    *)
(* told, whatever became of its connection.                                   *)
ReadFails ==
    /\ pc = "reading"
    /\ sent' = Append(sent, Event("error"))
    /\ pc' = "ended"
    /\ fate' = "failed"
    /\ UNCHANGED <<ad, answer, read, part, switches, s, collector, bound>>

(* The caller's context is canceled.                                          *)
Canceled ==
    /\ pc = "reading"
    /\ pc' = "ended"
    /\ fate' = "canceled"
    /\ UNCHANGED <<ad, answer, read, part, switches, s, sent, collector, bound>>

(* commitStreamContinuity, and the sentinel of Chat when the terminal was an   *)
(* event of the upstream.                                                     *)
Commit ==
    /\ pc \in {"committing", "finishing"}
    /\ bound' = [done |-> TRUE, tokens |-> Tokens(collector), id |-> ResponseID]
    /\ sent' = IF pc = "committing" /\ ad.client = Chat THEN Append(sent, Event("[DONE]")) ELSE sent
    /\ pc' = "ended"
    /\ UNCHANGED <<ad, answer, read, part, switches, s, collector, fate>>

Ended == pc = "ended" /\ UNCHANGED vars

Next ==
    \/ \E k \in Parts : Deliver(k)
    \/ UpstreamError
    \/ EndOfStream
    \/ ReadFails
    \/ Canceled
    \/ Commit
    \/ Ended

Spec == Init /\ [][Next]_vars

-----------------------------------------------------------------------------
(* What the client makes of what it received.                                 *)
Cat(events, data(_)) == FlattenSeq([k \in DOMAIN events |-> data(events[k])])
Having(test(_)) == SelectSeq(sent, test)
Ordered(S) == SetToSortSeq(S, LAMBDA a, b : a < b)
FirstText(seq) == IF SelectSeq(seq, LAMBDA x : x # "") = <<>> THEN ""
                  ELSE Head(SelectSeq(seq, LAMBDA x : x # ""))
Usage == FoldLeft(LAMBDA u, ev : MergeUsage(u, ev.usage), NoUsage, sent)
StopReason == LET told == SelectSeq(sent, LAMBDA ev : ev.stop # "") IN
              IF told = <<>> THEN "" ELSE Last(told).stop

ReadChat ==
    LET calls == Cat(sent, LAMBDA ev : ev.calls)
        order == Ordered({c.i : c \in ToSet(calls)})
        of(i) == SelectSeq(calls, LAMBDA c : c.i = i)
    IN  [text |-> Cat(sent, LAMBDA ev : ev.d), reasoning |-> Cat(sent, LAMBDA ev : ev.rsn),
         tools |-> [k \in DOMAIN order |-> LET mine == of(order[k]) IN
            [id |-> FirstText([j \in DOMAIN mine |-> mine[j].id]),
             name |-> FirstText([j \in DOMAIN mine |-> mine[j].name]), kind |-> "function",
             args |-> Remarshal(Cat(mine, LAMBDA c : c.d))]],
         sigs |-> {}, stop |-> StopReason, usage |-> Usage]

ToolKind ==
    [type \in {"function_call", "custom_tool_call", "tool_search_call"} |->
        CASE type = "function_call" -> "function" [] type = "custom_tool_call" -> "custom"
          [] OTHER -> "tool_search"]

ReadResponses ==
    LET done == SortSeq(Having(LAMBDA ev : ev.e = "response.output_item.done"),
                        LAMBDA a, b : a.i < b.i)
        told(type) == Cat(SelectSeq(done, LAMBDA ev : ev.type = type), LAMBDA ev : ev.d)
        calls == SelectSeq(done, LAMBDA ev : ev.type \in DOMAIN ToolKind)
    IN  [text |-> told("message"), reasoning |-> told("reasoning"),
         tools |-> [k \in DOMAIN calls |->
            [id |-> calls[k].id, name |-> calls[k].name, kind |-> ToolKind[calls[k].type],
             args |-> Remarshal(calls[k].d)]],
         sigs |-> {ev.sig : ev \in {x \in ToSet(done) : x.sig # <<>>}},
         stop |-> StopReason, usage |-> Usage]

ReadMessages ==
    LET blocks == Having(LAMBDA ev : ev.e = "content_block_start")
        told(i, type) == Cat(SelectSeq(sent, LAMBDA ev : ev.i = i /\ ev.type = type),
                             LAMBDA ev : ev.d)
        all(type) == Cat(blocks, LAMBDA b : told(b.i, type))
        calls == SelectSeq(blocks, LAMBDA b : b.type = "tool_use")
        input(b) == IF told(b.i, "input_json_delta") = <<>> THEN b.d
                    ELSE told(b.i, "input_json_delta")
    IN  [text |-> all("text_delta"), reasoning |-> all("thinking_delta"),
         tools |-> [k \in DOMAIN calls |->
            [id |-> calls[k].id, name |-> calls[k].name, kind |-> "function",
             args |-> Remarshal(input(calls[k]))]],
         sigs |-> {told(b.i, "signature_delta") : b \in ToSet(blocks)} \ {<<>>},
         stop |-> StopReason, usage |-> [Usage EXCEPT !.input = 0]]

Received == CASE ad.client = Chat -> ReadChat [] ad.client = Messages -> ReadMessages
              [] OTHER -> ReadResponses

(* The answer as far as the upstream told it: a Chat upstream that closes       *)
(* after its finish_reason never reports usage.                                *)
Told ==
    LET tail == Part(ad.up, answer, Len(answer.items) + 1)
        count == read[Len(answer.items) + 1]
    IN  IF ad.up = Chat /\ \A k \in 1..count : tail[k].usage = NoUsage
        THEN [answer EXCEPT !.usage = NoUsage] ELSE answer

Expected ==
    LET whole == AdaptBackendResponse(ad, Told) IN
    IF ad.client = Messages THEN [whole EXCEPT !.usage.input = 0] ELSE whole

(* Calls are told apart by their ids, whatever order they come in.             *)
Unordered(reading) == [reading EXCEPT !.tools = ToBag(@)]

SuccessEvents == {"[DONE]", "response.completed", "response.incomplete", "message_stop"}
FailureEvents == {"error", "response.failed"}
Count(names) == Cardinality({k \in DOMAIN sent : sent[k].e \in names})
Succeeded == Count(SuccessEvents) > 0
Translated == ad.client = Messages /\ ad.up = Responses

-----------------------------------------------------------------------------
TypeOK ==
    /\ ad \in Configs /\ answer \in Answers[ad.up]
    /\ \A k \in Parts : read[k] \in 0..Len(Part(ad.up, answer, k))
    /\ pc \in {"reading", "committing", "finishing", "ended"}
    /\ fate \in {"none", "clientGone", "failed", "canceled"}
    /\ s.success => s.terminal
    /\ (pc = "reading") = ~s.terminal \/ pc = "ended"

(* Blocks and output items are numbered without gaps in the order they are     *)
(* opened, nothing is said of one that is not open, each is closed once, all   *)
(* are closed before a success, and the first event opens the message.         *)
(* [backendStreamAdapter.encodeResponses, encodeMessages, StreamTranslator]    *)
Openings == {"content_block_start", "response.output_item.added"}
Closings == {"content_block_stop", "response.output_item.done"}
Framing == {"message_start", "message_delta", "response.created", Private, "chunk"}
             \cup SuccessEvents \cup FailureEvents
Before(k, names, i) == {j \in 1..k-1 : sent[j].e \in names /\ sent[j].i = i}

WellFormed ==
    /\ \A k \in DOMAIN sent :
        LET ev == sent[k] IN
        /\ ev.e \in Openings =>
              ev.i = Cardinality({j \in 1..k-1 : sent[j].e \in Openings})
        /\ ev.e \notin Openings \cup Framing =>
              Before(k, Openings, ev.i) # {} /\ Before(k, Closings, ev.i) = {}
        /\ ev.e \in SuccessEvents => Count(Openings) = Count(Closings)
    /\ sent # <<>> => Head(sent).e \in {"message_start", "response.created", "chunk"} \cup FailureEvents
                      \/ (ad.client = Chat /\ answer.items = <<>>)

(* What streaming gives is what the same answer gives without streaming: at    *)
(* any moment the text is a beginning of it and nothing was told of the        *)
(* wrapper around the input of a custom tool, a stream that succeeds has told  *)
(* all of it, calls, stop reason and usage included, and the state tokens that *)
(* are bound are those of the answer the client has.  An answer that fails may *)
(* have begun to stream, but where it is an error without streaming no stream  *)
(* of it succeeds.  The signature of a thought does not pass the translator,   *)
(* see SignatureReachesClient.                                                 *)
(* [Handle, Finish against adaptBackendResponse; aliasedCustomInput,           *)
(* streamStateCollector]                                                       *)
Seen == UNION {{ev} \cup ToSet(ev.items) : ev \in ToSet(sent)}
SameAsNonStreaming ==
    /\ Len(OfKind(answer, "text")) = 1 /\ ad.client # Responses
          => IsPrefix(Received.text, IF Expected = ErrorResponse THEN ContentOf(answer, "text")
                                     ELSE Expected.text)
    /\ ad.client = Responses => \A x \in Seen : "in" \notin ToSet(x.d)
    /\ Succeeded => Expected # ErrorResponse
    /\ Succeeded => Unordered(Received) =
          Unordered(IF Translated THEN [Expected EXCEPT !.sigs = Received.sigs] ELSE Expected)
    /\ bound.done => bound.tokens = Received.sigs

(* Success is told only when the upstream told everything, that it was done    *)
(* and that it had not failed; whoever is still there when the stream ends was *)
(* told one ending.                                                            *)
(* [Finish, executeStreaming]                                                  *)
UpstreamDone ==
    /\ ~ResponsesPayloadFailed(ad, answer)
    /\ \A k \in 1..Len(answer.items) : Over(k)
    /\ read[Len(answer.items) + 1] > 0
HonestEnding ==
    /\ Succeeded => UpstreamDone /\ Count(FailureEvents) = 0
    /\ Count(SuccessEvents \cup FailureEvents) =< 1
    /\ pc = "ended" /\ fate \in {"none", "failed"} =>
          Count(SuccessEvents \cup FailureEvents) = 1 /\ Last(sent).e \in SuccessEvents \cup FailureEvents

(* A turn is bound if and only if its client was told of success and did not   *)
(* go away before, and under the response id that the client was given.        *)
(* [Emit, commitStreamContinuity, ResponseID]                                  *)
CommitMatchesClient ==
    /\ bound.done => Succeeded
    /\ bound.done /\ ad.client = Responses =>
          \A k \in DOMAIN sent :
             sent[k].e \in {"response.created"} \cup SuccessEvents => sent[k].id = bound.id
    /\ pc = "ended" /\ Succeeded /\ fate = "none" => bound.done

(* A Responses client never sees the name under which its tool was sent        *)
(* upstream, unless a tool has that name in public, whatever the upstream's    *)
(* dialect and wherever the stream breaks off.                                 *)
(* [rewriteNativeResponsesToolEvent, encodeResponses]                          *)
WireNames == DOMAIN ad.aliases \ {ad.aliases[w].name : w \in DOMAIN ad.aliases}
AliasHidden == ad.client = Responses => \A x \in Seen : x.name \notin WireNames

(* The signature of a thought the client asked for reaches it.                 *)
(* [StreamTranslator.Handle]                                                   *)
SignatureReachesClient ==
    Succeeded /\ Translated => Received.sigs = Expected.sigs
=============================================================================
