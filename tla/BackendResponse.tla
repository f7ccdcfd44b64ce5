-------------------------- MODULE BackendResponse --------------------------
(***************************************************************************)
(* internal/server/backend_adapter.go: a complete upstream response,       *)
(* decoded into the protocol-neutral canonicalResult and encoded again for *)
(* the protocol the client speaks.  The module also holds the vocabulary   *)
(* the streaming adapter shares with it: wire events, aliases of tools and *)
(* the conversions of tool arguments.                                      *)
(*                                                                         *)
(* Text, reasoning, signatures and the JSON text of tool arguments are     *)
(* sequences of symbols.  In arguments " " is insignificant white space,   *)
(* "in" the wrapper {"input": ...} of an aliased custom tool and "{}" the  *)
(* empty object, so that decoding and encoding them again changes them the *)
(* way it does in the code.                                                *)
(***************************************************************************)
EXTENDS Integers, Sequences, SequencesExt

Chat == "chat"
Responses == "responses"
Messages == "messages"
Protocols == {Chat, Responses, Messages}

NoValue == <<"nil">>
NoUsage == [input |-> 0, output |-> 0]

Put(f, k, v) == [x \in {k} \cup DOMAIN f |-> IF x = k THEN v ELSE f[x]]
Without(f, k) == [x \in DOMAIN f \ {k} |-> f[x]]
Lookup(f, k, default) == IF k \in DOMAIN f THEN f[k] ELSE default
Present(a, b) == IF a # "" THEN a ELSE b
Numbers(n) == [k \in 1..n |-> k - 1]        \* of n things numbered from zero

(* One event of any dialect: its name, the index of the item, block or tool   *)
(* it is about, and the fields the adapter reads or writes.                   *)
Event(name) ==
    [e |-> name, i |-> 0, type |-> "", id |-> "", name |-> "", d |-> <<>>,
     sig |-> <<>>, rsn |-> <<>>, calls |-> <<>>, stop |-> "",
     usage |-> NoUsage, items |-> <<>>]

Item(type, id, name, d, sig) ==
    [type |-> type, id |-> id, name |-> name, d |-> d, sig |-> sig]

-----------------------------------------------------------------------------
(* parseArguments and argumentsString: white space does not survive.          *)
Remarshal(raw) == SelectSeq(raw, LAMBDA c : c # " ")

(* aliasedCustomInput: the value inside {"input": ...} when there is one.     *)
AliasedInput(raw) ==
    LET v == Remarshal(raw) IN IF v # <<>> /\ Head(v) = "in" THEN Tail(v) ELSE v

ChatStop(hasTool, stop) ==
    IF hasTool \/ stop \in {"tool_calls", "tool_use"} THEN "tool_calls"
    ELSE IF stop \in {"max_tokens", "max_output_tokens", "length",
                      "model_context_window_exceeded"} THEN "length"
    ELSE IF stop \in {"content_filter", "refusal"} THEN "content_filter" ELSE "stop"

MessagesStop(hasTool, stop) ==
    IF hasTool \/ stop \in {"tool_calls", "tool_use"} THEN "tool_use"
    ELSE IF stop \in {"max_tokens", "max_output_tokens", "length"} THEN "max_tokens"
    ELSE IF stop \in {"stop_sequence", "pause_turn", "refusal",
                      "model_context_window_exceeded"} THEN stop ELSE "end_turn"

(* The reason in incomplete_details of an answer of canonicalResponsesResponse, *)
(* or "" for a completed one.                                                   *)
IncompleteReason(status, stop) ==
    IF stop = "model_context_window_exceeded" THEN stop
    ELSE IF status = "incomplete" \/ stop \in {"max_tokens", "max_output_tokens"}
         THEN "max_output_tokens" ELSE ""

-----------------------------------------------------------------------------
(* What the upstream says in one turn, whatever the dialect: items with the   *)
(* pieces it would stream them in, the reason it stops (in its own words) and *)
(* the usage it reports.  A tool call that is "whole" is streamed without     *)
(* fragments; a "late" one names its function after its first fragment.       *)
Content(item) == FlattenSeq(item.chunks)
Arguments(item) == IF item.chunks = <<>> THEN <<"{}">> ELSE Content(item)

OfKind(answer, kind) == SelectSeq(answer.items, LAMBDA it : it.kind = kind)
ContentOf(answer, kind) ==
    LET items == OfKind(answer, kind) IN
    FlattenSeq([k \in DOMAIN items |-> Content(items[k])])
Signatures(answer) ==
    {it.sig : it \in {x \in ToSet(OfKind(answer, "reasoning")) : x.sig # <<>>}}

(* The status a Responses upstream gives an answer with this stop reason.     *)
Status(up, stop) ==
    IF up # Responses \/ stop = "" THEN "completed"
    ELSE IF stop = "failed" THEN "failed" ELSE "incomplete"

DecodeResult(up, answer) ==
    LET tools == OfKind(answer, "tool") IN
    [text |-> ContentOf(answer, "text"), reasoning |-> ContentOf(answer, "reasoning"),
     tools |-> [k \in DOMAIN tools |->
                  [id |-> tools[k].id, name |-> tools[k].name, kind |-> "function",
                   args |-> Remarshal(Arguments(tools[k]))]],
     stop |-> answer.stop, status |-> Status(up, answer.stop), usage |-> answer.usage]

(* A call under the public name and kind of its tool, with the arguments the   *)
(* client gets; a tool_search call has no name.                               *)
RestoreTool(aliases, tool) ==
    LET alias == aliases[tool.name] IN
    IF tool.name \notin DOMAIN aliases THEN tool
    ELSE [tool EXCEPT !.kind = alias.kind,
                      !.name = IF alias.kind = "tool_search" THEN "" ELSE alias.name,
                      !.args = IF alias.kind = "custom" THEN AliasedInput(@) ELSE @]

RestoreCanonicalToolAliases(aliases, result) ==
    [result EXCEPT !.tools =
        [k \in DOMAIN result.tools |-> RestoreTool(aliases, result.tools[k])]]

-----------------------------------------------------------------------------
(* The client's reading of a response: what it says, calls and why it ends.   *)
Reading(result, stop, signatures) ==
    [text |-> result.text, reasoning |-> result.reasoning, sigs |-> signatures,
     tools |-> result.tools, stop |-> stop, usage |-> result.usage]

CanonicalChatResponse(result) ==
    Reading(result, ChatStop(result.tools # <<>>, result.stop), {})

CanonicalResponsesResponse(result) ==
    Reading(result, IncompleteReason(result.status, result.stop), {})

CanonicalMessagesResponse(ad, result) ==
    Reading(IF ad.thinking THEN result ELSE [result EXCEPT !.reasoning = <<>>],
            MessagesStop(result.tools # <<>>, result.stop), {})

(* Positions at which one of the stop sequences begins, counted from zero.    *)
Starts(stops, text) ==
    {at \in 0..Len(text) : \E q \in ToSet(stops) :
        at + Len(q) =< Len(text) /\ SubSeq(text, at + 1, at + Len(q)) = q}
StopAt(stops, text) == Min(Starts(stops, text))

(* applyStopSequences, for answers whose text is in one block: the text before *)
(* the first stop sequence, and of the other items those before that text,     *)
(* but nothing at all when the text begins with the stop sequence.             *)
ApplyStopSequences(stops, answer) ==
    LET k == CHOOSE j \in DOMAIN answer.items : answer.items[j].kind = "text"
        text == Content(answer.items[k])
        kept == [answer.items[k] EXCEPT !.chunks = <<SubSeq(text, 1, StopAt(stops, text))>>]
    IN  [answer EXCEPT !.items = IF StopAt(stops, text) = 0 THEN <<>>
                                 ELSE Append(SubSeq(@, 1, k - 1), kept)]

(* anthropic.NormalizeResponseWithOptions and responseContent.                *)
NormalizeResponse(ad, answer) ==
    LET stopped == Starts(ad.stops, ContentOf(answer, "text")) # {}
        shown == IF stopped THEN ApplyStopSequences(ad.stops, answer) ELSE answer
        result == DecodeResult(Responses, shown)
        stop == IF stopped THEN "stop_sequence"
                ELSE IF answer.stop = "max_output_tokens" THEN "max_tokens"
                ELSE IF result.tools # <<>> THEN "tool_use" ELSE "end_turn"
    IN  Reading(IF ad.thinking THEN result ELSE [result EXCEPT !.reasoning = <<>>],
                stop, IF ad.thinking THEN Signatures(shown) ELSE {})

NativePair(ad) == ad.client = ad.up

(* The native pairs keep the upstream's payload; only the aliases of a        *)
(* Responses client are undone.                                               *)
NativeResponse(ad, answer) ==
    LET result == DecodeResult(ad.up, answer) IN
    Reading(RestoreCanonicalToolAliases(ad.aliases, result),
            IF ad.up = Responses /\ answer.stop = "failed" THEN "" ELSE answer.stop,
            IF ad.up = Chat THEN {} ELSE Signatures(answer))

(* A Responses payload that says it failed, although the HTTP request did not. *)
ResponsesPayloadFailed(ad, answer) ==
    ad.up = Responses /\ Status(ad.up, answer.stop) = "failed"

(* anthropic.Error and openai.Error: no answer at all.                        *)
ErrorResponse ==
    Reading([text |-> <<>>, reasoning |-> <<>>, tools |-> <<>>, usage |-> NoUsage], "error", {})

(* "Cross-protocol adapters must not turn that payload into an empty,          *)
(* successful Chat completion or Anthropic message": it becomes an error of    *)
(* the client's protocol.  The others are decoded and encoded again.          *)
AdaptBackendResponse(ad, answer) ==
    LET result == RestoreCanonicalToolAliases(ad.aliases, DecodeResult(ad.up, answer)) IN
    IF ad.client # Responses /\ ResponsesPayloadFailed(ad, answer) THEN ErrorResponse
    ELSE IF NativePair(ad) THEN NativeResponse(ad, answer)
    ELSE IF ad.client = Messages /\ ad.up = Responses THEN NormalizeResponse(ad, answer)
    ELSE IF ad.client = Chat THEN CanonicalChatResponse(result)
    ELSE IF ad.client = Messages THEN CanonicalMessagesResponse(ad, result)
    ELSE CanonicalResponsesResponse(result)
=============================================================================
