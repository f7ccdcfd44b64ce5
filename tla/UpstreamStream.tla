--------------------------- MODULE UpstreamStream ---------------------------
(***************************************************************************)
(* The upstream's side of a stream: the events in which each of its three  *)
(* dialects tells an answer.  Not code of the repository: the shapes are   *)
(* those the decoders in src/internal/server/backend_stream.go read.       *)
(*                                                                         *)
(* A stream has a head, one part for each item of the answer and a tail.   *)
(* Within a part the order is fixed; the parts of a Chat or Responses      *)
(* stream may interleave, those of a Messages stream do not.               *)
(***************************************************************************)
EXTENDS BackendStream

Deltas(item, event(_)) == [k \in DOMAIN item.chunks |-> event(item.chunks[k])]

(* Chat: chunks with a piece of text, of reasoning or of a call.              *)
ChatPart(answer, k) ==
    LET item == answer.items[k]
        tool == Cardinality({j \in 1..k-1 : answer.items[j].kind = "tool"})
        pieces == IF item.chunks = <<>> THEN <<Arguments(item)>> ELSE item.chunks
        named == IF item.late THEN 2 ELSE 1
        call(j) == [Event("chunk") EXCEPT !.calls =
                       <<[i |-> tool, id |-> IF j = 1 THEN item.id ELSE "",
                          name |-> IF j = named THEN item.name ELSE "", d |-> pieces[j]]>>]
    IN  CASE item.kind = "text" -> Deltas(item, LAMBDA d : [Event("chunk") EXCEPT !.d = d])
          [] item.kind = "reasoning" -> Deltas(item, LAMBDA d : [Event("chunk") EXCEPT !.rsn = d])
          [] OTHER -> [j \in DOMAIN pieces |-> call(j)]

ChatTail(answer) ==
    If(answer.stop # "", [Event("chunk") EXCEPT !.stop = answer.stop])
    \o <<[Event("chunk") EXCEPT !.usage = answer.usage], Event("[DONE]")>>

(* Responses: an item is added, told in deltas, ended and given once more.    *)
ResponsesItem(item) ==
    CASE item.kind = "text" -> MessageItem(Content(item))
      [] item.kind = "reasoning" -> ReasoningItem(Content(item), item.sig)
      [] OTHER -> Item("function_call", item.id, item.name, Arguments(item), <<>>)

ResponsesPart(answer, k) ==
    LET item == answer.items[k]
        i == k - 1
        whole == ResponsesItem(item)
        empty == [whole EXCEPT !.d = IF item.kind = "tool" /\ item.whole THEN @ ELSE <<>>,
                               !.sig = <<>>]
        told == CASE item.kind = "text" ->
                        <<OnItem("response.content_part.added", i, <<>>)>>
                        \o Deltas(item, LAMBDA d : OnItem("response.output_text.delta", i, d))
                        \o <<OnItem("response.output_text.done", i, whole.d),
                             OnItem("response.content_part.done", i, whole.d)>>
                  [] item.kind = "reasoning" ->
                        <<OnItem("response.reasoning_summary_part.added", i, <<>>)>>
                        \o Deltas(item, LAMBDA d :
                                    OnItem("response.reasoning_summary_text.delta", i, d))
                        \o <<OnItem("response.reasoning_summary_text.done", i, whole.d),
                             OnItem("response.reasoning_summary_part.done", i, whole.d)>>
                  [] OTHER ->
                        (IF item.whole THEN <<>>
                         ELSE Deltas(item, LAMBDA d :
                                OnItem("response.function_call_arguments.delta", i, d)))
                        \o <<OnItem("response.function_call_arguments.done", i, whole.d)>>
    IN  <<Added(i, empty)>> \o told \o <<Done(i, whole)>>

ResponsesTail(answer) ==
    LET name == CASE answer.stop = "" -> "response.completed"
                  [] answer.stop = "failed" -> "response.failed"
                  [] OTHER -> "response.incomplete"
        items == [k \in DOMAIN answer.items |-> ResponsesItem(answer.items[k])]
    IN  <<[Event(name) EXCEPT !.id = "resp_up", !.items = items, !.usage = answer.usage,
                              !.stop = IF answer.stop = "failed" THEN "" ELSE answer.stop],
          Event("[DONE]")>>

(* Messages: one block at a time; a signature comes in fragments.             *)
MessagesPart(answer, k) ==
    LET item == answer.items[k]
        on(name, type, d) == [Event(name) EXCEPT !.i = k - 1, !.type = type, !.d = d]
        deltas(type) == Deltas(item, LAMBDA d : on("content_block_delta", type, d))
        stop == <<on("content_block_stop", "", <<>>)>>
    IN  CASE item.kind = "text" ->
                <<on("content_block_start", "text", <<>>)>> \o deltas("text_delta") \o stop
          [] item.kind = "reasoning" ->
                <<on("content_block_start", "thinking", <<>>)>> \o deltas("thinking_delta")
                \o [j \in DOMAIN item.sig |->
                        on("content_block_delta", "signature_delta", <<item.sig[j]>>)] \o stop
          [] OTHER ->
                <<[on("content_block_start", "tool_use",
                      IF item.whole THEN Arguments(item) ELSE <<"{}">>)
                        EXCEPT !.id = item.id, !.name = item.name]>>
                \o (IF item.whole THEN <<>> ELSE deltas("input_json_delta")) \o stop

MessagesTail(answer) ==
    <<[Event("message_delta") EXCEPT !.stop = answer.stop,
            !.usage = [input |-> 0, output |-> answer.usage.output]],
      Event("message_stop")>>

Opening(up, answer) ==
    CASE up = Responses -> <<[Event("response.created") EXCEPT !.id = "resp_up"], Event(Private)>>
      [] up = Messages -> <<[Event("message_start") EXCEPT !.usage =
                                [input |-> answer.usage.input, output |-> 0]], Event(Private)>>
      [] OTHER -> <<>>

(* Part 0 is the head, part n + 1 the tail of an answer with n items.         *)
Part(up, answer, k) ==
    IF k = 0 THEN Opening(up, answer)
    ELSE IF k =< Len(answer.items)
    THEN CASE up = Responses -> ResponsesPart(answer, k) [] up = Messages -> MessagesPart(answer, k)
           [] OTHER -> ChatPart(answer, k)
    ELSE CASE up = Responses -> ResponsesTail(answer) [] up = Messages -> MessagesTail(answer)
           [] OTHER -> ChatTail(answer)
=============================================================================
