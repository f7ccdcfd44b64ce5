-------------------------- MODULE StreamTranslator --------------------------
(***************************************************************************)
(* internal/anthropic/stream.go: the StreamTranslator, which turns the     *)
(* events of a Responses stream into the ordered events of a Messages      *)
(* stream, and its filter for stop sequences, which holds back text that   *)
(* may be the beginning of one.                                            *)
(*                                                                         *)
(* An operator takes a record [t, out]: the translator and the events it   *)
(* has produced so far for the upstream event at hand.                     *)
(***************************************************************************)
EXTENDS BackendResponse

NoKey == <<-1, "none">>

NewStreamTranslator ==
    [started |-> FALSE, finished |-> FALSE, next |-> 0, blocks |-> <<>>,
     stopReason |-> "end_turn", stopSequence |-> <<>>, textKey |-> NoKey,
     pending |-> <<>>]

(* eventKey: events that carry a content_index name another block than those  *)
(* that only name the item.                                                   *)
PartEvents == {"response.content_part.added", "response.content_part.done",
               "response.output_text.delta", "response.output_text.done"}
EventKey(ev) == <<ev.i, IF ev.e \in PartEvents THEN "part" ELSE "item">>

-----------------------------------------------------------------------------
(* The longest suffix of the text that could still grow into a stop sequence. *)
HoldBack(stops, text) ==
    Max({0} \cup {n \in 1..Len(text) : \E q \in ToSet(stops) :
            n < Len(q) /\ SubSeq(text, Len(text) - n + 1, Len(text)) = SubSeq(q, 1, n)})

(* streamStopFilter.Push: what to emit, what to keep, what was matched.       *)
Push(stops, pending, value) ==
    LET text == pending \o value
        at == StopAt(stops, text)
        hit == SelectSeq(stops, LAMBDA q : at + Len(q) =< Len(text)
                                           /\ SubSeq(text, at + 1, at + Len(q)) = q)
        keep == HoldBack(stops, text)
    IN  IF Starts(stops, text) # {}
        THEN [emit |-> SubSeq(text, 1, at), pending |-> <<>>, matched |-> Head(hit)]
        ELSE [emit |-> SubSeq(text, 1, Len(text) - keep),
              pending |-> SubSeq(text, Len(text) - keep + 1, Len(text)), matched |-> <<>>]

-----------------------------------------------------------------------------
StartEvent(r) ==
    IF r.t.started THEN r
    ELSE [t |-> [r.t EXCEPT !.started = TRUE],
          out |-> Append(r.out, Event("message_start"))]

OpenBlock(r, key, type, id, name) ==
    IF key \in DOMAIN r.t.blocks THEN r
    ELSE [t |-> [r.t EXCEPT !.next = @ + 1, !.blocks = Put(@, key,
                    [i |-> r.t.next, kind |-> type, args |-> <<>>,
                     sent |-> FALSE, closed |-> FALSE])],
          out |-> Append(r.out, [Event("content_block_start") EXCEPT
                    !.i = r.t.next, !.type = type, !.id = id, !.name = name,
                    !.d = IF type = "tool_use" THEN <<"{}">> ELSE <<>>])]

IsOpen(r, key) == key \in DOMAIN r.t.blocks /\ ~r.t.blocks[key].closed

Delta(r, key, type, d) ==
    IF ~IsOpen(r, key) THEN r
    ELSE [r EXCEPT !.out = Append(@, [Event("content_block_delta") EXCEPT
                                        !.i = r.t.blocks[key].i, !.type = type, !.d = d])]

(* Wrong variant: a block can be closed twice.                                *)
CloseBlockTwice(r, key) ==
    IF key \notin DOMAIN r.t.blocks THEN r
    ELSE [r EXCEPT !.out = Append(@, [Event("content_block_stop") EXCEPT
                                        !.i = r.t.blocks[key].i])]

CloseBlock(r, key) ==
    IF ~IsOpen(r, key) THEN r
    ELSE [t |-> [r.t EXCEPT !.blocks[key].closed = TRUE],
          out |-> Append(r.out, [Event("content_block_stop") EXCEPT !.i = r.t.blocks[key].i])]

FlushText(r, key) ==
    IF r.t.stopSequence # <<>> \/ r.t.pending = <<>> THEN r
    ELSE Delta([r EXCEPT !.t.pending = <<>>], key, "text_delta", r.t.pending)

ToolUse(r) == [r EXCEPT !.t.stopReason = "tool_use"]

-----------------------------------------------------------------------------
ItemAdded(ad, r, ev) ==
    LET key == EventKey(ev)
        opened == OpenBlock(ToolUse(r), key, "tool_use", ev.id, ev.name)
    IN  IF ev.type = "reasoning" /\ ad.thinking THEN OpenBlock(r, key, "thinking", "", "")
        ELSE IF ev.type \in {"function_call", "custom_tool_call"}
             THEN [opened EXCEPT !.t.blocks[key].args = ev.d]
        ELSE r

TextDelta(ad, r, ev) ==
    LET key == EventKey(ev)
        pushed == Push(ad.stops, r.t.pending, ev.d)
        opened == OpenBlock([r EXCEPT !.t.textKey = key, !.t.pending = pushed.pending],
                            key, "text", "", "")
        sent == IF pushed.emit = <<>> THEN opened
                ELSE Delta(opened, key, "text_delta", pushed.emit)
    IN  IF pushed.matched = <<>> THEN sent
        ELSE [sent EXCEPT !.t.stopReason = "stop_sequence", !.t.stopSequence = pushed.matched]

ReasoningDelta(ad, r, ev) ==
    LET key == EventKey(ev) IN
    IF ~ad.thinking THEN r
    ELSE Delta(OpenBlock(StartEvent(r), key, "thinking", "", ""), key, "thinking_delta", ev.d)

ArgumentsDelta(r, ev) ==
    LET key == EventKey(ev)
        opened == IF key \in DOMAIN r.t.blocks THEN r
                  ELSE OpenBlock(ToolUse(r), key, "tool_use", ev.id, ev.name)
    IN  Delta([opened EXCEPT !.t.blocks[key].sent = TRUE], key, "input_json_delta", ev.d)

PartDone(r, ev) ==
    LET key == EventKey(ev)
        isText == key \in DOMAIN r.t.blocks /\ r.t.blocks[key].kind = "text"
    IN  CloseBlock(IF isText THEN FlushText(r, key) ELSE r, key)

(* Arguments that were not streamed in fragments are sent when the call ends. *)
Unsent(r, key, first, second) ==
    LET args == IF first # <<>> THEN first ELSE second
        block == r.t.blocks[key]
    IN  IF key \notin DOMAIN r.t.blocks \/ args = <<>> THEN r
        ELSE IF block.kind # "tool_use" \/ block.sent THEN r
        ELSE Delta([r EXCEPT !.t.blocks[key].sent = TRUE], key, "input_json_delta", args)

ArgumentsDone(r, ev) ==
    LET key == EventKey(ev) IN
    CloseBlock(Unsent(r, key, ev.d, Lookup(r.t.blocks, key, [args |-> <<>>]).args), key)

ItemDone(ad, r, ev) ==
    LET key == EventKey(ev)
        block == Lookup(r.t.blocks, key, [kind |-> "", args |-> <<>>])
        called == Unsent(r, key, block.args, ev.d)
        signed == IF block.kind = "thinking" /\ ad.thinking /\ ev.sig # <<>>
                  THEN Delta(called, key, "signature_delta", ev.sig) ELSE called
    IN  CloseBlock(signed, key)

(* The block that was given index n, if one was.                              *)
CloseNumber(r, n) ==
    LET mine == {k \in DOMAIN r.t.blocks : r.t.blocks[k].i = n} IN
    IF mine = {} THEN r ELSE CloseBlock(r, CHOOSE k \in mine : TRUE)

(* finish: what is still held back or open, then the end of the message.      *)
FinishMessage(r, ev) ==
    LET flushed == IF r.t.textKey = NoKey THEN r ELSE FlushText(r, r.t.textKey)
        closed == FoldLeft(CloseNumber, flushed, Numbers(r.t.next))
        stop == IF r.t.stopSequence = <<>> /\ ev.stop = "max_output_tokens"
                THEN "max_tokens" ELSE r.t.stopReason
    IN  IF r.t.finished THEN r
        ELSE [t |-> [closed.t EXCEPT !.finished = TRUE, !.stopReason = stop],
              out |-> closed.out \o
                      <<[Event("message_delta") EXCEPT !.stop = stop, !.usage = ev.usage],
                        Event("message_stop")>>]

(* StreamTranslator.Handle.  Once a stop sequence was seen, only the end of   *)
(* the response is still looked at.  The adapter passes no failure on to it,  *)
(* it would tell a response that failed as one that is finished.              *)
TranslatorHandle(ad, t, ev) ==
    LET r == [t |-> t, out |-> <<>>]
        started == StartEvent(r)
        ends == {"response.completed", "response.incomplete", "response.failed"}
    IN  CASE t.stopSequence # <<>> /\ ev.e \notin ends -> r
          [] ev.e = "response.created" -> started
          [] ev.e = "response.output_item.added" -> ItemAdded(ad, started, ev)
          [] ev.e = "response.content_part.added" ->
                OpenBlock(started, EventKey(ev), "text", "", "")
          [] ev.e = "response.output_text.delta" -> TextDelta(ad, started, ev)
          [] ev.e = "response.reasoning_summary_text.delta" -> ReasoningDelta(ad, r, ev)
          [] ev.e = "response.function_call_arguments.delta" -> ArgumentsDelta(started, ev)
          [] ev.e \in {"response.content_part.done", "response.output_text.done",
                       "response.reasoning_summary_text.done"} -> PartDone(r, ev)
          [] ev.e = "response.function_call_arguments.done" -> ArgumentsDone(r, ev)
          [] ev.e = "response.output_item.done" -> ItemDone(ad, r, ev)
          [] ev.e \in ends -> FinishMessage(started, ev)
          [] ev.e = "error" -> [t |-> t, out |-> <<Event("error")>>]
          [] OTHER -> r
=============================================================================
