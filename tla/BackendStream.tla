--------------------------- MODULE BackendStream ---------------------------
(***************************************************************************)
(* internal/server/backend_stream.go: the backendStreamAdapter.  Handle    *)
(* decodes an event of any of the three upstream dialects into atoms and   *)
(* encodes them for the client's protocol; the three native pairs pass     *)
(* events through; Finish ends a stream whose upstream closed.             *)
(*                                                                         *)
(* ad is the adapter's configuration: client and up (the two protocols),   *)
(* aliases of tools, cli (a native CLI client), thinking and stops (the    *)
(* options of a Messages request).  s is the state of one adapter.  An     *)
(* operator that handles something returns [s, out]: the state after it    *)
(* and the events for the client.                                          *)
(***************************************************************************)
EXTENDS StreamTranslator

None == -1

NewBackendStreamAdapter ==
    [terminal |-> FALSE, success |-> FALSE, sawTool |-> FALSE, id |-> "resp_own",
     usage |-> NoUsage, stop |-> "",
     roleSent |-> FALSE, chatArgs |-> <<>>,
     created |-> FALSE, message |-> None, text |-> <<>>, reason |-> None,
     reasoning |-> <<>>, next |-> 0, tools |-> <<>>, args |-> <<>>, toolIndex |-> <<>>,
     toolDone |-> {}, nativeAliases |-> <<>>, nativeArgs |-> <<>>,
     started |-> FALSE, blocks |-> <<>>, blockNext |-> 0,
     upChat |-> <<>>, upBlocks |-> <<>>, translator |-> NewStreamTranslator]

Nothing(s) == [s |-> s, out |-> <<>>]
Failed(s) == [s |-> [s EXCEPT !.terminal = TRUE, !.success = FALSE],
              out |-> <<Event("error")>>]

MergeUsage(current, next) ==
    [input |-> IF next.input # 0 THEN next.input ELSE current.input,
     output |-> IF next.output # 0 THEN next.output ELSE current.output]

-----------------------------------------------------------------------------
(* Decoding: an upstream event as a sequence of atoms.                        *)
Atom(kind) ==
    [kind |-> kind, i |-> 0, id |-> "", name |-> "", toolKind |-> "function", d |-> <<>>,
     args |-> NoValue, usage |-> NoUsage, stop |-> "", status |-> ""]
TextAtom(kind, d) == [Atom(kind) EXCEPT !.d = d]
ToolAtom(kind, ev) == [Atom(kind) EXCEPT !.i = ev.i, !.id = ev.id, !.name = ev.name]
If(condition, atom) == IF condition THEN <<atom>> ELSE <<>>

(* Wrong variant: arguments that come before the name are forgotten.          *)
ChatToolCallUnbuffered(r, call) ==
    LET old == Lookup(r.tools, call.i, [id |-> "", name |-> "", started |-> FALSE, pending |-> <<>>])
        started == old.started \/ call.name # ""
    IN  [tools |-> Put(r.tools, call.i, [old EXCEPT !.id = Present(call.id, @), !.started = started]),
         atoms |-> r.atoms
            \o If(started /\ ~old.started, [Atom("toolStart") EXCEPT
                    !.i = call.i, !.id = Present(call.id, old.id), !.name = call.name])
            \o If(started /\ call.d # <<>>, [Atom("toolDelta") EXCEPT !.i = call.i, !.d = call.d])]

(* A fragment of a Chat tool call.  Arguments that come before the name of     *)
(* the function wait for it.                                                  *)
ChatToolCall(r, call) ==
    LET new == [id |-> "", name |-> "", started |-> FALSE, pending |-> <<>>]
        old == Lookup(r.tools, call.i, new)
        named == [old EXCEPT !.id = Present(call.id, @), !.name = Present(call.name, @),
                             !.pending = IF old.started THEN @ ELSE @ \o call.d]
        starts == ~old.started /\ named.name # ""
        sent == IF old.started THEN call.d ELSE named.pending
    IN  [tools |-> Put(r.tools, call.i,
                       IF starts THEN [named EXCEPT !.started = TRUE, !.pending = <<>>] ELSE named),
         atoms |-> r.atoms
            \o If(starts, [Atom("toolStart") EXCEPT !.i = call.i, !.id = named.id,
                                                    !.name = named.name])
            \o If((starts \/ old.started) /\ sent # <<>>,
                  [Atom("toolDelta") EXCEPT !.i = call.i, !.d = sent])]

DecodeChat(s, ev) ==
    LET calls == FoldLeft(ChatToolCall, [tools |-> s.upChat, atoms |-> <<>>], ev.calls)
        atoms == If(ev.usage # NoUsage, [Atom("usage") EXCEPT !.usage = ev.usage])
              \o If(ev.d # <<>>, TextAtom("text", ev.d))
              \o If(ev.rsn # <<>>, TextAtom("reasoning", ev.rsn))
              \o calls.atoms
              \o If(ev.stop # "", [Atom("usage") EXCEPT !.stop = ev.stop])
    IN  CASE ev.e = "[DONE]" ->
                [s |-> s, atoms |-> <<[Atom("terminal") EXCEPT !.status = "completed"]>>]
          [] ev.e = "error" -> [s |-> s, atoms |-> <<Atom("error")>>]
          [] OTHER -> [s |-> [s EXCEPT !.upChat = calls.tools], atoms |-> atoms]

IsCall(ev) == ev.type \in {"function_call", "custom_tool_call"}
ResponseStatus ==
    [e \in {"response.completed", "response.incomplete", "response.failed"} |->
        CASE e = "response.completed" -> "completed" [] e = "response.failed" -> "failed"
          [] OTHER -> "incomplete"]

DecodeResponses(s, ev) ==
    [s |-> s, atoms |->
        CASE ev.e = "response.output_text.delta" -> <<TextAtom("text", ev.d)>>
          [] ev.e = "response.reasoning_summary_text.delta" -> <<TextAtom("reasoning", ev.d)>>
          [] ev.e = "response.output_item.added" -> If(IsCall(ev), ToolAtom("toolStart", ev))
          [] ev.e = "response.function_call_arguments.delta" ->
                <<[ToolAtom("toolDelta", ev) EXCEPT !.d = ev.d]>>
          [] ev.e = "response.output_item.done" ->
                If(IsCall(ev), [ToolAtom("toolDone", ev) EXCEPT !.args = Remarshal(ev.d)])
          [] ev.e \in DOMAIN ResponseStatus ->
                <<[Atom("usage") EXCEPT !.usage = ev.usage],
                  [Atom("terminal") EXCEPT !.status = ResponseStatus[ev.e], !.stop = ev.stop]>>
          [] ev.e = "error" -> <<Atom("error")>>
          [] OTHER -> <<>>]

(* The arguments at the end of a tool_use block: its initial input, unless     *)
(* fragments replaced it.                                                     *)
BlockInput(block) == IF block.saw THEN NoValue ELSE block.input

DecodeMessages(s, ev) ==
    LET block == Lookup(s.upBlocks, ev.i, [kind |-> "", input |-> NoValue, saw |-> FALSE])
        opened == [s EXCEPT !.upBlocks = Put(@, ev.i,
                      [kind |-> ev.type, input |-> IF ev.type = "tool_use" THEN ev.d ELSE NoValue,
                       saw |-> FALSE])]
        isInput == ev.e = "content_block_delta" /\ ev.type = "input_json_delta"
    IN  [s |-> CASE ev.e = "content_block_start" -> opened
                 [] isInput -> [s EXCEPT !.upBlocks = Put(@, ev.i, [block EXCEPT !.saw = TRUE])]
                 [] ev.e = "content_block_stop" -> [s EXCEPT !.upBlocks = Without(@, ev.i)]
                 [] OTHER -> s,
         atoms |->
            CASE ev.e \in {"message_start", "message_delta"} ->
                    <<[Atom("usage") EXCEPT !.usage = ev.usage, !.stop = ev.stop]>>
              [] ev.e = "content_block_start" /\ ev.type = "tool_use" ->
                    <<ToolAtom("toolStart", ev)>>
              [] isInput -> <<[Atom("toolDelta") EXCEPT !.i = ev.i, !.d = ev.d]>>
              [] ev.type \in {"text", "text_delta"} -> <<TextAtom("text", ev.d)>>
              [] ev.type \in {"thinking", "thinking_delta"} -> <<TextAtom("reasoning", ev.d)>>
              [] ev.e = "content_block_stop" ->
                    If(block.kind = "tool_use",
                       [Atom("toolDone") EXCEPT !.i = ev.i, !.args = BlockInput(block)])
              [] ev.e = "message_stop" ->
                    <<[Atom("terminal") EXCEPT !.status = "completed"]>>
              [] ev.e = "error" -> <<Atom("error")>>
              [] OTHER -> <<>>]

DecodeStreamAtoms(ad, s, ev) ==
    CASE ad.up = Responses -> DecodeResponses(s, ev)
      [] ad.up = Messages -> DecodeMessages(s, ev)
      [] OTHER -> DecodeChat(s, ev)

-----------------------------------------------------------------------------
(* encodeChat.                                                                *)
EndsWell(a) == a.status \in {"completed", "incomplete"}

ChatTerminal(s, a) ==
    LET ended == [s EXCEPT !.terminal = TRUE, !.success = EndsWell(a)] IN
    IF ~EndsWell(a) THEN Failed(s)
    ELSE [s |-> ended,
          out |-> <<[Event("chunk") EXCEPT !.usage = s.usage,
                        !.stop = ChatStop(s.sawTool, Present(a.stop, s.stop))]>>]

(* The arguments a chunk carries: of a finished call only what the fragments   *)
(* so far leave out, and nothing when they are not a prefix of the whole.     *)
MissingSuffix(old, a) ==
    IF a.kind # "toolDone" \/ a.args = NoValue THEN a.d
    ELSE IF IsPrefix(old, a.args) THEN SubSeq(a.args, Len(old) + 1, Len(a.args))
    ELSE <<>>

ChatDelta(s, a) ==
    LET isTool == a.kind \in {"toolStart", "toolDelta", "toolDone"}
        old == Lookup(s.chatArgs, a.i, <<>>)
        chunk == [Event("chunk") EXCEPT
                    !.type = IF s.roleSent THEN "" ELSE "assistant",
                    !.d = IF a.kind = "text" THEN a.d ELSE <<>>,
                    !.rsn = IF a.kind = "reasoning" THEN a.d ELSE <<>>,
                    !.calls = If(isTool, [i |-> a.i, id |-> a.id, name |-> a.name,
                                          d |-> MissingSuffix(old, a)])]
        args == CASE a.kind = "toolDone" -> Without(s.chatArgs, a.i)
                  [] isTool -> Put(s.chatArgs, a.i, old \o a.d)
                  [] OTHER -> s.chatArgs
    IN  [s |-> [s EXCEPT !.roleSent = TRUE, !.chatArgs = args], out |-> <<chunk>>]

EncodeChat(s, a) ==
    CASE a.kind = "error" -> Failed(s)
      [] a.kind = "usage" -> Nothing(s)
      [] a.kind = "terminal" -> ChatTerminal(s, a)
      [] OTHER -> ChatDelta(s, a)

-----------------------------------------------------------------------------
(* encodeResponses.                                                           *)
Hidden(kind) == kind \in {"custom", "tool_search"}
OnItem(name, i, d) == [Event(name) EXCEPT !.i = i, !.d = d]
ItemEvent(name, i, item) ==
    [OnItem(name, i, item.d) EXCEPT !.type = item.type, !.id = item.id, !.name = item.name,
                                    !.sig = item.sig]
Added(i, item) == ItemEvent("response.output_item.added", i, item)
Done(i, item) == ItemEvent("response.output_item.done", i, item)
MessageItem(text) == Item("message", "", "", text, <<>>)
ReasoningItem(text, sig) == Item("reasoning", "", "", text, sig)

(* responseToolItem.                                                          *)
ResponseToolItem(call) ==
    Item(CASE call.kind = "custom" -> "custom_tool_call"
           [] call.kind = "tool_search" -> "tool_search_call" [] OTHER -> "function_call",
         call.id, IF call.kind = "tool_search" THEN "" ELSE call.name, call.args, <<>>)

ResponsesText(s, a) ==
    LET new == s.message = None
        i == IF new THEN s.next ELSE s.message
    IN  [s |-> [s EXCEPT !.message = i, !.next = IF new THEN @ + 1 ELSE @, !.text = @ \o a.d],
         out |-> (IF new THEN <<Added(i, MessageItem(<<>>)),
                                OnItem("response.content_part.added", i, <<>>)>> ELSE <<>>)
                 \o <<OnItem("response.output_text.delta", i, a.d)>>]

ResponsesReasoning(s, a) ==
    LET new == s.reason = None
        i == IF new THEN s.next ELSE s.reason
    IN  [s |-> [s EXCEPT !.reason = i, !.next = IF new THEN @ + 1 ELSE @,
                         !.reasoning = @ \o a.d],
         out |-> (IF new THEN <<Added(i, ReasoningItem(<<>>, <<>>)),
                                OnItem("response.reasoning_summary_part.added", i, <<>>)>> ELSE <<>>)
                 \o <<OnItem("response.reasoning_summary_text.delta", i, a.d)>>]

ResponsesToolStart(s, a) ==
    LET call == [id |-> a.id, name |-> a.name, kind |-> a.toolKind, args |-> <<>>] IN
    IF a.i \in DOMAIN s.tools
    THEN Nothing([s EXCEPT !.tools[a.i].id = Present(a.id, @), !.tools[a.i].name = Present(a.name, @)])
    ELSE [s |-> [s EXCEPT !.tools = Put(@, a.i, call), !.args = Put(@, a.i, <<>>),
                          !.toolIndex = Put(@, a.i, s.next), !.next = @ + 1],
          out |-> <<Added(s.next, ResponseToolItem(call))>>]

ResponsesToolDelta(s, a) ==
    IF a.i \notin DOMAIN s.tools THEN Nothing(s)
    ELSE [s |-> [s EXCEPT !.args[a.i] = @ \o a.d],
          out |-> If(~Hidden(s.tools[a.i].kind),
                     OnItem("response.function_call_arguments.delta", s.toolIndex[a.i], a.d))]

(* finishResponseTool: a second end of a call does nothing.                   *)
FinishResponseTool(s, a) ==
    LET old == s.tools[a.i]
        raw == IF a.args # NoValue THEN a.args ELSE s.args[a.i]
        args == IF old.kind = "custom" THEN AliasedInput(raw)
                ELSE IF raw = <<>> THEN <<"{}">> ELSE Remarshal(raw)
        call == [old EXCEPT !.name = Present(a.name, @), !.id = Present(a.id, @), !.args = args]
        i == s.toolIndex[a.i]
        closing == CASE old.kind = "custom" ->
                            <<OnItem("response.custom_tool_call_input.delta", i, args),
                              OnItem("response.custom_tool_call_input.done", i, args)>>
                     [] old.kind = "tool_search" -> <<>>
                     [] OTHER -> <<OnItem("response.function_call_arguments.done", i, args)>>
    IN  IF a.i \in s.toolDone \/ a.i \notin DOMAIN s.tools THEN Nothing(s)
        ELSE [s |-> [s EXCEPT !.tools[a.i] = call, !.toolDone = @ \cup {a.i}],
              out |-> closing \o <<Done(i, ResponseToolItem(call))>>]

Then(r, next) == [s |-> next.s, out |-> r.out \o next.out]

(* The call that was given output index n, if one was.                       *)
FinishNumber(r, n) ==
    LET mine == {i \in DOMAIN r.s.tools : r.s.toolIndex[i] = n} IN
    IF mine = {} THEN r
    ELSE Then(r, FinishResponseTool(r.s, [Atom("toolDone") EXCEPT !.i = CHOOSE i \in mine : TRUE]))

(* finalizeResponsesOutput: the text, the reasoning, then the calls that are   *)
(* still open in the order of their output indexes.                           *)
FinalizeResponsesOutput(s) ==
    LET text == IF s.message = None THEN <<>>
                ELSE <<OnItem("response.output_text.done", s.message, s.text),
                       OnItem("response.content_part.done", s.message, s.text),
                       Done(s.message, MessageItem(s.text))>>
        reasoning == IF s.reason = None THEN <<>>
                     ELSE <<OnItem("response.reasoning_summary_text.done", s.reason, s.reasoning),
                            OnItem("response.reasoning_summary_part.done", s.reason, s.reasoning),
                            Done(s.reason, ReasoningItem(s.reasoning, <<>>))>>
    IN  FoldLeft(FinishNumber, [s |-> s, out |-> text \o reasoning], Numbers(s.next))

(* responsesOutputItems: the items of the final response by output index; each *)
(* of the first s.next indexes is that of one item.                            *)
OutputItem(s, n) ==
    IF n = s.message THEN MessageItem(s.text)
    ELSE IF n = s.reason THEN ReasoningItem(s.reasoning, <<>>)
    ELSE ResponseToolItem(s.tools[CHOOSE i \in DOMAIN s.tools : s.toolIndex[i] = n])
ResponsesOutputItems(s) == [k \in 1..s.next |-> OutputItem(s, k - 1)]

ResponsesTerminal(s, a) ==
    LET r == FinalizeResponsesOutput(s)
        reason == IncompleteReason(a.status, Present(a.stop, s.stop))
        name == IF reason = "" THEN "response.completed" ELSE "response.incomplete"
    IN  [s |-> [r.s EXCEPT !.terminal = TRUE, !.success = EndsWell(a)],
         out |-> Append(r.out, [Event(name) EXCEPT !.id = s.id, !.stop = reason,
                    !.usage = s.usage, !.items = ResponsesOutputItems(r.s)])]

EncodeResponses(s, a) ==
    LET first == ~s.created /\ a.kind # "usage"
        start == [s |-> [s EXCEPT !.created = @ \/ first],
                  out |-> If(first, [Event("response.created") EXCEPT !.id = s.id])]
        body == CASE a.kind = "text" -> ResponsesText(start.s, a)
                  [] a.kind = "reasoning" -> ResponsesReasoning(start.s, a)
                  [] a.kind = "toolStart" -> ResponsesToolStart(start.s, a)
                  [] a.kind = "toolDelta" -> ResponsesToolDelta(start.s, a)
                  [] a.kind = "toolDone" -> FinishResponseTool(start.s, a)
                  [] a.kind = "terminal" -> ResponsesTerminal(start.s, a)
                  [] OTHER -> Nothing(start.s)
    IN  IF a.kind = "error" THEN Failed(s) ELSE Then(start, body)

-----------------------------------------------------------------------------
(* encodeMessages, which only a Chat upstream reaches: the blocks of tools     *)
(* stay open until the end of the message.                                    *)
MessageBlock(s, key, type, id, name) ==
    LET known == {i \in DOMAIN s.blocks : s.blocks[i] = key} IN
    IF known # {} THEN [s |-> s, out |-> <<>>, i |-> CHOOSE i \in known : TRUE]
    ELSE [s |-> [s EXCEPT !.blocks = Put(@, s.blockNext, key), !.blockNext = @ + 1],
          out |-> <<[Event("content_block_start") EXCEPT !.i = s.blockNext, !.type = type,
                        !.id = id, !.name = name,
                        !.d = IF type = "tool_use" THEN <<"{}">> ELSE <<>>]>>,
          i |-> s.blockNext]

MessagesDelta(s, key, type, a) ==
    LET block == MessageBlock(s, key, key[1], "", "") IN
    [s |-> block.s,
     out |-> block.out \o <<[Event("content_block_delta") EXCEPT
                                !.i = block.i, !.type = type, !.d = a.d]>>]

(* The block with index n, if it is open.                                     *)
StopNumber(r, n) ==
    IF n \notin DOMAIN r.s.blocks THEN r
    ELSE Then(r, [s |-> [r.s EXCEPT !.blocks = Without(@, n)],
                  out |-> <<[Event("content_block_stop") EXCEPT !.i = n]>>])

(* The code closes them in no particular order.                               *)
MessagesTerminal(s, a) ==
    LET r == FoldLeft(StopNumber, Nothing(s), Numbers(s.blockNext))
        stop == MessagesStop(s.sawTool, Present(a.stop, s.stop))
    IN  [s |-> [r.s EXCEPT !.terminal = TRUE, !.success = TRUE],
         out |-> r.out \o <<[Event("message_delta") EXCEPT !.stop = stop, !.usage = s.usage],
                            Event("message_stop")>>]

EncodeMessages(ad, s, a) ==
    LET first == ~s.started /\ a.kind # "usage"
        start == [s |-> [s EXCEPT !.started = @ \/ first], out |-> If(first, Event("message_start"))]
        body == CASE a.kind = "text" -> MessagesDelta(start.s, <<"text", 0>>, "text_delta", a)
                  [] a.kind = "reasoning" ->
                        MessagesDelta(start.s, <<"thinking", 0>>, "thinking_delta", a)
                  [] a.kind = "toolStart" ->
                        MessageBlock(start.s, <<"tool_use", a.i>>, "tool_use", a.id, a.name)
                  [] a.kind = "toolDelta" ->
                        MessagesDelta(start.s, <<"tool_use", a.i>>, "input_json_delta", a)
                  [] a.kind = "terminal" -> MessagesTerminal(start.s, a)
                  [] OTHER -> Nothing(start.s)
    IN  IF a.kind = "error" THEN Failed(s)
        ELSE IF a.kind = "reasoning" /\ ~ad.thinking THEN Nothing(s)
        ELSE Then(start, body)

Encode(ad, s, a) ==
    CASE ad.client = Chat -> EncodeChat(s, a)
      [] ad.client = Messages -> EncodeMessages(ad, s, a)
      [] OTHER -> EncodeResponses(s, a)

(* What Handle does for one atom: undo the alias of a tool, remember usage,    *)
(* stop reason and tools, encode.                                             *)
HandleAtom(ad, s, raw) ==
    LET isAlias == raw.name \in DOMAIN ad.aliases
        a == IF ~isAlias THEN raw
             ELSE [raw EXCEPT !.name = ad.aliases[@].name, !.toolKind = ad.aliases[raw.name].kind]
        seen == [s EXCEPT !.usage = MergeUsage(@, a.usage),
                          !.sawTool = @ \/ (a.kind = "toolStart" /\ a.name # ""),
                          !.stop = Present(a.stop, @)]
    IN  Encode(ad, seen, a)

HandleAtoms(ad, s, ev) ==
    LET decoded == DecodeStreamAtoms(ad, s, ev)
        step(r, a) == Then(r, HandleAtom(ad, r.s, a))
    IN  FoldLeft(step, Nothing(decoded.s), decoded.atoms)

-----------------------------------------------------------------------------
(* handleNative.                                                              *)
Private == "private"            \* an event no client knows

HandleNativeChat(s, ev) ==
    LET hasChoice == ev.d # <<>> \/ ev.rsn # <<>> \/ ev.calls # <<>> \/ ev.stop # ""
        chunk == [ev EXCEPT !.type = IF hasChoice /\ ~s.roleSent THEN "assistant" ELSE @]
    IN  CASE ev.e = "[DONE]" ->
                Nothing([s EXCEPT !.terminal = TRUE, !.success = TRUE, !.stop = Present(@, "stop")])
          [] ev.e = "error" -> Failed(s)
          [] OTHER -> [s |-> [s EXCEPT !.roleSent = @ \/ hasChoice, !.stop = Present(ev.stop, @),
                                       !.usage = IF ev.usage = NoUsage THEN @ ELSE ev.usage],
                       out |-> <<chunk>>]

(* restoreResponsesCallAlias, on an item or on an event that carries one.     *)
RestoreCall(ad, item) ==
    LET alias == ad.aliases[item.name] IN
    IF item.type # "function_call" \/ item.name \notin DOMAIN ad.aliases THEN item
    ELSE IF alias.kind = "custom"
         THEN [item EXCEPT !.type = "custom_tool_call", !.name = alias.name, !.d = AliasedInput(@)]
    ELSE IF alias.kind = "tool_search"
         THEN [item EXCEPT !.type = "tool_search_call", !.name = "", !.d = Remarshal(@)]
    ELSE [item EXCEPT !.name = alias.name]

(* Wrong variant: the items of the final response are passed on as they came. *)
RestorePayloadShallow(ad, ev) == RestoreCall(ad, ev)

RestorePayload(ad, ev) ==
    [RestoreCall(ad, ev) EXCEPT !.items = [k \in DOMAIN ev.items |-> RestoreCall(ad, ev.items[k])]]

(* rewriteNativeResponsesToolEvent: the fragments of custom and tool_search    *)
(* calls are kept back; a custom call is told in one piece when it is done.   *)
RewriteToolEvent(ad, s, ev) ==
    LET alias == Lookup(s.nativeAliases, ev.i, [kind |-> "none", name |-> ""])
        kept == Lookup(s.nativeArgs, ev.i, <<>>)
        input == AliasedInput(IF ev.d # <<>> THEN ev.d ELSE kept)
        isNew == ev.type = "function_call" /\ ev.name \in DOMAIN ad.aliases
        filled == [ev EXCEPT !.d = IF @ = <<>> THEN kept ELSE @]
    IN  CASE ev.e = "response.output_item.added" /\ isNew ->
                [s |-> [s EXCEPT !.nativeAliases = Put(@, ev.i, ad.aliases[ev.name]),
                                 !.nativeArgs = Put(@, ev.i, <<>>)],
                 out |-> <<RestorePayload(ad, ev)>>]
          [] ev.e = "response.function_call_arguments.delta" /\ Hidden(alias.kind) ->
                Nothing([s EXCEPT !.nativeArgs = Put(@, ev.i, kept \o ev.d)])
          [] ev.e = "response.function_call_arguments.done" /\ Hidden(alias.kind) ->
                [s |-> s, out |-> IF alias.kind = "tool_search" THEN <<>>
                                  ELSE <<OnItem("response.custom_tool_call_input.delta", ev.i, input),
                                         OnItem("response.custom_tool_call_input.done", ev.i, input)>>]
          [] OTHER ->
                [s |-> s, out |-> <<RestorePayload(ad, IF ev.e = "response.output_item.done"
                                                       THEN filled ELSE ev)>>]

HandleNativeResponses(ad, s, ev) ==
    LET ended == ev.e \in DOMAIN ResponseStatus \cup {"error"}
        next == [s EXCEPT !.id = Present(IF ended \/ ev.e = "response.created" THEN ev.id ELSE "", @),
                          !.terminal = ended,
                          !.success = ev.e \in {"response.completed", "response.incomplete"}]
    IN  CASE ev.e = "[DONE]" -> Nothing(s)
          [] ev.e = Private -> [s |-> s, out |-> If(ad.cli, ev)]
          [] OTHER -> RewriteToolEvent(ad, next, ev)

HandleNativeMessages(ad, s, ev) ==
    [s |-> [s EXCEPT !.terminal = ev.e \in {"message_stop", "error"},
                     !.success = ev.e = "message_stop"],
     out |-> If(ev.e # Private \/ ad.cli, ev)]

(* handleResponsesToMessages.                                                 *)
HandleResponsesToMessages(ad, s, ev) ==
    LET r == TranslatorHandle(ad, s.translator, ev)
        ended == ev.e \in {"response.completed", "response.incomplete"}
    IN  CASE ev.e = "[DONE]" -> Nothing(s)
          [] ev.e \in {"response.failed", "error"} -> Failed(s)
          [] OTHER -> [s |-> [s EXCEPT !.translator = r.t, !.terminal = ended, !.success = ended],
                       out |-> r.out]

Handle(ad, s, ev) ==
    CASE s.terminal -> Nothing(s)
      [] ad.client = Messages /\ ad.up = Responses -> HandleResponsesToMessages(ad, s, ev)
      [] NativePair(ad) /\ ad.client = Chat -> HandleNativeChat(s, ev)
      [] NativePair(ad) /\ ad.client = Responses -> HandleNativeResponses(ad, s, ev)
      [] NativePair(ad) /\ ad.client = Messages -> HandleNativeMessages(ad, s, ev)
      [] OTHER -> HandleAtoms(ad, s, ev)

(* Wrong variant: a stream that is cut off ends like a complete one.          *)
FinishAsSuccess(ad, s) ==
    IF s.terminal THEN Nothing(s)
    ELSE IF NativePair(ad) THEN [s |-> [s EXCEPT !.terminal = TRUE, !.success = TRUE], out |-> <<>>]
    ELSE Encode(ad, s, [Atom("terminal") EXCEPT !.status = "completed", !.stop = s.stop])

(* Finish: the upstream closed without a terminal event.  A Chat stream that   *)
(* gave its finish_reason is complete; every other one was cut off.           *)
Finish(ad, s) ==
    IF s.terminal THEN Nothing(s)
    ELSE IF ad.up = Chat /\ s.stop # ""
    THEN IF NativePair(ad)
         THEN [s |-> [s EXCEPT !.terminal = TRUE, !.success = TRUE], out |-> <<Event("[DONE]")>>]
         ELSE Encode(ad, s, [Atom("terminal") EXCEPT !.status = "completed", !.stop = s.stop])
    ELSE Failed(s)

=============================================================================
