----------------------- MODULE StreamExecutionProofs -----------------------
(***************************************************************************)
(* Proofs about StreamExecution.  First the phases of the loop and the     *)
(* ending the client is told, from the bottom up: sequences, events that   *)
(* say nothing of the end, the translator, the adapter while it runs and   *)
(* at its end, what the upstream says, and on that the steps of the loop.  *)
(* Then what a Responses client is told of tools and of the response's id: *)
(* the events of the adapter, of the native pair, and the steps again.     *)
(***************************************************************************)
EXTENDS StreamExecution, FiniteSetTheorems, TLAPS

-----------------------------------------------------------------------------
(* Sequences whose elements have no type.                                    *)

Listed(seq) == \E T : seq \in Seq(T)

LEMMA IsListed ==
  ASSUME NEW seq, IsList(seq)
  PROVE  Listed(seq)
BY DEF IsList, Listed

LEMMA ListedRange ==
  ASSUME NEW seq, Listed(seq)
  PROVE  seq \in Seq(ToSet(seq))
BY DEF Listed, ToSet

LEMMA ListedOne ==
  /\ Listed(<<>>) /\ ToSet(<<>>) = {}
  /\ \A x : Listed(<<x>>) /\ ToSet(<<x>>) = {x}
  /\ \A x, y : Listed(<<x, y>>) /\ ToSet(<<x, y>>) = {x, y}
<1>1. ASSUME NEW seq, NEW T, seq \in Seq(T)
      PROVE  Listed(seq)
  BY <1>1 DEF Listed
<1> HIDE DEF Listed
<1>2. Listed(<<>>) /\ ToSet(<<>>) = {}
  <2> DEFINE seq == <<>>
             T == {}
  <2>1. seq \in Seq(T) /\ ToSet(seq) = {}
    BY DEF ToSet
  <2> HIDE DEF seq, T
  <2>2. Listed(seq)
    BY <1>1, <2>1
  <2>3. QED
    BY <2>1, <2>2 DEF seq
<1>3. ASSUME NEW x
      PROVE  Listed(<<x>>) /\ ToSet(<<x>>) = {x}
  <2> DEFINE seq == <<x>>
             T == {x}
  <2>1. seq \in Seq(T) /\ ToSet(seq) = {x}
    BY DEF ToSet
  <2> HIDE DEF seq, T
  <2>2. Listed(seq)
    BY <1>1, <2>1
  <2>3. QED
    BY <2>1, <2>2 DEF seq
<1>4. ASSUME NEW x, NEW y
      PROVE  Listed(<<x, y>>) /\ ToSet(<<x, y>>) = {x, y}
  <2> DEFINE seq == <<x, y>>
             T == {x, y}
  <2>1. seq \in Seq(T) /\ ToSet(seq) = {x, y}
    BY DEF ToSet
  <2> HIDE DEF seq, T
  <2>2. Listed(seq)
    BY <1>1, <2>1
  <2>3. QED
    BY <2>1, <2>2 DEF seq
<1>5. QED
  BY <1>2, <1>3, <1>4

LEMMA ListedConcat ==
  ASSUME NEW a, NEW b, Listed(a), Listed(b)
  PROVE  Listed(a \o b) /\ ToSet(a \o b) = ToSet(a) \cup ToSet(b)
<1> DEFINE U == ToSet(a) \cup ToSet(b)
           c == a \o b
<1>1. a \in Seq(U) /\ b \in Seq(U)
  BY ListedRange
<1>2. U = ToSet(a) \cup ToSet(b)
  OBVIOUS
<1> HIDE DEF U
<1>3. /\ c \in Seq(U)
      /\ DOMAIN a \subseteq DOMAIN c /\ \A i \in DOMAIN a : c[i] = a[i]
      /\ \A i \in DOMAIN b : i + Len(a) \in DOMAIN c /\ c[i + Len(a)] = b[i]
  BY <1>1
<1> HIDE DEF c
<1>4. Listed(c) /\ ToSet(c) \subseteq U
  BY <1>3 DEF Listed, ToSet
<1>5. ToSet(a) \subseteq ToSet(c) /\ ToSet(b) \subseteq ToSet(c)
  BY <1>3 DEF ToSet
<1>6. QED
  BY <1>2, <1>4, <1>5 DEF c

LEMMA ListedAppend ==
  ASSUME NEW a, NEW x, Listed(a)
  PROVE  Append(a, x) = a \o <<x>> /\ Listed(Append(a, x)) /\ ToSet(Append(a, x)) = ToSet(a) \cup {x}
<1>1. Append(a, x) = a \o <<x>>
  <2> DEFINE U == ToSet(a) \cup {x}
  <2>1. a \in Seq(U) /\ x \in U
    BY ListedRange
  <2> HIDE DEF U
  <2>2. QED
    BY <2>1
<1>2. QED
  BY <1>1, ListedOne, ListedConcat

LEMMA ListedFunction ==
  ASSUME NEW n \in Nat, NEW f, f = [i \in 1..n |-> f[i]]
  PROVE  Listed(f) /\ Len(f) = n /\ ToSet(f) = {f[i] : i \in 1..n}
<1> DEFINE T == {f[i] : i \in 1..n}
<1>1. \A i \in 1..n : f[i] \in T
  OBVIOUS
<1>2. DOMAIN f = 1..n
  OBVIOUS
<1>3. ToSet(f) = T
  BY <1>2 DEF ToSet
<1> HIDE DEF T
<1>4. f \in Seq(T) /\ Len(f) = n
  BY <1>1
<1>5. QED
  BY <1>3, <1>4 DEF Listed, T

-----------------------------------------------------------------------------
(* Events that say nothing of the end of the stream.                         *)

EndEvents == SuccessEvents \cup FailureEvents
Quiet(out) == Listed(out) /\ \A x \in ToSet(out) : x.e \notin EndEvents

(* Events of which the last one, and no other, is in E.                      *)
Ends(out, E) == \E front, x : out = Append(front, x) /\ Quiet(front) /\ x.e \in E

LEMMA QuietOne ==
  /\ Quiet(<<>>)
  /\ \A x : x.e \notin EndEvents => Quiet(<<x>>)
BY ListedOne DEF Quiet

LEMMA QuietConcat ==
  ASSUME NEW a, NEW b, Quiet(a), Quiet(b)
  PROVE  Quiet(a \o b)
BY ListedConcat DEF Quiet

LEMMA QuietAppend ==
  ASSUME NEW a, NEW x, Quiet(a), x.e \notin EndEvents
  PROVE  Quiet(Append(a, x))
<1> DEFINE b == Append(a, x)
<1>1. Listed(b) /\ ToSet(b) = ToSet(a) \cup {x}
  BY ListedAppend DEF Quiet
<1> HIDE DEF b
<1>2. Quiet(b)
  BY <1>1 DEF Quiet
<1>3. QED
  BY <1>2 DEF b

LEMMA QuietIf ==
  ASSUME NEW x, NEW c, c => x.e \notin EndEvents
  PROVE  Quiet(If(c, x))
BY QuietOne DEF If

(* A beginning of quiet events is quiet.                                     *)
LEMMA QuietPrefix ==
  ASSUME NEW a, Quiet(a), NEW n \in 0..Len(a)
  PROVE  Quiet(SubSeq(a, 1, n))
<1> DEFINE b == SubSeq(a, 1, n)
<1>1. a \in Seq(ToSet(a)) /\ \A x \in ToSet(a) : x.e \notin EndEvents
  BY ListedRange DEF Quiet
<1>2. b \in Seq(ToSet(a))
  BY <1>1
<1> HIDE DEF b
<1>3. Listed(b) /\ ToSet(b) \subseteq ToSet(a)
  BY <1>2 DEF Listed, ToSet
<1>4. QED
  BY <1>1, <1>3 DEF Quiet, b

LEMMA EndsConcat ==
  ASSUME NEW a, NEW b, NEW E, Quiet(a), Ends(b, E)
  PROVE  Ends(a \o b, E)
<1>1. PICK f, x : b = Append(f, x) /\ Quiet(f) /\ x.e \in E
  BY DEF Ends
<1>2. Quiet(a \o f)
  BY <1>1, QuietConcat
<1>3. a \o Append(f, x) = Append(a \o f, x)
  <2> DEFINE U == ToSet(a) \cup ToSet(f) \cup {x}
  <2>1. a \in Seq(U) /\ f \in Seq(U) /\ x \in U
    BY <1>1, ListedRange DEF Quiet
  <2> HIDE DEF U
  <2>2. QED
    BY <2>1
<1>4. QED
  BY <1>1, <1>2, <1>3 DEF Ends

LEMMA EndsOne ==
  ASSUME NEW x, NEW E, x.e \in E
  PROVE  Ends(<<x>>, E)
<1>1. <<x>> = Append(<<>>, x)
  BY ListedOne, ListedAppend
<1>2. QED
  BY <1>1, QuietOne DEF Ends

(* Less than all of such events is quiet.                                    *)
LEMMA EndsPrefix ==
  ASSUME NEW a, NEW E, Ends(a, E), NEW n \in 0..Len(a), n < Len(a)
  PROVE  Quiet(SubSeq(a, 1, n))
<1>1. PICK f, x : a = Append(f, x) /\ Quiet(f) /\ x.e \in E
  BY DEF Ends
<1> DEFINE U == ToSet(f) \cup {x}
<1>2. f \in Seq(U) /\ x \in U
  BY <1>1, ListedRange DEF Quiet
<1> HIDE DEF U
<1>3. Len(a) = Len(f) + 1 /\ Len(f) \in Nat
  BY <1>1, <1>2
<1>4. n \in 0..Len(f)
  BY <1>3
<1>5. SubSeq(a, 1, n) = SubSeq(f, 1, n)
  BY <1>1, <1>2, <1>3, <1>4
<1>6. QED
  BY <1>1, <1>4, <1>5, QuietPrefix

-----------------------------------------------------------------------------
(* The translator while it translates: it does not end the message.          *)

Translating(t) == {"finished", "next"} \subseteq DOMAIN t /\ t.next \in Nat /\ t.finished = FALSE
Going(r) == {"t", "out"} \subseteq DOMAIN r /\ Translating(r.t) /\ Quiet(r.out)

Closing == INSTANCE FoldLemmas WITH Op <- CloseNumber, Good <- Going

LEMMA Names ==
  /\ {"message_start", "content_block_start", "content_block_delta", "content_block_stop",
       "message_delta", "chunk", "response.created", "response.output_item.added",
       "response.output_item.done", "response.content_part.added", "response.content_part.done",
       "response.output_text.delta", "response.output_text.done",
       "response.reasoning_summary_part.added", "response.reasoning_summary_part.done",
       "response.reasoning_summary_text.delta", "response.reasoning_summary_text.done",
       "response.function_call_arguments.delta", "response.function_call_arguments.done",
       "response.custom_tool_call_input.delta", "response.custom_tool_call_input.done",
       Private} \cap EndEvents = {}
BY DEF EndEvents, SuccessEvents, FailureEvents, Private

LEMMA GoesOn ==
  ASSUME NEW r, Going(r), NEW x, x.e \notin EndEvents, NEW t, Translating(t)
  PROVE  Going([t |-> t, out |-> Append(r.out, x)]) /\ Going([r EXCEPT !.out = Append(@, x)])
BY QuietAppend DEF Going

LEMMA StartGoes ==
  ASSUME NEW r, Going(r)
  PROVE  Going(StartEvent(r))
<1>1. Event("message_start").e \notin EndEvents
  BY Names DEF Event
<1>2. Translating([r.t EXCEPT !.started = TRUE])
  BY DEF Going, Translating
<1>3. QED
  BY <1>1, <1>2, GoesOn DEF StartEvent

LEMMA OpenGoes ==
  ASSUME NEW r, Going(r), NEW key, NEW type, NEW id, NEW name
  PROVE  Going(OpenBlock(r, key, type, id, name))
<1> DEFINE x == [Event("content_block_start") EXCEPT
                    !.i = r.t.next, !.type = type, !.id = id, !.name = name,
                    !.d = IF type = "tool_use" THEN <<"{}">> ELSE <<>>]
           t == [r.t EXCEPT !.next = @ + 1, !.blocks = Put(@, key,
                    [i |-> r.t.next, kind |-> type, args |-> <<>>,
                     sent |-> FALSE, closed |-> FALSE])]
<1>1. x.e \notin EndEvents
  BY Names DEF Event
<1>2. Translating(t)
  BY DEF Going, Translating
<1> HIDE DEF x, t
<1>3. Going([t |-> t, out |-> Append(r.out, x)])
  BY <1>1, <1>2, GoesOn
<1>4. QED
  BY <1>3 DEF OpenBlock, x, t

LEMMA DeltaGoes ==
  ASSUME NEW r, Going(r), NEW key, NEW type, NEW d
  PROVE  Going(Delta(r, key, type, d))
<1> DEFINE x == [Event("content_block_delta") EXCEPT !.i = r.t.blocks[key].i, !.type = type, !.d = d]
<1>1. x.e \notin EndEvents
  BY Names DEF Event
<1> HIDE DEF x
<1>2. Going([r EXCEPT !.out = Append(@, x)])
  BY <1>1, GoesOn DEF Going
<1>3. QED
  BY <1>2 DEF Delta, x

LEMMA CloseGoes ==
  ASSUME NEW r, Going(r), NEW key
  PROVE  Going(CloseBlock(r, key))
<1> DEFINE x == [Event("content_block_stop") EXCEPT !.i = r.t.blocks[key].i]
           t == [r.t EXCEPT !.blocks[key].closed = TRUE]
<1>1. x.e \notin EndEvents
  BY Names DEF Event
<1>2. Translating(t)
  BY DEF Going, Translating
<1> HIDE DEF x, t
<1>3. Going([t |-> t, out |-> Append(r.out, x)])
  BY <1>1, <1>2, GoesOn
<1>4. QED
  BY <1>3 DEF CloseBlock, x, t

(* A change of the other fields of the translator.                           *)
LEMMA FieldGoes ==
  ASSUME NEW r, Going(r)
  PROVE  /\ \A v : Going([r EXCEPT !.t.pending = v])
         /\ \A v, w : Going([r EXCEPT !.t.textKey = v, !.t.pending = w])
         /\ \A v, w : Going([r EXCEPT !.t.stopReason = v, !.t.stopSequence = w])
         /\ \A k, v : Going([r EXCEPT !.t.blocks[k].args = v])
         /\ \A k, v : Going([r EXCEPT !.t.blocks[k].sent = v])
         /\ Going(ToolUse(r))
BY DEF Going, Translating, ToolUse

LEMMA FlushGoes ==
  ASSUME NEW r, Going(r), NEW key
  PROVE  Going(FlushText(r, key))
BY FieldGoes, DeltaGoes DEF FlushText

LEMMA UnsentGoes ==
  ASSUME NEW r, Going(r), NEW key, NEW first, NEW second
  PROVE  Going(Unsent(r, key, first, second))
BY FieldGoes, DeltaGoes DEF Unsent

-----------------------------------------------------------------------------
LEMMA ItemAddedGoes ==
  ASSUME NEW r, Going(r), NEW ev
  PROVE  Going(ItemAdded(ad, r, ev))
<1>1. \A key, type, id, name : Going(OpenBlock(r, key, type, id, name))
  BY OpenGoes
<1>2. \A key, type, id, name : Going(OpenBlock(ToolUse(r), key, type, id, name))
  BY OpenGoes, FieldGoes
<1>3. QED
  BY <1>1, <1>2, FieldGoes DEF ItemAdded

LEMMA TextDeltaGoes ==
  ASSUME NEW r, Going(r), NEW ev
  PROVE  Going(TextDelta(ad, r, ev))
<1> DEFINE key == EventKey(ev)
           pushed == Push(ad.stops, r.t.pending, ev.d)
           opened == OpenBlock([r EXCEPT !.t.textKey = key, !.t.pending = pushed.pending],
                               key, "text", "", "")
           sending == IF pushed.emit = <<>> THEN opened
                      ELSE Delta(opened, key, "text_delta", pushed.emit)
<1> HIDE DEF key, pushed
<1>1. Going(opened)
  BY FieldGoes, OpenGoes
<1> HIDE DEF opened
<1>2. Going(sending)
  BY <1>1, DeltaGoes
<1> HIDE DEF sending
<1>3. Going([sending EXCEPT !.t.stopReason = "stop_sequence", !.t.stopSequence = pushed.matched])
  BY <1>2, FieldGoes
<1>4. QED
  BY <1>2, <1>3 DEF TextDelta, sending, opened, pushed, key

LEMMA ReasoningDeltaGoes ==
  ASSUME NEW r, Going(r), NEW ev
  PROVE  Going(ReasoningDelta(ad, r, ev))
BY StartGoes, OpenGoes, DeltaGoes DEF ReasoningDelta

LEMMA ArgumentsDeltaGoes ==
  ASSUME NEW r, Going(r), NEW ev
  PROVE  Going(ArgumentsDelta(r, ev))
<1> DEFINE key == EventKey(ev)
           opened == IF key \in DOMAIN r.t.blocks THEN r
                     ELSE OpenBlock(ToolUse(r), key, "tool_use", ev.id, ev.name)
           marked == [opened EXCEPT !.t.blocks[key].sent = TRUE]
<1> HIDE DEF key
<1>1. Going(opened)
  BY FieldGoes, OpenGoes
<1> HIDE DEF opened
<1>2. Going(marked)
  BY <1>1, FieldGoes
<1> HIDE DEF marked
<1>3. Going(Delta(marked, key, "input_json_delta", ev.d))
  BY <1>2, DeltaGoes
<1>4. QED
  BY <1>3 DEF ArgumentsDelta, marked, opened, key

LEMMA DoneGoes ==
  ASSUME NEW r, Going(r), NEW ev
  PROVE  Going(PartDone(r, ev)) /\ Going(ArgumentsDone(r, ev)) /\ Going(ItemDone(ad, r, ev))
<1>1. Going(PartDone(r, ev))
  BY FlushGoes, CloseGoes DEF PartDone
<1>2. Going(ArgumentsDone(r, ev))
  BY UnsentGoes, CloseGoes DEF ArgumentsDone
<1>3. Going(ItemDone(ad, r, ev))
  BY UnsentGoes, DeltaGoes, CloseGoes DEF ItemDone
<1>4. QED
  BY <1>1, <1>2, <1>3

(* finish closes what is open and ends the message.                          *)
LEMMA NumbersType ==
  ASSUME NEW n \in Nat
  PROVE  Numbers(n) \in Seq(Nat)
BY DEF Numbers

LEMMA ClosedGoes ==
  ASSUME NEW r, Going(r)
  PROVE  Going(FoldLeft(CloseNumber, r, Numbers(r.t.next)))
<1> DEFINE seq == Numbers(r.t.next)
<1>1. seq \in Seq(Nat)
  BY NumbersType DEF Going, Translating
<1>2. \A q : Going(q) => \A n \in Nat : Going(CloseNumber(q, n))
  BY CloseGoes DEF CloseNumber
<1> HIDE DEF seq
<1>3. Going(Closing!Left(r, seq))
  BY <1>1, <1>2, Closing!LeftInvariant
<1>4. FoldLeft(CloseNumber, r, seq) = Closing!Left(r, seq)
  BY DEF FoldLeft, MapThenFoldSet, Closing!Left, Closing!Max, Max
<1>5. QED
  BY <1>3, <1>4 DEF seq

LEMMA FinishEnds ==
  ASSUME NEW r, Going(r), NEW ev
  PROVE  Ends(FinishMessage(r, ev).out, {"message_stop"})
<1> DEFINE flushed == IF r.t.textKey = NoKey THEN r ELSE FlushText(r, r.t.textKey)
           closed == FoldLeft(CloseNumber, flushed, Numbers(r.t.next))
           stop == IF r.t.stopSequence = <<>> /\ ev.stop = "max_output_tokens"
                   THEN "max_tokens" ELSE r.t.stopReason
           x == [Event("message_delta") EXCEPT !.stop = stop, !.usage = ev.usage]
           y == Event("message_stop")
<1>1. Going(flushed) /\ flushed.t.next = r.t.next
  <2>1. Going(FlushText(r, r.t.textKey))
    BY FlushGoes
  <2>2. FlushText(r, r.t.textKey).t.next = r.t.next
    BY DEF FlushText, Delta, Going, Translating
  <2>3. QED
    BY <2>1, <2>2
<1>2. Quiet(closed.out)
  <2> HIDE DEF flushed
  <2>1. QED
    BY <1>1, ClosedGoes DEF Going
<1>3. x.e \notin EndEvents /\ y.e = "message_stop"
  BY Names DEF Event
<1> HIDE DEF closed, x, y
<1>4. Quiet(Append(closed.out, x))
  BY <1>2, <1>3, QuietAppend
<1>5. closed.out \o <<x, y>> = Append(Append(closed.out, x), y)
  <2> DEFINE U == ToSet(closed.out) \cup {x, y}
  <2>2. closed.out \in Seq(U) /\ x \in U /\ y \in U
    BY <1>2, ListedRange DEF Quiet
  <2> HIDE DEF U
  <2>3. QED
    BY <2>2
<1>6. FinishMessage(r, ev).out = closed.out \o <<x, y>>
  BY DEF FinishMessage, Going, Translating, closed, x, y
<1>7. QED
  BY <1>3, <1>4, <1>5, <1>6 DEF Ends

CompletedEvents == {"response.completed", "response.incomplete"}

LEMMA TranslatorGoes ==
  ASSUME NEW t, Translating(t), NEW ev
  PROVE  /\ ev.e \notin CompletedEvents \cup {"response.failed", "error"} => Going(TranslatorHandle(ad, t, ev))
         /\ ev.e \in CompletedEvents => Ends(TranslatorHandle(ad, t, ev).out, {"message_stop"})
<1> DEFINE r == [t |-> t, out |-> <<>>]
           started == StartEvent(r)
<1>1. Going(r)
  BY QuietOne DEF Going
<1> HIDE DEF r
<1>2. Going(started)
  BY <1>1, StartGoes
<1> HIDE DEF started
<1>3. ASSUME ev.e \notin CompletedEvents \cup {"response.failed", "error"}
      PROVE  Going(TranslatorHandle(ad, t, ev))
  <2>1. \A q : Going(q) =>
           /\ Going(ItemAdded(ad, q, ev)) /\ Going(OpenBlock(q, EventKey(ev), "text", "", ""))
           /\ Going(TextDelta(ad, q, ev)) /\ Going(ReasoningDelta(ad, q, ev))
           /\ Going(ArgumentsDelta(q, ev)) /\ Going(PartDone(q, ev))
           /\ Going(ArgumentsDone(q, ev)) /\ Going(ItemDone(ad, q, ev))
    BY ItemAddedGoes, OpenGoes, TextDeltaGoes, ReasoningDeltaGoes, ArgumentsDeltaGoes, DoneGoes
  <2>2. QED
    BY <1>1, <1>2, <1>3, <2>1 DEF TranslatorHandle, CompletedEvents, r, started
<1>4. ASSUME ev.e \in CompletedEvents
      PROVE  Ends(TranslatorHandle(ad, t, ev).out, {"message_stop"})
  <2>1. Ends(FinishMessage(started, ev).out, {"message_stop"})
    BY <1>2, FinishEnds
  <2>2. TranslatorHandle(ad, t, ev) = FinishMessage(started, ev)
    BY <1>4 DEF TranslatorHandle, CompletedEvents, r, started
  <2>3. QED
    BY <2>1, <2>2
<1>5. QED
  BY <1>3, <1>4

-----------------------------------------------------------------------------
(* The adapter while the stream goes on.                                     *)

Running(q) ==
    /\ {"terminal", "success", "stop", "next", "blockNext", "translator"} \subseteq DOMAIN q
    /\ q.terminal = FALSE /\ q.success = FALSE
    /\ q.next \in Nat /\ q.blockNext \in Nat /\ Translating(q.translator)
Calm(r) == {"s", "out"} \subseteq DOMAIN r /\ Running(r.s) /\ Quiet(r.out)

IsAtom(a) == {"kind", "name", "stop", "status"} \subseteq DOMAIN a
CalmAtom(a) == IsAtom(a) /\ a.kind \notin {"terminal", "error"}

(* r goes on from q and keeps its stop reason.                               *)
Continues(q, r) == Calm(r) /\ r.s.stop = q.stop

LEMMA NothingCalm ==
  ASSUME NEW q, Running(q)
  PROVE  Continues(q, Nothing(q))
BY QuietOne DEF Nothing, Calm, Continues

LEMMA ThenCalm ==
  ASSUME NEW r, NEW next, Calm(r), Calm(next)
  PROVE  Calm(Then(r, next)) /\ Then(r, next).s = next.s
BY QuietConcat DEF Then, Calm

LEMMA ChatCalm ==
  ASSUME NEW q, Running(q), NEW a, CalmAtom(a)
  PROVE  Continues(q, EncodeChat(q, a))
<1> DEFINE r == ChatDelta(q, a)
<1>1. Running(r.s) /\ r.s.stop = q.stop /\ {"s", "out"} \subseteq DOMAIN r
  BY DEF ChatDelta, Running
<1>2. Quiet(r.out)
  BY Names, QuietOne DEF ChatDelta, Event
<1>3. Continues(q, r)
  BY <1>1, <1>2 DEF Continues, Calm
<1>4. QED
  BY <1>3, NothingCalm DEF EncodeChat, CalmAtom

LEMMA ResponsesPieces ==
  ASSUME NEW q, Running(q), NEW a
  PROVE  /\ Continues(q, ResponsesText(q, a)) /\ Continues(q, ResponsesReasoning(q, a))
         /\ Continues(q, ResponsesToolStart(q, a)) /\ Continues(q, ResponsesToolDelta(q, a))
<1>0. \A i, d : /\ OnItem("response.content_part.added", i, d).e \notin EndEvents
                /\ OnItem("response.output_text.delta", i, d).e \notin EndEvents
                /\ OnItem("response.reasoning_summary_part.added", i, d).e \notin EndEvents
                /\ OnItem("response.reasoning_summary_text.delta", i, d).e \notin EndEvents
                /\ OnItem("response.function_call_arguments.delta", i, d).e \notin EndEvents
  BY Names DEF OnItem, Event
<1>1. \A i, item : Added(i, item).e \notin EndEvents
  BY Names DEF Added, ItemEvent, OnItem, Event
<1>2. \A x, y : x.e \notin EndEvents /\ y.e \notin EndEvents => Quiet(<<x, y>>)
  BY ListedOne DEF Quiet
<1>3. Continues(q, ResponsesText(q, a))
  <2> DEFINE r == ResponsesText(q, a)
  <2>1. Running(r.s) /\ r.s.stop = q.stop /\ {"s", "out"} \subseteq DOMAIN r
    <3>1. {"s", "out"} \subseteq DOMAIN r /\ DOMAIN r.s = DOMAIN q
      BY DEF ResponsesText
    <3>2. /\ r.s.terminal = q.terminal /\ r.s.success = q.success /\ r.s.stop = q.stop
          /\ r.s.blockNext = q.blockNext /\ r.s.translator = q.translator
          /\ r.s.next \in {q.next, q.next + 1}
      BY DEF ResponsesText, Running
    <3> HIDE DEF r
    <3>3. QED
      BY <3>1, <3>2 DEF Running
  <2>2. Quiet(r.out)
    BY <1>0, <1>1, <1>2, QuietOne, QuietConcat DEF ResponsesText
  <2>3. QED
    BY <2>1, <2>2 DEF Continues, Calm
<1>4. Continues(q, ResponsesReasoning(q, a))
  <2> DEFINE r == ResponsesReasoning(q, a)
  <2>1. Running(r.s) /\ r.s.stop = q.stop /\ {"s", "out"} \subseteq DOMAIN r
    <3>1. {"s", "out"} \subseteq DOMAIN r /\ DOMAIN r.s = DOMAIN q
      BY DEF ResponsesReasoning
    <3>2. /\ r.s.terminal = q.terminal /\ r.s.success = q.success /\ r.s.stop = q.stop
          /\ r.s.blockNext = q.blockNext /\ r.s.translator = q.translator
          /\ r.s.next \in {q.next, q.next + 1}
      BY DEF ResponsesReasoning, Running
    <3> HIDE DEF r
    <3>3. QED
      BY <3>1, <3>2 DEF Running
  <2>2. Quiet(r.out)
    BY <1>0, <1>1, <1>2, QuietOne, QuietConcat DEF ResponsesReasoning
  <2>3. QED
    BY <2>1, <2>2 DEF Continues, Calm
<1>5. Continues(q, ResponsesToolStart(q, a))
  <2> DEFINE r == ResponsesToolStart(q, a)
  <2>1. Running(r.s) /\ r.s.stop = q.stop /\ {"s", "out"} \subseteq DOMAIN r
    BY DEF ResponsesToolStart, Running, Nothing
  <2>2. Quiet(r.out)
    BY <1>1, QuietOne DEF ResponsesToolStart, Nothing
  <2>3. QED
    BY <2>1, <2>2 DEF Continues, Calm
<1>6. Continues(q, ResponsesToolDelta(q, a))
  <2> DEFINE r == ResponsesToolDelta(q, a)
  <2>1. Running(r.s) /\ r.s.stop = q.stop /\ {"s", "out"} \subseteq DOMAIN r
    BY DEF ResponsesToolDelta, Running, Nothing
  <2>2. Quiet(r.out)
    BY <1>0, QuietOne, QuietIf DEF ResponsesToolDelta, Nothing
  <2>3. QED
    BY <2>1, <2>2 DEF Continues, Calm
<1>7. QED
  BY <1>3, <1>4, <1>5, <1>6

LEMMA ToolFinished ==
  ASSUME NEW q, Running(q), NEW a
  PROVE  Continues(q, FinishResponseTool(q, a))
<1> DEFINE r == FinishResponseTool(q, a)
<1>1. Running(r.s) /\ r.s.stop = q.stop /\ {"s", "out"} \subseteq DOMAIN r
  BY DEF FinishResponseTool, Running, Nothing
<1>2. \A i, d : /\ OnItem("response.custom_tool_call_input.delta", i, d).e \notin EndEvents
                /\ OnItem("response.custom_tool_call_input.done", i, d).e \notin EndEvents
                /\ OnItem("response.function_call_arguments.done", i, d).e \notin EndEvents
  BY Names DEF OnItem, Event
<1>3. \A i, item : Done(i, item).e \notin EndEvents
  BY Names DEF Done, ItemEvent, OnItem, Event
<1>4. \A x, y : x.e \notin EndEvents /\ y.e \notin EndEvents => Quiet(<<x, y>>)
  BY ListedOne DEF Quiet
<1>5. Quiet(r.out)
  BY <1>2, <1>3, <1>4, QuietOne, QuietConcat DEF FinishResponseTool, Nothing
<1>6. QED
  BY <1>1, <1>5 DEF Continues, Calm

LEMMA ResponsesCalm ==
  ASSUME NEW q, Running(q), NEW a, CalmAtom(a)
  PROVE  Continues(q, EncodeResponses(q, a))
<1> DEFINE first == ~q.created /\ a.kind # "usage"
           start == [s |-> [q EXCEPT !.created = @ \/ first],
                     out |-> If(first, [Event("response.created") EXCEPT !.id = q.id])]
           body == CASE a.kind = "text" -> ResponsesText(start.s, a)
                     [] a.kind = "reasoning" -> ResponsesReasoning(start.s, a)
                     [] a.kind = "toolStart" -> ResponsesToolStart(start.s, a)
                     [] a.kind = "toolDelta" -> ResponsesToolDelta(start.s, a)
                     [] a.kind = "toolDone" -> FinishResponseTool(start.s, a)
                     [] a.kind = "terminal" -> ResponsesTerminal(start.s, a)
                     [] OTHER -> Nothing(start.s)
<1>1. Continues(q, start)
  <2>1. Running(start.s) /\ start.s.stop = q.stop
    BY DEF Running
  <2>2. [Event("response.created") EXCEPT !.id = q.id].e \notin EndEvents
    BY Names DEF Event
  <2>3. Quiet(start.out)
    BY <2>2, QuietIf
  <2>4. QED
    BY <2>1, <2>3 DEF Continues, Calm
<1> HIDE DEF start
<1>2. Running(start.s) /\ start.s.stop = q.stop /\ Calm(start)
  BY <1>1 DEF Continues, Calm
<1>3. Continues(start.s, body)
  BY <1>2, ResponsesPieces, ToolFinished, NothingCalm DEF CalmAtom
<1> HIDE DEF body
<1>4. Continues(q, Then(start, body))
  BY <1>2, <1>3, ThenCalm DEF Continues
<1>5. EncodeResponses(q, a) = Then(start, body)
  BY DEF EncodeResponses, CalmAtom, start, body
<1>6. QED
  BY <1>4, <1>5

LEMMA BlockCalm ==
  ASSUME NEW q, Running(q), NEW key, NEW type, NEW id, NEW name
  PROVE  Continues(q, MessageBlock(q, key, type, id, name))
<1> DEFINE r == MessageBlock(q, key, type, id, name)
<1>1. {"s", "out"} \subseteq DOMAIN r /\ DOMAIN r.s = DOMAIN q
  BY DEF MessageBlock
<1>2. /\ r.s.terminal = q.terminal /\ r.s.success = q.success /\ r.s.stop = q.stop
      /\ r.s.next = q.next /\ r.s.translator = q.translator
      /\ r.s.blockNext \in {q.blockNext, q.blockNext + 1}
  BY DEF MessageBlock, Running
<1>3. Quiet(r.out)
  BY Names, QuietOne DEF MessageBlock, Event
<1> HIDE DEF r
<1>4. Running(r.s)
  BY <1>1, <1>2 DEF Running
<1>5. QED
  BY <1>1, <1>2, <1>3, <1>4 DEF Continues, Calm, r

LEMMA BlockDeltaCalm ==
  ASSUME NEW q, Running(q), NEW key, NEW type, NEW a
  PROVE  Continues(q, MessagesDelta(q, key, type, a))
<1> DEFINE block == MessageBlock(q, key, key[1], "", "")
           x == [Event("content_block_delta") EXCEPT !.i = block.i, !.type = type, !.d = a.d]
<1>1. Continues(q, block)
  BY BlockCalm
<1>2. Quiet(<<x>>)
  BY Names, QuietOne DEF Event
<1> HIDE DEF block, x
<1>3. Quiet(block.out \o <<x>>)
  BY <1>1, <1>2, QuietConcat DEF Continues, Calm
<1>4. Continues(q, [s |-> block.s, out |-> block.out \o <<x>>])
  BY <1>1, <1>3 DEF Continues, Calm
<1>5. QED
  BY <1>4 DEF MessagesDelta, block, x

LEMMA MessagesStart ==
  ASSUME NEW q, Running(q), NEW first
  PROVE  Continues(q, [s |-> [q EXCEPT !.started = @ \/ first], out |-> If(first, Event("message_start"))])
<1>1. Event("message_start").e \notin EndEvents
  BY Names DEF Event
<1>2. Quiet(If(first, Event("message_start")))
  BY <1>1, QuietIf
<1>3. QED
  BY <1>2 DEF Continues, Calm, Running

LEMMA MessagesCalm ==
  ASSUME NEW q, Running(q), NEW a, CalmAtom(a)
  PROVE  Continues(q, EncodeMessages(ad, q, a))
<1> DEFINE first == ~q.started /\ a.kind # "usage"
           start == [s |-> [q EXCEPT !.started = @ \/ first], out |-> If(first, Event("message_start"))]
           body == CASE a.kind = "text" -> MessagesDelta(start.s, <<"text", 0>>, "text_delta", a)
                     [] a.kind = "reasoning" ->
                           MessagesDelta(start.s, <<"thinking", 0>>, "thinking_delta", a)
                     [] a.kind = "toolStart" ->
                           MessageBlock(start.s, <<"tool_use", a.i>>, "tool_use", a.id, a.name)
                     [] a.kind = "toolDelta" ->
                           MessagesDelta(start.s, <<"tool_use", a.i>>, "input_json_delta", a)
                     [] a.kind = "terminal" -> MessagesTerminal(start.s, a)
                     [] OTHER -> Nothing(start.s)
<1>1. Continues(q, start)
  BY MessagesStart
<1> HIDE DEF start
<1>2. Running(start.s) /\ start.s.stop = q.stop /\ Calm(start)
  BY <1>1 DEF Continues, Calm
<1>3. Continues(start.s, body)
  BY <1>2, BlockCalm, BlockDeltaCalm, NothingCalm DEF CalmAtom
<1> HIDE DEF body
<1>4. Continues(q, Then(start, body))
  BY <1>2, <1>3, ThenCalm DEF Continues
<1>5. EncodeMessages(ad, q, a) \in {Then(start, body), Nothing(q)}
  BY DEF EncodeMessages, CalmAtom, start, body
<1>6. QED
  BY <1>4, <1>5, NothingCalm

LEMMA EncodeCalm ==
  ASSUME NEW q, Running(q), NEW a, CalmAtom(a)
  PROVE  Continues(q, Encode(ad, q, a))
BY ChatCalm, ResponsesCalm, MessagesCalm DEF Encode

(* What HandleAtom makes of an atom and of the adapter before it encodes.    *)
LEMMA HandleAtomSeen ==
  ASSUME NEW q, Running(q), NEW a, IsAtom(a)
  PROVE  \E p, b : /\ HandleAtom(ad, q, a) = Encode(ad, p, b)
                   /\ Running(p) /\ p.stop = Present(a.stop, q.stop)
                   /\ IsAtom(b) /\ b.kind = a.kind /\ b.stop = a.stop /\ b.status = a.status
<1> DEFINE b == IF a.name \notin DOMAIN ad.aliases THEN a
                ELSE [a EXCEPT !.name = ad.aliases[@].name, !.toolKind = ad.aliases[a.name].kind]
           p == [q EXCEPT !.usage = MergeUsage(@, b.usage),
                          !.sawTool = @ \/ (b.kind = "toolStart" /\ b.name # ""),
                          !.stop = Present(b.stop, @)]
<1>1. IsAtom(b) /\ b.kind = a.kind /\ b.stop = a.stop /\ b.status = a.status
  BY DEF IsAtom
<1>2. HandleAtom(ad, q, a) = Encode(ad, p, b)
  BY DEF HandleAtom
<1> HIDE DEF b
<1>3. Running(p) /\ p.stop = Present(a.stop, q.stop)
  BY <1>1 DEF Running
<1> HIDE DEF p
<1>4. QED
  BY <1>1, <1>2, <1>3

LEMMA HandleAtomCalm ==
  ASSUME NEW q, Running(q), NEW a, CalmAtom(a)
  PROVE  Calm(HandleAtom(ad, q, a)) /\ HandleAtom(ad, q, a).s.stop = Present(a.stop, q.stop)
<1>1. PICK p, b : /\ HandleAtom(ad, q, a) = Encode(ad, p, b)
                  /\ Running(p) /\ p.stop = Present(a.stop, q.stop)
                  /\ IsAtom(b) /\ b.kind = a.kind
  BY HandleAtomSeen DEF CalmAtom
<1>2. Continues(p, Encode(ad, p, b))
  BY <1>1, EncodeCalm DEF CalmAtom
<1>3. QED
  BY <1>1, <1>2 DEF Continues

-----------------------------------------------------------------------------
(* The adapter at the end of the stream.                                     *)

Fails(r) == r.s.terminal = TRUE /\ r.s.success = FALSE /\ Ends(r.out, FailureEvents)
Completes(r) == r.s.terminal = TRUE /\ r.s.success = TRUE /\ Ends(r.out, SuccessEvents)

(* A Chat client is told of its success after the commit.                    *)
Succeeds(r) ==
    IF ad.client = Chat THEN r.s.terminal = TRUE /\ r.s.success = TRUE /\ Quiet(r.out)
    ELSE Completes(r)

Finishing == INSTANCE FoldLemmas WITH Op <- FinishNumber, Good <- Calm
Stopping == INSTANCE FoldLemmas WITH Op <- StopNumber, Good <- Calm

LEMMA FailedFails ==
  ASSUME NEW q, Running(q)
  PROVE  Fails(Failed(q))
<1> DEFINE x == Event("error")
<1>1. x.e \in FailureEvents
  BY DEF Event, FailureEvents
<1>2. Failed(q).out = <<x>>
  BY DEF Failed
<1> HIDE DEF x
<1>3. Ends(Failed(q).out, FailureEvents)
  BY <1>1, <1>2, EndsOne
<1>4. QED
  BY <1>3 DEF Fails, Failed, Running

LEMMA QuietThree ==
  ASSUME NEW x, NEW y, NEW z, {x.e, y.e, z.e} \cap EndEvents = {}
  PROVE  Quiet(<<x, y, z>>)
<1>1. Quiet(<<x, y>>) /\ Quiet(<<z>>)
  BY ListedOne DEF Quiet
<1>2. <<x, y, z>> = <<x, y>> \o <<z>>
  OBVIOUS
<1>3. QED
  BY <1>1, <1>2, QuietConcat

LEMMA FinalizeCalm ==
  ASSUME NEW q, Running(q)
  PROVE  Calm(FinalizeResponsesOutput(q))
<1> DEFINE text == IF q.message = None THEN <<>>
                   ELSE <<OnItem("response.output_text.done", q.message, q.text),
                          OnItem("response.content_part.done", q.message, q.text),
                          Done(q.message, MessageItem(q.text))>>
           reasoning == IF q.reason = None THEN <<>>
                        ELSE <<OnItem("response.reasoning_summary_text.done", q.reason, q.reasoning),
                               OnItem("response.reasoning_summary_part.done", q.reason, q.reasoning),
                               Done(q.reason, ReasoningItem(q.reasoning, <<>>))>>
           base == [s |-> q, out |-> text \o reasoning]
           seq == Numbers(q.next)
<1>1. \A i, d : /\ OnItem("response.output_text.done", i, d).e \notin EndEvents
                /\ OnItem("response.content_part.done", i, d).e \notin EndEvents
                /\ OnItem("response.reasoning_summary_text.done", i, d).e \notin EndEvents
                /\ OnItem("response.reasoning_summary_part.done", i, d).e \notin EndEvents
  BY Names DEF OnItem, Event
<1>2. \A i, item : Done(i, item).e \notin EndEvents
  BY Names DEF Done, ItemEvent, OnItem, Event
<1>3. Quiet(text)
  BY <1>1, <1>2, QuietOne, QuietThree
<1>4. Quiet(reasoning)
  BY <1>1, <1>2, QuietOne, QuietThree
<1> HIDE DEF text, reasoning
<1>5. Calm(base)
  BY <1>3, <1>4, QuietConcat DEF Calm
<1>6. seq \in Seq(Nat)
  BY NumbersType DEF Running
<1>7. ASSUME NEW r, Calm(r), NEW n \in Nat
      PROVE  Calm(FinishNumber(r, n))
  <2>1. \A b : Calm(FinishResponseTool(r.s, b))
    BY <1>7, ToolFinished DEF Calm, Continues
  <2>2. \A b : Calm(Then(r, FinishResponseTool(r.s, b)))
    BY <1>7, <2>1, ThenCalm
  <2>3. QED
    BY <1>7, <2>2 DEF FinishNumber
<1> HIDE DEF base, seq
<1>8. Calm(Finishing!Left(base, seq))
  BY <1>5, <1>6, <1>7, Finishing!LeftInvariant
<1>9. FoldLeft(FinishNumber, base, seq) = Finishing!Left(base, seq)
  BY DEF FoldLeft, MapThenFoldSet, Finishing!Left, Finishing!Max, Max
<1>10. QED
  BY <1>8, <1>9 DEF FinalizeResponsesOutput, base, seq, text, reasoning

LEMMA StoppedCalm ==
  ASSUME NEW q, Running(q)
  PROVE  Calm(FoldLeft(StopNumber, Nothing(q), Numbers(q.blockNext)))
<1> DEFINE seq == Numbers(q.blockNext)
           base == Nothing(q)
<1>1. seq \in Seq(Nat)
  BY NumbersType DEF Running
<1>2. Calm(base)
  BY NothingCalm DEF Continues
<1>3. ASSUME NEW r, Calm(r), NEW n \in Nat
      PROVE  Calm(StopNumber(r, n))
  <2> DEFINE next == [s |-> [r.s EXCEPT !.blocks = Without(@, n)],
                      out |-> <<[Event("content_block_stop") EXCEPT !.i = n]>>]
  <2>1. Quiet(next.out)
    BY Names, QuietOne DEF Event
  <2>2. Calm(next)
    BY <1>3, <2>1 DEF Calm, Running
  <2> HIDE DEF next
  <2>3. Calm(Then(r, next))
    BY <1>3, <2>2, ThenCalm
  <2>4. QED
    BY <1>3, <2>3 DEF StopNumber, next
<1> HIDE DEF base, seq
<1>4. Calm(Stopping!Left(base, seq))
  BY <1>1, <1>2, <1>3, Stopping!LeftInvariant
<1>5. FoldLeft(StopNumber, base, seq) = Stopping!Left(base, seq)
  BY DEF FoldLeft, MapThenFoldSet, Stopping!Left, Stopping!Max, Max
<1>6. QED
  BY <1>4, <1>5 DEF base, seq

LEMMA ChatTerminates ==
  ASSUME NEW q, Running(q), NEW a, a.kind = "terminal", ad.client = Chat
  PROVE  IF EndsWell(a) THEN Succeeds(EncodeChat(q, a)) ELSE Fails(EncodeChat(q, a))
<1>1. EncodeChat(q, a) = ChatTerminal(q, a)
  BY DEF EncodeChat
<1>2. CASE ~EndsWell(a)
  BY <1>1, <1>2, FailedFails DEF ChatTerminal
<1>3. CASE EndsWell(a)
  <2>1. Quiet(ChatTerminal(q, a).out)
    BY <1>3, Names, QuietOne DEF ChatTerminal, Event
  <2>2. ChatTerminal(q, a).s = [q EXCEPT !.terminal = TRUE, !.success = EndsWell(a)]
    BY <1>3 DEF ChatTerminal
  <2>3. EndsWell(a) = TRUE
    BY <1>3 DEF EndsWell
  <2>4. QED
    BY <1>1, <1>3, <2>1, <2>2, <2>3 DEF Succeeds, Running
<1>4. QED
  BY <1>2, <1>3

LEMMA ResponsesTerminates ==
  ASSUME NEW q, Running(q), NEW a, a.kind = "terminal", EndsWell(a)
  PROVE  Completes(EncodeResponses(q, a))
<1> DEFINE first == ~q.created /\ a.kind # "usage"
           start == [s |-> [q EXCEPT !.created = @ \/ first],
                     out |-> If(first, [Event("response.created") EXCEPT !.id = q.id])]
<1>1. Running(start.s) /\ Quiet(start.out)
  <2>1. [Event("response.created") EXCEPT !.id = q.id].e \notin EndEvents
    BY Names DEF Event
  <2>2. QED
    BY <2>1, QuietIf DEF Running
<1>2. EncodeResponses(q, a) = Then(start, ResponsesTerminal(start.s, a))
  BY DEF EncodeResponses
<1> HIDE DEF start
<1> DEFINE p == start.s
           r == FinalizeResponsesOutput(p)
           reason == IncompleteReason(a.status, Present(a.stop, p.stop))
           name == IF reason = "" THEN "response.completed" ELSE "response.incomplete"
           x == [Event(name) EXCEPT !.id = p.id, !.stop = reason,
                    !.usage = p.usage, !.items = ResponsesOutputItems(r.s)]
<1>3. Calm(r)
  BY <1>1, FinalizeCalm
<1>4. x.e \in SuccessEvents
  BY DEF Event, SuccessEvents
<1> DEFINE w == ResponsesTerminal(p, a)
<1>5. w.s = [r.s EXCEPT !.terminal = TRUE, !.success = EndsWell(a)] /\ w.out = Append(r.out, x)
  BY DEF ResponsesTerminal
<1>6. EndsWell(a) = TRUE
  BY DEF EndsWell
<1> HIDE DEF r, x, w
<1>7. Ends(Append(r.out, x), SuccessEvents)
  BY <1>3, <1>4 DEF Ends, Calm
<1>8. Ends(start.out \o Append(r.out, x), SuccessEvents)
  BY <1>1, <1>7, EndsConcat
<1> DEFINE t == Then(start, w)
<1>9. /\ t.s = [r.s EXCEPT !.terminal = TRUE, !.success = EndsWell(a)]
      /\ t.out = start.out \o Append(r.out, x)
  BY <1>5 DEF Then
<1>10. t.s.terminal = TRUE /\ t.s.success = TRUE
  BY <1>3, <1>6, <1>9 DEF Calm, Running
<1> HIDE DEF t
<1>11. Completes(t)
  BY <1>8, <1>9, <1>10 DEF Completes
<1>12. QED
  BY <1>2, <1>11 DEF t, w

LEMMA MessagesTerminates ==
  ASSUME NEW q, Running(q), NEW a, a.kind = "terminal"
  PROVE  Completes(EncodeMessages(ad, q, a))
<1> DEFINE first == ~q.started /\ a.kind # "usage"
           start == [s |-> [q EXCEPT !.started = @ \/ first], out |-> If(first, Event("message_start"))]
<1>1. Continues(q, start)
  BY MessagesStart
<1>2. EncodeMessages(ad, q, a) = Then(start, MessagesTerminal(start.s, a))
  BY DEF EncodeMessages
<1> HIDE DEF start
<1> DEFINE p == start.s
           r == FoldLeft(StopNumber, Nothing(p), Numbers(p.blockNext))
           stop == MessagesStop(p.sawTool, Present(a.stop, p.stop))
           x == [Event("message_delta") EXCEPT !.stop = stop, !.usage = p.usage]
           y == Event("message_stop")
<1>3. Calm(r)
  BY <1>1, StoppedCalm DEF Continues, Calm
<1>4. x.e \notin EndEvents /\ y.e \in SuccessEvents
  BY Names DEF Event, SuccessEvents
<1> DEFINE w == MessagesTerminal(p, a)
<1>5. w.s = [r.s EXCEPT !.terminal = TRUE, !.success = TRUE] /\ w.out = r.out \o <<x, y>>
  BY DEF MessagesTerminal
<1> HIDE DEF r, x, y, w
<1>6. r.out \o <<x, y>> = Append(Append(r.out, x), y)
  <2> DEFINE U == ToSet(r.out) \cup {x, y}
  <2>1. r.out \in Seq(U) /\ x \in U /\ y \in U
    BY <1>3, ListedRange DEF Quiet, Calm
  <2> HIDE DEF U
  <2>2. QED
    BY <2>1
<1>7. Quiet(Append(r.out, x))
  BY <1>3, <1>4, QuietAppend DEF Calm
<1>8. Ends(r.out \o <<x, y>>, SuccessEvents)
  BY <1>4, <1>6, <1>7 DEF Ends
<1>9. Ends(start.out \o (r.out \o <<x, y>>), SuccessEvents)
  BY <1>1, <1>8, EndsConcat DEF Continues, Calm
<1> DEFINE t == Then(start, w)
<1>10. /\ t.s = [r.s EXCEPT !.terminal = TRUE, !.success = TRUE]
       /\ t.out = start.out \o (r.out \o <<x, y>>)
  BY <1>5 DEF Then
<1>11. t.s.terminal = TRUE /\ t.s.success = TRUE
  BY <1>3, <1>10 DEF Calm, Running
<1> HIDE DEF t
<1>12. Completes(t)
  BY <1>9, <1>10, <1>11 DEF Completes
<1>13. QED
  BY <1>2, <1>12 DEF t, w

LEMMA EncodeTerminates ==
  ASSUME NEW q, Running(q), NEW a, IsAtom(a), a.kind = "terminal", ad.client \in Protocols
  PROVE  /\ EndsWell(a) => Succeeds(Encode(ad, q, a)) 
         /\ ~EndsWell(a) /\ ad.client = Chat => Fails(Encode(ad, q, a))
<1>1. Chat # Responses /\ Chat # Messages /\ Messages # Responses
  BY DEF Chat, Responses, Messages
<1>2. CASE ad.client = Chat
  <2>1. Encode(ad, q, a) = EncodeChat(q, a)
    BY <1>1, <1>2 DEF Encode
  <2>2. QED
    BY <1>2, <2>1, ChatTerminates
<1>3. CASE ad.client = Messages
  BY <1>1, <1>3, MessagesTerminates DEF Encode, Succeeds
<1>4. CASE ad.client = Responses
  BY <1>1, <1>4, ResponsesTerminates DEF Encode, Succeeds
<1>5. QED
  BY <1>2, <1>3, <1>4 DEF Protocols

LEMMA EncodeFails ==
  ASSUME NEW q, Running(q), NEW a, a.kind = "error"
  PROVE  Fails(Encode(ad, q, a))
BY FailedFails DEF Encode, EncodeChat, EncodeResponses, EncodeMessages

LEMMA ThenEnds ==
  ASSUME NEW r, Calm(r), NEW next
  PROVE  /\ Succeeds(next) => Succeeds(Then(r, next))
         /\ Fails(next) => Fails(Then(r, next))
<1> DEFINE t == Then(r, next)
<1>1. t.s = next.s /\ t.out = r.out \o next.out
  BY DEF Then
<1>2. Quiet(r.out)
  BY DEF Calm
<1> HIDE DEF t
<1>3. ASSUME Fails(next)
      PROVE  Fails(t)
  BY <1>1, <1>2, <1>3, EndsConcat DEF Fails
<1>4. ASSUME Succeeds(next), ad.client = Chat
      PROVE  Succeeds(t)
  BY <1>1, <1>2, <1>4, QuietConcat DEF Succeeds
<1>5. ASSUME Succeeds(next), ad.client # Chat
      PROVE  Succeeds(t)
  BY <1>1, <1>2, <1>5, EndsConcat DEF Succeeds, Completes
<1>6. QED
  BY <1>3, <1>4, <1>5 DEF t

LEMMA HandleAtomEnds ==
  ASSUME NEW q, Running(q), NEW a, IsAtom(a), ad.client \in Protocols
  PROVE  /\ a.kind = "terminal" /\ EndsWell(a) => Succeeds(HandleAtom(ad, q, a))
         /\ a.kind = "terminal" /\ ~EndsWell(a) /\ ad.client = Chat => Fails(HandleAtom(ad, q, a))
         /\ a.kind = "error" => Fails(HandleAtom(ad, q, a))
<1>1. PICK p, b : /\ HandleAtom(ad, q, a) = Encode(ad, p, b)
                  /\ Running(p)
                  /\ IsAtom(b) /\ b.kind = a.kind /\ b.status = a.status
  BY HandleAtomSeen
<1>2. EndsWell(b) <=> EndsWell(a)
  BY <1>1 DEF EndsWell
<1>3. QED
  BY <1>1, <1>2, EncodeTerminates, EncodeFails

-----------------------------------------------------------------------------
(* The atoms of an upstream event.                                           *)

CalmAtoms(atoms) == Listed(atoms) /\ \A a \in ToSet(atoms) : CalmAtom(a)
Stopless(atoms) == \A a \in ToSet(atoms) : a.stop = ""
Decoded(r) == CalmAtoms(r.atoms) /\ Stopless(r.atoms)

AtomStep(r, a) == Then(r, HandleAtom(ad, r.s, a))
Unstopped(r) == Calm(r) /\ r.s.stop = ""

Calling == INSTANCE FoldLemmas WITH Op <- ChatToolCall, Good <- Decoded
Atoms == INSTANCE FoldLemmas WITH Op <- AtomStep, Good <- Calm
UnstoppedAtoms == INSTANCE FoldLemmas WITH Op <- AtomStep, Good <- Unstopped

LEMMA AtomsOne ==
  /\ CalmAtoms(<<>>) /\ Stopless(<<>>)
  /\ \A a : CalmAtom(a) => CalmAtoms(<<a>>)
  /\ \A a : a.stop = "" => Stopless(<<a>>)
<1>1. CalmAtoms(<<>>) /\ Stopless(<<>>)
  <2> DEFINE seq == <<>>
  <2>1. Listed(seq) /\ ToSet(seq) = {}
    BY ListedOne
  <2> HIDE DEF seq
  <2>2. CalmAtoms(seq) /\ Stopless(seq)
    BY <2>1 DEF CalmAtoms, Stopless
  <2>3. QED
    BY <2>2 DEF seq
<1>2. ASSUME NEW a
      PROVE  /\ CalmAtom(a) => CalmAtoms(<<a>>)
             /\ a.stop = "" => Stopless(<<a>>)
  <2> DEFINE seq == <<a>>
  <2>1. Listed(seq) /\ ToSet(seq) = {a}
    BY ListedOne
  <2> HIDE DEF seq
  <2>2. CalmAtom(a) => CalmAtoms(seq)
    BY <2>1 DEF CalmAtoms
  <2>3. a.stop = "" => Stopless(seq)
    BY <2>1 DEF Stopless
  <2>4. QED
    BY <2>2, <2>3 DEF seq
<1>3. QED
  BY <1>1, <1>2

LEMMA AtomsIf ==
  ASSUME NEW c, NEW a, CalmAtom(a)
  PROVE  /\ CalmAtoms(If(c, a))
         /\ (c => a.stop = "") => Stopless(If(c, a))
BY AtomsOne DEF If

LEMMA AtomsConcat ==
  ASSUME NEW a, NEW b, CalmAtoms(a), CalmAtoms(b)
  PROVE  /\ CalmAtoms(a \o b)
         /\ Stopless(a) /\ Stopless(b) => Stopless(a \o b)
BY ListedConcat DEF CalmAtoms, Stopless

LEMMA CallsCalm ==
  ASSUME NEW tools, NEW calls, Listed(calls)
  PROVE  Decoded(FoldLeft(ChatToolCall, [tools |-> tools, atoms |-> <<>>], calls))
<1> DEFINE base == [tools |-> tools, atoms |-> <<>>]
<1>1. Decoded(base)
  BY AtomsOne DEF Decoded
<1>2. ASSUME NEW r, Decoded(r), NEW call
      PROVE  Decoded(ChatToolCall(r, call))
  <2>1. \A c, a : CalmAtom(a) /\ a.stop = "" => CalmAtoms(If(c, a)) /\ Stopless(If(c, a))
    BY AtomsIf
  <2> DEFINE new == [id |-> "", name |-> "", started |-> FALSE, pending |-> <<>>]
             old == Lookup(r.tools, call.i, new)
             named == [old EXCEPT !.id = Present(call.id, @), !.name = Present(call.name, @),
                                  !.pending = IF old.started THEN @ ELSE @ \o call.d]
             starts == ~old.started /\ named.name # ""
             piece == IF old.started THEN call.d ELSE named.pending
             start == [Atom("toolStart") EXCEPT !.i = call.i, !.id = named.id, !.name = named.name]
             delta == [Atom("toolDelta") EXCEPT !.i = call.i, !.d = piece]
             all == r.atoms \o If(starts, start) \o If((starts \/ old.started) /\ piece # <<>>, delta)
  <2>2. CalmAtom(start) /\ start.stop = "" /\ CalmAtom(delta) /\ delta.stop = ""
    BY DEF Atom, CalmAtom, IsAtom
  <2>3. ChatToolCall(r, call).atoms = all
    BY DEF ChatToolCall
  <2> HIDE DEF old, named, starts, piece, start, delta
  <2>4. CalmAtoms(all) /\ Stopless(all)
    BY <1>2, <2>1, <2>2, AtomsConcat DEF Decoded
  <2> HIDE DEF all
  <2>5. QED
    BY <2>3, <2>4 DEF Decoded
<1> HIDE DEF base
<1>3. calls \in Seq(ToSet(calls))
  BY ListedRange
<1>4. Decoded(Calling!Left(base, calls))
  BY <1>1, <1>2, <1>3, Calling!LeftInvariant
<1>5. FoldLeft(ChatToolCall, base, calls) = Calling!Left(base, calls)
  BY DEF FoldLeft, MapThenFoldSet, Calling!Left, Calling!Max, Max
<1>6. QED
  BY <1>4, <1>5 DEF base

(* What the upstream may say of the end in each of its dialects.             *)
EndingsOf(up) ==
    IF up = Chat THEN {"[DONE]", "error"}
    ELSE IF up = Messages THEN {"message_stop", "error"}
    ELSE {"[DONE]", "response.completed", "response.incomplete", "response.failed", "error"}
WellEndings(up) == IF up = Responses THEN CompletedEvents ELSE SuccessEvents
Heard(up, ev) ==
    "e" \in DOMAIN ev /\ Listed(ev.calls) /\ (ev.e \in EndEvents => ev.e \in EndingsOf(up))

(* The atoms of an event that ends nothing, and of one that ends the stream. *)
Goes(q, d) == Running(d.s) /\ d.s.stop = q.stop /\ CalmAtoms(d.atoms)
Final(d, a) ==
    /\ Running(d.s) /\ IsAtom(a)
    /\ d.atoms = <<a>> \/ \E u : CalmAtom(u) /\ d.atoms = <<u, a>>
FinalOf(d, ev, a) ==
    /\ Final(d, a)
    /\ \/ a.kind = "error"
       \/ a.kind = "terminal" /\ EndsWell(a) /\ ev.e \in WellEndings(ad.up)
       \/ a.kind = "terminal" /\ ~EndsWell(a) /\ ad.up = Responses

LEMMA ErrorFinal ==
  ASSUME NEW ev, NEW d, Running(d.s), d.atoms = <<Atom("error")>>
  PROVE  \E a : FinalOf(d, ev, a)
<1> DEFINE a == Atom("error")
<1>1. IsAtom(a) /\ a.kind = "error"
  BY DEF Atom, IsAtom
<1> HIDE DEF a
<1>2. FinalOf(d, ev, a)
  BY <1>1 DEF FinalOf, Final, a
<1>3. QED
  BY <1>2

LEMMA DoneFinal ==
  ASSUME NEW ev, ev.e \in WellEndings(ad.up), NEW d, Running(d.s),
         d.atoms = <<[Atom("terminal") EXCEPT !.status = "completed"]>>
  PROVE  \E a : FinalOf(d, ev, a)
<1> DEFINE a == [Atom("terminal") EXCEPT !.status = "completed"]
<1>1. IsAtom(a) /\ a.kind = "terminal" /\ EndsWell(a)
  BY DEF Atom, IsAtom, EndsWell
<1> HIDE DEF a
<1>2. FinalOf(d, ev, a)
  BY <1>1 DEF FinalOf, Final, a
<1>3. QED
  BY <1>2

LEMMA ChatDecodes ==
  ASSUME NEW q, Running(q), NEW ev, Heard(Chat, ev), ad.up = Chat
  PROVE  LET d == DecodeChat(q, ev) IN
         \/ Goes(q, d) /\ (ev.stop = "" => Stopless(d.atoms))
         \/ \E a : FinalOf(d, ev, a)
<1> DEFINE d == DecodeChat(q, ev)
<1>1. CASE ev.e = "[DONE]"
  <2>1. d.s = q /\ d.atoms = <<[Atom("terminal") EXCEPT !.status = "completed"]>>
    BY <1>1 DEF DecodeChat
  <2>2. ev.e \in WellEndings(ad.up)
    BY <1>1 DEF SuccessEvents, WellEndings, Chat, Responses
  <2> HIDE DEF d
  <2>3. \E a : FinalOf(d, ev, a)
    BY <2>1, <2>2, DoneFinal
  <2>4. QED
    BY <2>3 DEF d
<1>2. CASE ev.e = "error"
  <2>1. d.s = q /\ d.atoms = <<Atom("error")>>
    BY <1>2 DEF DecodeChat
  <2> HIDE DEF d
  <2>2. \E a : FinalOf(d, ev, a)
    BY <2>1, ErrorFinal
  <2>3. QED
    BY <2>2 DEF d
<1>3. CASE ev.e \notin {"[DONE]", "error"}
  <2> DEFINE calls == FoldLeft(ChatToolCall, [tools |-> q.upChat, atoms |-> <<>>], ev.calls)
             usage == [Atom("usage") EXCEPT !.usage = ev.usage]
             text == TextAtom("text", ev.d)
             thought == TextAtom("reasoning", ev.rsn)
             stop == [Atom("usage") EXCEPT !.stop = ev.stop]
             early == If(ev.usage # NoUsage, usage) \o If(ev.d # <<>>, text)
                      \o If(ev.rsn # <<>>, thought)
             atoms == early \o calls.atoms \o If(ev.stop # "", stop)
  <2>1. Decoded(calls)
    BY CallsCalm DEF Heard
  <2>2. \A a \in {usage, text, thought} : CalmAtom(a) /\ a.stop = ""
    BY DEF Atom, TextAtom, CalmAtom, IsAtom
  <2>3. CalmAtom(stop)
    BY DEF Atom, CalmAtom, IsAtom
  <2>4. d.s = [q EXCEPT !.upChat = calls.tools] /\ d.atoms = atoms
    BY <1>3 DEF DecodeChat
  <2> HIDE DEF calls, usage, text, thought, stop
  <2>5. \A a \in {usage, text, thought} : \A c : CalmAtoms(If(c, a)) /\ Stopless(If(c, a))
    BY <2>2, AtomsIf
  <2>6. CalmAtoms(early) /\ Stopless(early)
    BY <2>5, AtomsConcat
  <2> HIDE DEF early
  <2>7. CalmAtoms(early \o calls.atoms) /\ Stopless(early \o calls.atoms)
    BY <2>1, <2>6, AtomsConcat DEF Decoded
  <2>8. CalmAtoms(If(ev.stop # "", stop)) /\ (ev.stop = "" => Stopless(If(ev.stop # "", stop)))
    BY <2>3, AtomsIf
  <2>9. CalmAtoms(atoms) /\ (ev.stop = "" => Stopless(atoms))
    BY <2>7, <2>8, AtomsConcat
  <2>10. Running(d.s) /\ d.s.stop = q.stop
    BY <2>4 DEF Running
  <2> HIDE DEF d, atoms
  <2>11. Goes(q, d) /\ (ev.stop = "" => Stopless(d.atoms))
    BY <2>4, <2>9, <2>10 DEF Goes
  <2>12. QED
    BY <2>11 DEF d
<1>4. QED
  BY <1>1, <1>2, <1>3

LEMMA ResponsesDecodes ==
  ASSUME NEW q, Running(q), NEW ev, ad.up = Responses
  PROVE  LET d == DecodeResponses(q, ev) IN Goes(q, d) \/ \E a : FinalOf(d, ev, a)
<1> DEFINE d == DecodeResponses(q, ev)
<1>1. CASE ev.e \in DOMAIN ResponseStatus
  <2> DEFINE u == [Atom("usage") EXCEPT !.usage = ev.usage]
             a == [Atom("terminal") EXCEPT !.status = ResponseStatus[ev.e], !.stop = ev.stop]
  <2>1. d.s = q /\ d.atoms = <<u, a>>
    BY <1>1 DEF DecodeResponses, ResponseStatus
  <2>2. CalmAtom(u) /\ IsAtom(a) /\ a.kind = "terminal" /\ a.status = ResponseStatus[ev.e]
    BY DEF Atom, CalmAtom, IsAtom
  <2>3. EndsWell(a) => ev.e \in WellEndings(ad.up)
    BY <1>1, <2>2 DEF EndsWell, ResponseStatus, CompletedEvents, WellEndings
  <2> HIDE DEF d, u, a
  <2>4. FinalOf(d, ev, a)
    BY <2>1, <2>2, <2>3 DEF FinalOf, Final
  <2>5. QED
    BY <2>4 DEF d
<1>2. CASE ev.e = "error"
  <2>1. d.s = q /\ d.atoms = <<Atom("error")>>
    BY <1>2 DEF DecodeResponses, ResponseStatus
  <2> HIDE DEF d
  <2>2. \E a : FinalOf(d, ev, a)
    BY <2>1, ErrorFinal
  <2>3. QED
    BY <2>2 DEF d
<1>3. CASE ev.e \notin DOMAIN ResponseStatus \cup {"error"}
  <2>1. \A kind \in {"toolStart", "toolDelta", "toolDone"} : CalmAtom(ToolAtom(kind, ev))
    BY DEF ToolAtom, Atom, CalmAtom, IsAtom
  <2>2. CalmAtom([ToolAtom("toolDelta", ev) EXCEPT !.d = ev.d])
    BY DEF ToolAtom, Atom, CalmAtom, IsAtom
  <2>3. CalmAtom([ToolAtom("toolDone", ev) EXCEPT !.args = Remarshal(ev.d)])
    BY DEF ToolAtom, Atom, CalmAtom, IsAtom
  <2>4. CalmAtom(TextAtom("text", ev.d)) /\ CalmAtom(TextAtom("reasoning", ev.d))
    BY DEF TextAtom, Atom, CalmAtom, IsAtom
  <2>5. CalmAtoms(d.atoms)
    BY <1>3, <2>1, <2>2, <2>3, <2>4, AtomsOne, AtomsIf DEF DecodeResponses
  <2>6. d.s = q
    BY DEF DecodeResponses
  <2> HIDE DEF d
  <2>7. Goes(q, d)
    BY <2>5, <2>6 DEF Goes
  <2>8. QED
    BY <2>7 DEF d
<1>4. QED
  BY <1>1, <1>2, <1>3

LEMMA MessagesDecodes ==
  ASSUME NEW q, Running(q), NEW ev, ad.up = Messages
  PROVE  LET d == DecodeMessages(q, ev) IN Goes(q, d) \/ \E a : FinalOf(d, ev, a)
<1> DEFINE d == DecodeMessages(q, ev)
           block == Lookup(q.upBlocks, ev.i, [kind |-> "", input |-> NoValue, saw |-> FALSE])
<1>1. Running(d.s) /\ d.s.stop = q.stop
  BY DEF DecodeMessages, Running
<1>2. \/ CalmAtoms(d.atoms)
      \/ d.atoms = <<[Atom("terminal") EXCEPT !.status = "completed"]>> /\ ev.e = "message_stop"
      \/ d.atoms = <<Atom("error")>>
  <2> DEFINE isInput == ev.e = "content_block_delta" /\ ev.type = "input_json_delta"
             usage == [Atom("usage") EXCEPT !.usage = ev.usage, !.stop = ev.stop]
             start == ToolAtom("toolStart", ev)
             delta == [Atom("toolDelta") EXCEPT !.i = ev.i, !.d = ev.d]
             text == TextAtom("text", ev.d)
             thought == TextAtom("reasoning", ev.d)
             done == [Atom("toolDone") EXCEPT !.i = ev.i, !.args = BlockInput(block)]
             end == [Atom("terminal") EXCEPT !.status = "completed"]
             error == Atom("error")
  <2>1. d.atoms = CASE ev.e \in {"message_start", "message_delta"} -> <<usage>>
                    [] ev.e = "content_block_start" /\ ev.type = "tool_use" -> <<start>>
                    [] isInput -> <<delta>>
                    [] ev.type \in {"text", "text_delta"} -> <<text>>
                    [] ev.type \in {"thinking", "thinking_delta"} -> <<thought>>
                    [] ev.e = "content_block_stop" -> IF block.kind = "tool_use" THEN <<done>> ELSE <<>>
                    [] ev.e = "message_stop" -> <<end>>
                    [] ev.e = "error" -> <<error>>
                    [] OTHER -> <<>>
    BY DEF DecodeMessages, If
  <2>2. \A a \in {usage, start, delta, text, thought, done} : CalmAtom(a)
    <3>1. CalmAtom(usage) /\ CalmAtom(start)
      BY DEF ToolAtom, Atom, CalmAtom, IsAtom
    <3>2. CalmAtom(delta) /\ CalmAtom(done)
      BY DEF Atom, CalmAtom, IsAtom
    <3>3. CalmAtom(text) /\ CalmAtom(thought)
      BY DEF TextAtom, Atom, CalmAtom, IsAtom
    <3> HIDE DEF d, usage, start, delta, text, thought, done
    <3>4. QED
      BY <3>1, <3>2, <3>3
  <2> HIDE DEF d, block, usage, start, delta, text, thought, done, end, error
  <2>3. \/ d.atoms = <<>> \/ \E a \in {usage, start, delta, text, thought, done} : d.atoms = <<a>>
        \/ d.atoms = <<end>> /\ ev.e = "message_stop"
        \/ d.atoms = <<error>>
    BY <2>1
  <2>4. QED
    BY <2>2, <2>3, AtomsOne DEF end, error
<1> HIDE DEF d
<1>3. CASE CalmAtoms(d.atoms)
  BY <1>1, <1>3 DEF Goes, d
<1>4. CASE d.atoms = <<[Atom("terminal") EXCEPT !.status = "completed"]>> /\ ev.e = "message_stop"
  <2>1. ev.e \in WellEndings(ad.up)
    BY <1>4 DEF SuccessEvents, WellEndings, Messages, Responses
  <2>2. \E a : FinalOf(d, ev, a)
    BY <1>1, <1>4, <2>1, DoneFinal
  <2>3. QED
    BY <2>2 DEF d
<1>5. CASE d.atoms = <<Atom("error")>>
  <2>1. \E a : FinalOf(d, ev, a)
    BY <1>1, <1>5, ErrorFinal
  <2>2. QED
    BY <2>1 DEF d
<1>6. QED
  BY <1>2, <1>3, <1>4, <1>5

-----------------------------------------------------------------------------
(* Handle and Finish: the stream goes on in silence about its end, or it     *)
(* ends, well only when the upstream said so.                                *)

Configured == ad.client \in Protocols /\ ad.up \in Protocols
Outcome(q, ev, r) ==
    \/ Calm(r) /\ (ad.up = Chat /\ ev.stop = "" /\ q.stop = "" => r.s.stop = "")
    \/ Fails(r)
    \/ Succeeds(r) /\ ev.e \in WellEndings(ad.up)

LEMMA FoldsAtoms ==
  ASSUME NEW q, NEW ev
  PROVE  LET d == DecodeStreamAtoms(ad, q, ev)
         IN  HandleAtoms(ad, q, ev) = Atoms!Left(Nothing(d.s), d.atoms)
BY DEF HandleAtoms, FoldLeft, MapThenFoldSet, Atoms!Left, Atoms!Max, Max, AtomStep

LEMMA CalmFold ==
  ASSUME NEW q, Running(q), NEW atoms, CalmAtoms(atoms)
  PROVE  /\ Calm(Atoms!Left(Nothing(q), atoms))
         /\ Stopless(atoms) /\ q.stop = "" => Atoms!Left(Nothing(q), atoms).s.stop = ""
<1> DEFINE base == Nothing(q)
<1>1. atoms \in Seq(ToSet(atoms))
  BY ListedRange DEF CalmAtoms
<1>2. Calm(base) /\ base.s.stop = q.stop
  BY NothingCalm DEF Continues
<1>3. ASSUME NEW r, Calm(r), NEW a, CalmAtom(a)
      PROVE  Calm(AtomStep(r, a)) /\ AtomStep(r, a).s.stop = Present(a.stop, r.s.stop)
  BY <1>3, HandleAtomCalm, ThenCalm DEF AtomStep, Calm
<1> HIDE DEF base
<1>4. Calm(Atoms!Left(base, atoms))
  BY <1>1, <1>2, <1>3, Atoms!LeftInvariant DEF CalmAtoms
<1>5. ASSUME Stopless(atoms), q.stop = ""
      PROVE  Atoms!Left(base, atoms).s.stop = ""
  <2>1. Unstopped(base)
    BY <1>2, <1>5 DEF Unstopped
  <2>2. \A r : Unstopped(r) => \A a \in ToSet(atoms) : Unstopped(AtomStep(r, a))
    BY <1>3, <1>5 DEF Unstopped, CalmAtoms, Stopless, Present
  <2>3. Unstopped(UnstoppedAtoms!Left(base, atoms))
    BY <1>1, <2>1, <2>2, UnstoppedAtoms!LeftInvariant
  <2>4. UnstoppedAtoms!Left(base, atoms) = Atoms!Left(base, atoms)
    BY DEF UnstoppedAtoms!Left, UnstoppedAtoms!Max, Atoms!Left, Atoms!Max
  <2>5. QED
    BY <2>3, <2>4 DEF Unstopped
<1>6. QED
  BY <1>4, <1>5 DEF base

LEMMA FinalFold ==
  ASSUME NEW d, NEW a, Final(d, a)
  PROVE  \E r : Calm(r) /\ Atoms!Left(Nothing(d.s), d.atoms) = Then(r, HandleAtom(ad, r.s, a))
<1> DEFINE base == Nothing(d.s)
           result == Atoms!Left(base, d.atoms)
<1>1. Calm(base)
  BY NothingCalm DEF Final, Continues
<1>2. Listed(d.atoms)
  <2>1. \A x, y : Listed(<<x>>) /\ Listed(<<x, y>>)
    BY ListedOne
  <2> HIDE DEF Listed
  <2>2. QED
    BY <2>1 DEF Final
<1>3. PICK p : Atoms!Along(p, base, d.atoms) /\ result = p[Len(d.atoms)]
  BY <1>2, Atoms!LeftFold DEF Listed
<1>4. p[0] = base /\ \A i \in 1..Len(d.atoms) : p[i] = AtomStep(p[i - 1], d.atoms[i])
  BY <1>3 DEF Atoms!Along
<1> HIDE DEF base, result
<1>5. CASE d.atoms = <<a>>
  <2>1. result = AtomStep(base, a)
    BY <1>3, <1>4, <1>5
  <2>2. QED
    BY <1>1, <2>1 DEF AtomStep, result, base
<1>6. CASE \E u : CalmAtom(u) /\ d.atoms = <<u, a>>
  <2>1. PICK u : CalmAtom(u) /\ d.atoms = <<u, a>>
    BY <1>6
  <2>2. p[1] = AtomStep(base, u) /\ result = AtomStep(p[1], a)
    BY <1>3, <1>4, <2>1
  <2>3. Calm(p[1])
    BY <1>1, <2>1, <2>2, HandleAtomCalm, ThenCalm DEF AtomStep, Calm
  <2>4. QED
    BY <2>2, <2>3 DEF AtomStep, result, base
<1>7. QED
  BY <1>5, <1>6 DEF Final

LEMMA HandleAtomsEnds ==
  ASSUME NEW q, Running(q), NEW ev, Heard(ad.up, ev), Configured,
         ad.client # ad.up, ~(ad.client = Messages /\ ad.up = Responses)
  PROVE  Outcome(q, ev, HandleAtoms(ad, q, ev))
<1> DEFINE d == DecodeStreamAtoms(ad, q, ev)
           result == HandleAtoms(ad, q, ev)
<1>0. Chat # Responses /\ Chat # Messages /\ Messages # Responses
  BY DEF Chat, Responses, Messages
<1>1. \/ Goes(q, d) /\ (ad.up = Chat /\ ev.stop = "" => Stopless(d.atoms))
      \/ \E a : FinalOf(d, ev, a)
  <2>1. CASE ad.up = Chat
    BY <1>0, <2>1, ChatDecodes DEF DecodeStreamAtoms
  <2>2. CASE ad.up = Responses
    BY <1>0, <2>2, ResponsesDecodes DEF DecodeStreamAtoms
  <2>3. CASE ad.up = Messages
    BY <1>0, <2>3, MessagesDecodes DEF DecodeStreamAtoms
  <2>4. QED
    BY <2>1, <2>2, <2>3 DEF Configured, Protocols
<1>2. result = Atoms!Left(Nothing(d.s), d.atoms)
  BY FoldsAtoms
<1> HIDE DEF d, result
<1>3. CASE Goes(q, d) /\ (ad.up = Chat /\ ev.stop = "" => Stopless(d.atoms))
  <2>1. Calm(result)
    BY <1>2, <1>3, CalmFold DEF Goes
  <2>2. ad.up = Chat /\ ev.stop = "" /\ q.stop = "" => result.s.stop = ""
    BY <1>2, <1>3, CalmFold DEF Goes
  <2>3. QED
    BY <2>1, <2>2 DEF Outcome, result
<1>4. CASE \E a : FinalOf(d, ev, a)
  <2>1. PICK a : FinalOf(d, ev, a)
    BY <1>4
  <2>2. PICK r : Calm(r) /\ result = Then(r, HandleAtom(ad, r.s, a))
    BY <1>2, <2>1, FinalFold DEF FinalOf
  <2>3. /\ Succeeds(HandleAtom(ad, r.s, a)) => Succeeds(result)
        /\ Fails(HandleAtom(ad, r.s, a)) => Fails(result)
    BY <2>2, ThenEnds
  <2>4. Running(r.s) /\ IsAtom(a)
    BY <2>1, <2>2 DEF Calm, FinalOf, Final
  <2>5. CASE a.kind = "error"
    BY <2>3, <2>4, <2>5, HandleAtomEnds DEF Outcome, Configured, result
  <2>6. CASE a.kind = "terminal" /\ EndsWell(a) /\ ev.e \in WellEndings(ad.up)
    BY <2>3, <2>4, <2>6, HandleAtomEnds DEF Outcome, Configured, result
  <2>7. CASE a.kind = "terminal" /\ ~EndsWell(a) /\ ad.up = Responses
    <3>1. ad.client = Chat
      BY <1>0, <2>7 DEF Configured, Protocols
    <3>2. QED
      BY <2>3, <2>4, <2>7, <3>1, HandleAtomEnds DEF Outcome, Configured, result
  <2>8. QED
    BY <2>1, <2>5, <2>6, <2>7 DEF FinalOf
<1>5. QED
  BY <1>1, <1>3, <1>4

LEMMA NativeChatEnds ==
  ASSUME NEW q, Running(q), NEW ev, Heard(Chat, ev), ad.client = Chat, ad.up = Chat
  PROVE  Outcome(q, ev, HandleNativeChat(q, ev))
<1> DEFINE r == HandleNativeChat(q, ev)
<1>1. CASE ev.e = "[DONE]"
  <2>1. /\ r.s = [q EXCEPT !.terminal = TRUE, !.success = TRUE, !.stop = Present(@, "stop")]
        /\ r.out = <<>>
    BY <1>1 DEF HandleNativeChat, Nothing
  <2>2. ev.e \in WellEndings(ad.up)
    BY <1>1 DEF SuccessEvents, WellEndings, Chat, Responses
  <2> HIDE DEF r
  <2>3. r.s.terminal = TRUE /\ r.s.success = TRUE
    BY <2>1 DEF Running
  <2>4. QED
    BY <2>1, <2>2, <2>3, QuietOne DEF Outcome, Succeeds, r
<1>2. CASE ev.e = "error"
  <2>1. r = Failed(q)
    BY <1>2 DEF HandleNativeChat
  <2>2. QED
    BY <2>1, FailedFails DEF Outcome
<1>3. CASE ev.e \notin {"[DONE]", "error"}
  <2> DEFINE hasChoice == ev.d # <<>> \/ ev.rsn # <<>> \/ ev.calls # <<>> \/ ev.stop # ""
             chunk == [ev EXCEPT !.type = IF hasChoice /\ ~q.roleSent THEN "assistant" ELSE @]
             p == [q EXCEPT !.roleSent = @ \/ hasChoice, !.stop = Present(ev.stop, @),
                            !.usage = IF ev.usage = NoUsage THEN @ ELSE ev.usage]
  <2>1. r = [s |-> p, out |-> <<chunk>>]
    BY <1>3 DEF HandleNativeChat
  <2>2. chunk.e \notin EndEvents
    BY <1>3 DEF Heard, EndingsOf
  <2>3. Running(p) /\ p.stop = Present(ev.stop, q.stop)
    BY DEF Running
  <2> HIDE DEF r, p, chunk
  <2>4. Calm(r) /\ r.s = p
    BY <2>1, <2>2, <2>3, QuietOne DEF Calm
  <2>5. ev.stop = "" /\ q.stop = "" => r.s.stop = ""
    BY <2>3, <2>4 DEF Present
  <2>6. QED
    BY <2>4, <2>5 DEF Outcome, r
<1>4. QED
  BY <1>1, <1>2, <1>3

LEMMA Restored ==
  ASSUME NEW ev, "e" \in DOMAIN ev
  PROVE  RestorePayload(ad, ev).e = ev.e
<1>1. "e" \in DOMAIN RestoreCall(ad, ev) /\ RestoreCall(ad, ev).e = ev.e
  BY DEF RestoreCall
<1>2. QED
  BY <1>1 DEF RestorePayload

(* What becomes of the adapter's end is decided before the event is changed. *)
LEMMA RewriteKeeps ==
  ASSUME NEW q, NEW ev, "e" \in DOMAIN ev
  PROVE  LET r == RewriteToolEvent(ad, q, ev) IN
         /\ {"s", "out"} \subseteq DOMAIN r /\ DOMAIN r.s = DOMAIN q
         /\ r.s.terminal = q.terminal /\ r.s.success = q.success /\ r.s.stop = q.stop
         /\ r.s.next = q.next /\ r.s.blockNext = q.blockNext /\ r.s.translator = q.translator
         /\ ev.e \notin EndEvents => Quiet(r.out)
         /\ ev.e \in EndEvents => \E x : r.out = <<x>> /\ x.e = ev.e
<1> DEFINE r == RewriteToolEvent(ad, q, ev)
           filled(v) == [ev EXCEPT !.d = v]
<1>1. {"s", "out"} \subseteq DOMAIN r /\ DOMAIN r.s = DOMAIN q
  BY DEF RewriteToolEvent, Nothing
<1>2. /\ r.s.terminal = q.terminal /\ r.s.success = q.success /\ r.s.stop = q.stop
      /\ r.s.next = q.next /\ r.s.blockNext = q.blockNext /\ r.s.translator = q.translator
  BY DEF RewriteToolEvent, Nothing
<1>3. RestorePayload(ad, ev).e = ev.e /\ \A v : RestorePayload(ad, filled(v)).e = ev.e
  BY Restored
<1>4. \A i, d : /\ OnItem("response.custom_tool_call_input.delta", i, d).e \notin EndEvents
                /\ OnItem("response.custom_tool_call_input.done", i, d).e \notin EndEvents
  BY Names DEF OnItem, Event
<1>5. \A x, y : x.e \notin EndEvents /\ y.e \notin EndEvents => Quiet(<<x, y>>)
  BY ListedOne DEF Quiet
<1>6. ASSUME ev.e \notin EndEvents
      PROVE  Quiet(r.out)
  BY <1>3, <1>4, <1>5, <1>6, QuietOne DEF RewriteToolEvent, Nothing
<1>7. ASSUME ev.e \in EndEvents
      PROVE  \E x : r.out = <<x>> /\ x.e = ev.e
  <2>1. r.out = <<RestorePayload(ad, ev)>>
    BY <1>7 DEF RewriteToolEvent, EndEvents, SuccessEvents, FailureEvents
  <2>2. QED
    BY <1>3, <2>1
<1>8. QED
  BY <1>1, <1>2, <1>6, <1>7

LEMMA NativeResponsesEnds ==
  ASSUME NEW q, Running(q), NEW ev, Heard(Responses, ev), ad.client = Responses, ad.up = Responses
  PROVE  Outcome(q, ev, HandleNativeResponses(ad, q, ev))
<1> DEFINE ended == ev.e \in DOMAIN ResponseStatus \cup {"error"}
           well == ev.e \in {"response.completed", "response.incomplete"}
           id == Present(IF ended \/ ev.e = "response.created" THEN ev.id ELSE "", q.id)
           p == [q EXCEPT !.id = id, !.terminal = ended, !.success = well]
           rewritten == RewriteToolEvent(ad, p, ev)
           r == HandleNativeResponses(ad, q, ev)
<1>0. Chat # Responses /\ Chat # Messages /\ Messages # Responses
  BY DEF Chat, Responses, Messages
<1>1. CASE ev.e = "[DONE]"
  <2>1. r = Nothing(q)
    BY <1>1 DEF HandleNativeResponses, Private
  <2> HIDE DEF r
  <2>2. QED
    BY <1>0, <2>1, NothingCalm DEF Outcome, Continues, r
<1>2. CASE ev.e = Private
  <2>1. r = [s |-> q, out |-> If(ad.cli, ev)]
    BY <1>2 DEF HandleNativeResponses, Private
  <2>2. Quiet(r.out)
    BY <1>2, <2>1, Names, QuietOne DEF If
  <2> HIDE DEF r
  <2>3. Calm(r)
    BY <2>1, <2>2 DEF Calm
  <2>4. QED
    BY <1>0, <2>3 DEF Outcome, r
<1>3. CASE ev.e \notin {"[DONE]", Private}
  <2>1. r = rewritten
    BY <1>3 DEF HandleNativeResponses
  <2> HIDE DEF r, rewritten, ended, well, id
  <2>2. /\ DOMAIN p = DOMAIN q /\ p.stop = q.stop /\ p.next = q.next
        /\ p.blockNext = q.blockNext /\ p.translator = q.translator
    BY DEF Running
  <2>3. p.terminal = ended /\ p.success = well
    BY DEF Running
  <2> HIDE DEF p
  <2>4. /\ {"s", "out"} \subseteq DOMAIN r /\ DOMAIN r.s = DOMAIN q
        /\ r.s.terminal = p.terminal /\ r.s.success = p.success
        /\ r.s.next = q.next /\ r.s.blockNext = q.blockNext /\ r.s.translator = q.translator
        /\ ev.e \notin EndEvents => Quiet(r.out)
        /\ ev.e \in EndEvents => \E x : r.out = <<x>> /\ x.e = ev.e
    BY <2>1, <2>2, RewriteKeeps DEF Heard, rewritten
  <2>5. CASE ev.e \notin EndEvents
    <3>1. p.terminal = FALSE /\ p.success = FALSE
      <4>1. ~ended /\ ~well
        BY <2>5 DEF EndEvents, SuccessEvents, FailureEvents, ResponseStatus, ended, well
      <4>2. ended = FALSE /\ well = FALSE
        BY <4>1 DEF ended, well
      <4>3. QED
        BY <2>3, <4>2
    <3>2. Calm(r)
      BY <2>4, <2>5, <3>1 DEF Calm, Running
    <3>3. QED
      BY <1>0, <3>2 DEF Outcome, r
  <2>6. CASE ev.e \in {"response.completed", "response.incomplete"}
    <3>1. p.terminal = TRUE /\ p.success = TRUE /\ ev.e \in SuccessEvents
      <4>1. ended /\ well /\ ev.e \in SuccessEvents
        BY <2>6 DEF SuccessEvents, ResponseStatus, ended, well
      <4>2. ended = TRUE /\ well = TRUE
        BY <4>1 DEF ended, well
      <4>3. QED
        BY <2>3, <4>1, <4>2
    <3>2. PICK x : r.out = <<x>> /\ x.e \in SuccessEvents
      BY <2>4, <3>1 DEF EndEvents
    <3>3. Completes(r)
      BY <2>4, <3>1, <3>2, EndsOne DEF Completes
    <3>4. ev.e \in WellEndings(ad.up)
      BY <2>6 DEF WellEndings, CompletedEvents
    <3>5. QED
      BY <1>0, <3>3, <3>4 DEF Outcome, Succeeds, r
  <2>7. CASE ev.e \in {"response.failed", "error"}
    <3>1. p.terminal = TRUE /\ p.success = FALSE /\ ev.e \in FailureEvents
      <4>1. ended /\ ~well /\ ev.e \in FailureEvents
        BY <2>7 DEF FailureEvents, ResponseStatus, ended, well
      <4>2. ended = TRUE /\ well = FALSE
        BY <4>1 DEF ended, well
      <4>3. QED
        BY <2>3, <4>1, <4>2
    <3>2. PICK x : r.out = <<x>> /\ x.e \in FailureEvents
      BY <2>4, <3>1 DEF EndEvents
    <3>3. Fails(r)
      BY <2>4, <3>1, <3>2, EndsOne DEF Fails
    <3>4. QED
      BY <3>3 DEF Outcome, r
  <2>8. QED
    BY <1>0, <1>3, <2>5, <2>6, <2>7 DEF Heard, EndingsOf
<1>4. QED
  BY <1>1, <1>2, <1>3

LEMMA NativeMessagesEnds ==
  ASSUME NEW q, Running(q), NEW ev, Heard(Messages, ev), ad.client = Messages, ad.up = Messages
  PROVE  Outcome(q, ev, HandleNativeMessages(ad, q, ev))
<1> DEFINE ended == ev.e \in {"message_stop", "error"}
           well == ev.e = "message_stop"
           p == [q EXCEPT !.terminal = ended, !.success = well]
           r == HandleNativeMessages(ad, q, ev)
<1>0. Chat # Responses /\ Chat # Messages /\ Messages # Responses
  BY DEF Chat, Responses, Messages
<1>1. r.s = p /\ {"s", "out"} \subseteq DOMAIN r
  BY DEF HandleNativeMessages
<1>2. r.out = <<ev>> \/ (ev.e = Private /\ r.out = <<>>)
  BY DEF HandleNativeMessages, If
<1> HIDE DEF r, ended, well
<1>3. /\ DOMAIN p = DOMAIN q /\ p.stop = q.stop /\ p.next = q.next
      /\ p.blockNext = q.blockNext /\ p.translator = q.translator
      /\ p.terminal = ended /\ p.success = well
  BY DEF Running
<1> HIDE DEF p
<1>4. CASE ev.e \notin EndEvents
  <2>1. p.terminal = FALSE /\ p.success = FALSE
    <3>1. ~ended /\ ~well
      BY <1>4 DEF EndEvents, SuccessEvents, FailureEvents, ended, well
    <3>2. ended = FALSE /\ well = FALSE
      BY <3>1 DEF ended, well
    <3>3. QED
      BY <1>3, <3>2
  <2>2. Calm(r)
    BY <1>1, <1>2, <1>3, <1>4, <2>1, QuietOne DEF Calm, Running
  <2>3. QED
    BY <1>0, <2>2 DEF Outcome, r
<1>5. CASE ev.e = "message_stop"
  <2>1. p.terminal = TRUE /\ p.success = TRUE /\ ev.e \in SuccessEvents /\ r.out = <<ev>>
    <3>1. ended = TRUE /\ well = TRUE
      BY <1>5 DEF ended, well
    <3>2. ev.e \in SuccessEvents /\ r.out = <<ev>>
      BY <1>2, <1>5 DEF SuccessEvents, Private
    <3>3. QED
      BY <1>3, <3>1, <3>2
  <2>2. Completes(r)
    BY <1>1, <2>1, EndsOne DEF Completes
  <2>3. ev.e \in WellEndings(ad.up)
    BY <1>0, <2>1 DEF WellEndings
  <2>4. QED
    BY <1>0, <2>2, <2>3 DEF Outcome, Succeeds, r
<1>6. CASE ev.e = "error"
  <2>1. p.terminal = TRUE /\ p.success = FALSE /\ ev.e \in FailureEvents /\ r.out = <<ev>>
    <3>1. ended = TRUE /\ well = FALSE
      BY <1>6 DEF ended, well
    <3>2. ev.e \in FailureEvents /\ r.out = <<ev>>
      BY <1>2, <1>6 DEF FailureEvents, Private
    <3>3. QED
      BY <1>3, <3>1, <3>2
  <2>2. Fails(r)
    BY <1>1, <2>1, EndsOne DEF Fails
  <2>3. QED
    BY <2>2 DEF Outcome, r
<1>7. QED
  BY <1>0, <1>4, <1>5, <1>6 DEF Heard, EndingsOf

LEMMA TranslatedEnds ==
  ASSUME NEW q, Running(q), NEW ev, Heard(Responses, ev), ad.client = Messages, ad.up = Responses
  PROVE  Outcome(q, ev, HandleResponsesToMessages(ad, q, ev))
<1> DEFINE t == TranslatorHandle(ad, q.translator, ev)
           ended == ev.e \in CompletedEvents
           p == [q EXCEPT !.translator = t.t, !.terminal = ended, !.success = ended]
           r == HandleResponsesToMessages(ad, q, ev)
<1>0. Chat # Responses /\ Chat # Messages /\ Messages # Responses
  BY DEF Chat, Responses, Messages
<1>1. /\ ev.e \notin CompletedEvents \cup {"response.failed", "error"} => Going(t)
      /\ ev.e \in CompletedEvents => Ends(t.out, {"message_stop"})
  BY TranslatorGoes DEF Running
<1>2. CASE ev.e = "[DONE]"
  <2>1. r = Nothing(q)
    BY <1>2 DEF HandleResponsesToMessages
  <2> HIDE DEF r
  <2>2. QED
    BY <1>0, <2>1, NothingCalm DEF Outcome, Continues, r
<1>3. CASE ev.e \in {"response.failed", "error"}
  <2>1. r = Failed(q)
    BY <1>3 DEF HandleResponsesToMessages
  <2>2. QED
    BY <2>1, FailedFails DEF Outcome
<1>4. CASE ev.e \notin {"[DONE]", "response.failed", "error"}
  <2>1. r.s = p /\ r.out = t.out /\ {"s", "out"} \subseteq DOMAIN r
    BY <1>4 DEF HandleResponsesToMessages, CompletedEvents
  <2> HIDE DEF r, t, ended
  <2>2. /\ DOMAIN p = DOMAIN q /\ p.next = q.next /\ p.blockNext = q.blockNext
        /\ p.translator = t.t /\ p.terminal = ended /\ p.success = ended
    BY DEF Running
  <2> HIDE DEF p
  <2>3. CASE ev.e \notin CompletedEvents
    <3>1. ended = FALSE
      BY <2>3 DEF ended
    <3>2. Calm(r)
      BY <1>1, <1>4, <2>1, <2>2, <2>3, <3>1 DEF Calm, Running, Going
    <3>3. QED
      BY <1>0, <3>2 DEF Outcome, r
  <2>4. CASE ev.e \in CompletedEvents
    <3>1. Ends(t.out, SuccessEvents)
      BY <1>1, <2>4 DEF Ends, SuccessEvents
    <3>2. Completes(r)
      <4>1. ended = TRUE
        BY <2>4 DEF ended
      <4>2. QED
        BY <2>1, <2>2, <3>1, <4>1 DEF Completes
    <3>3. ev.e \in WellEndings(ad.up)
      BY <2>4 DEF WellEndings
    <3>4. QED
      BY <1>0, <3>2, <3>3 DEF Outcome, Succeeds, r
  <2>5. QED
    BY <2>3, <2>4
<1>5. QED
  BY <1>2, <1>3, <1>4

LEMMA HandleEnds ==
  ASSUME NEW q, Running(q), NEW ev, Heard(ad.up, ev), Configured
  PROVE  Outcome(q, ev, Handle(ad, q, ev))
<1>0. Chat # Responses /\ Chat # Messages /\ Messages # Responses
  BY DEF Chat, Responses, Messages
<1>1. q.terminal = FALSE
  BY DEF Running
<1>2. CASE ad.client = Messages /\ ad.up = Responses
  <2>1. Handle(ad, q, ev) = HandleResponsesToMessages(ad, q, ev)
    BY <1>0, <1>1, <1>2 DEF Handle, NativePair
  <2>2. QED
    BY <1>2, <2>1, TranslatedEnds
<1>3. CASE ad.client = Chat /\ ad.up = Chat
  <2>1. Handle(ad, q, ev) = HandleNativeChat(q, ev)
    BY <1>0, <1>1, <1>3 DEF Handle, NativePair
  <2>2. QED
    BY <1>3, <2>1, NativeChatEnds
<1>4. CASE ad.client = Responses /\ ad.up = Responses
  <2>1. Handle(ad, q, ev) = HandleNativeResponses(ad, q, ev)
    BY <1>0, <1>1, <1>4 DEF Handle, NativePair
  <2>2. QED
    BY <1>4, <2>1, NativeResponsesEnds
<1>5. CASE ad.client = Messages /\ ad.up = Messages
  <2>1. Handle(ad, q, ev) = HandleNativeMessages(ad, q, ev)
    BY <1>0, <1>1, <1>5 DEF Handle, NativePair
  <2>2. QED
    BY <1>5, <2>1, NativeMessagesEnds
<1>6. CASE ad.client # ad.up /\ ~(ad.client = Messages /\ ad.up = Responses)
  <2>1. Handle(ad, q, ev) = HandleAtoms(ad, q, ev)
    BY <1>1, <1>6 DEF Handle, NativePair
  <2>2. QED
    BY <1>6, <2>1, HandleAtomsEnds
<1>7. QED
  BY <1>2, <1>3, <1>4, <1>5, <1>6 DEF Configured, Protocols

LEMMA FinishEndsStream ==
  ASSUME NEW q, Running(q), Configured
  PROVE  \/ Fails(Finish(ad, q))
         \/ Completes(Finish(ad, q)) /\ ad.up = Chat /\ q.stop # ""
<1> DEFINE r == Finish(ad, q)
           a == [Atom("terminal") EXCEPT !.status = "completed", !.stop = q.stop]
<1>1. q.terminal = FALSE
  BY DEF Running
<1>2. CASE ~(ad.up = Chat /\ q.stop # "")
  <2>1. r = Failed(q)
    BY <1>1, <1>2 DEF Finish
  <2>2. QED
    BY <2>1, FailedFails
<1>3. CASE ad.up = Chat /\ q.stop # "" /\ ad.client = Chat
  <2>1. r.s = [q EXCEPT !.terminal = TRUE, !.success = TRUE] /\ r.out = <<Event("[DONE]")>>
    BY <1>1, <1>3 DEF Finish, NativePair
  <2> HIDE DEF r
  <2>2. Event("[DONE]").e \in SuccessEvents
    BY DEF Event, SuccessEvents
  <2>3. Ends(r.out, SuccessEvents)
    BY <2>1, <2>2, EndsOne
  <2>4. r.s.terminal = TRUE /\ r.s.success = TRUE
    BY <2>1 DEF Running
  <2>5. QED
    BY <1>3, <2>3, <2>4 DEF Completes, r
<1>4. CASE ad.up = Chat /\ q.stop # "" /\ ad.client # Chat
  <2>1. r = Encode(ad, q, a)
    BY <1>1, <1>4 DEF Finish, NativePair
  <2>2. IsAtom(a) /\ a.kind = "terminal" /\ EndsWell(a)
    BY DEF Atom, IsAtom, EndsWell
  <2> HIDE DEF a
  <2>3. Succeeds(r)
    BY <2>1, <2>2, EncodeTerminates DEF Configured
  <2>4. QED
    BY <1>4, <2>3 DEF Succeeds
<1>5. QED
  BY <1>2, <1>3, <1>4

-----------------------------------------------------------------------------
(* What the upstream says in each part of its stream.                        *)

(* An event of the answer itself, which says nothing of the end.             *)
BodyEvent(ev) ==
    {"e", "calls", "stop"} \subseteq DOMAIN ev /\ Listed(ev.calls)
    /\ ev.e \notin EndEvents /\ ev.stop = ""
Body(seq) == Listed(seq) /\ \A ev \in ToSet(seq) : BodyEvent(ev)

LEMMA BodyOne ==
  /\ Body(<<>>)
  /\ \A x : BodyEvent(x) => Body(<<x>>)
  /\ \A x, y : BodyEvent(x) /\ BodyEvent(y) => Body(<<x, y>>)
BY ListedOne DEF Body

LEMMA BodyConcat ==
  ASSUME NEW a, NEW b, Body(a), Body(b)
  PROVE  Body(a \o b)
BY ListedConcat DEF Body

LEMMA BodyFunction ==
  ASSUME NEW c, Listed(c), NEW f, f = [k \in DOMAIN c |-> f[k]], \A k \in DOMAIN c : BodyEvent(f[k])
  PROVE  Body(f)
<1>1. Len(c) \in Nat /\ DOMAIN c = 1..Len(c)
  BY ListedRange
<1>2. Listed(f) /\ ToSet(f) = {f[i] : i \in 1..Len(c)}
  BY <1>1, ListedFunction
<1>3. QED
  BY <1>1, <1>2 DEF Body

(* Events the adapter or an upstream makes of a name.                        *)
QuietNames ==
    {"message_start", "content_block_start", "content_block_delta", "content_block_stop",
     "message_delta", "chunk", "response.created", "response.output_item.added",
     "response.output_item.done", "response.content_part.added", "response.content_part.done",
     "response.output_text.delta", "response.output_text.done",
     "response.reasoning_summary_part.added", "response.reasoning_summary_part.done",
     "response.reasoning_summary_text.delta", "response.reasoning_summary_text.done",
     "response.function_call_arguments.delta", "response.function_call_arguments.done",
     Private}

LEMMA OnItemBody ==
  ASSUME NEW name \in QuietNames, NEW i, NEW d
  PROVE  BodyEvent(OnItem(name, i, d))
BY Names, ListedOne DEF OnItem, Event, BodyEvent, QuietNames

LEMMA ItemBody ==
  ASSUME NEW i, NEW item
  PROVE  BodyEvent(Added(i, item)) /\ BodyEvent(Done(i, item))
BY Names, ListedOne DEF Added, Done, ItemEvent, OnItem, Event, BodyEvent

LEMMA ChatPartBody ==
  ASSUME NEW a, NEW k, Listed(a.items[k].chunks)
  PROVE  Body(ChatPart(a, k))
<1> DEFINE item == a.items[k]
           tool == Cardinality({j \in 1..k-1 : a.items[j].kind = "tool"})
           pieces == IF item.chunks = <<>> THEN <<Arguments(item)>> ELSE item.chunks
           named == IF item.late THEN 2 ELSE 1
           x(j) == [i |-> tool, id |-> IF j = 1 THEN item.id ELSE "",
                    name |-> IF j = named THEN item.name ELSE "", d |-> pieces[j]]
           text == [j \in DOMAIN item.chunks |-> [Event("chunk") EXCEPT !.d = item.chunks[j]]]
           thought == [j \in DOMAIN item.chunks |-> [Event("chunk") EXCEPT !.rsn = item.chunks[j]]]
           calls == [j \in DOMAIN pieces |-> [Event("chunk") EXCEPT !.calls = <<x(j)>>]]
<1>1. ChatPart(a, k) \in {text, thought, calls}
  BY DEF ChatPart, Deltas
<1> HIDE DEF pieces, x
<1>2. Body(text)
  <2>1. \A d : BodyEvent([Event("chunk") EXCEPT !.d = d])
    BY Names, ListedOne DEF Event, BodyEvent
  <2>2. QED
    BY <2>1, BodyFunction
<1>3. Body(thought)
  <2>1. \A d : BodyEvent([Event("chunk") EXCEPT !.rsn = d])
    BY Names, ListedOne DEF Event, BodyEvent
  <2>2. QED
    BY <2>1, BodyFunction
<1>4. Body(calls)
  <2>1. \A c : BodyEvent([Event("chunk") EXCEPT !.calls = <<c>>])
    BY Names, ListedOne DEF Event, BodyEvent
  <2>2. Listed(pieces)
    BY ListedOne DEF pieces
  <2>3. QED
    BY <2>1, <2>2, BodyFunction
<1> HIDE DEF text, thought, calls
<1>5. QED
  BY <1>1, <1>2, <1>3, <1>4

LEMMA DeltasBody ==
  ASSUME NEW name \in QuietNames, NEW i, NEW c, Listed(c)
  PROVE  Body([j \in DOMAIN c |-> OnItem(name, i, c[j])])
<1>1. \A j \in DOMAIN c : BodyEvent(OnItem(name, i, c[j]))
  BY OnItemBody
<1>2. QED
  BY <1>1, BodyFunction

LEMMA ResponsesPartBody ==
  ASSUME NEW a, NEW k, Listed(a.items[k].chunks)
  PROVE  Body(ResponsesPart(a, k))
<1> DEFINE item == a.items[k]
           i == k - 1
           whole == ResponsesItem(item)
           empty == [whole EXCEPT !.d = IF item.kind = "tool" /\ item.whole THEN @ ELSE <<>>,
                                  !.sig = <<>>]
           deltas(name) == [j \in DOMAIN item.chunks |-> OnItem(name, i, item.chunks[j])]
           one(name, d) == <<OnItem(name, i, d)>>
           two(first, second) == <<OnItem(first, i, whole.d), OnItem(second, i, whole.d)>>
           text == one("response.content_part.added", <<>>) \o deltas("response.output_text.delta")
                   \o two("response.output_text.done", "response.content_part.done")
           thought == one("response.reasoning_summary_part.added", <<>>)
                      \o deltas("response.reasoning_summary_text.delta")
                      \o two("response.reasoning_summary_text.done",
                             "response.reasoning_summary_part.done")
           call == (IF item.whole THEN <<>> ELSE deltas("response.function_call_arguments.delta"))
                   \o one("response.function_call_arguments.done", whole.d)
           first == <<Added(i, empty)>>
           last == <<Done(i, whole)>>
<1>1. ResponsesPart(a, k) \in {first \o told \o last : told \in {text, thought, call}}
  BY DEF ResponsesPart, Deltas
<1> HIDE DEF i, whole, empty
<1>2. Body(first) /\ Body(last)
  BY ItemBody, BodyOne
<1>3. \A name \in QuietNames : Body(deltas(name)) /\ \A d : Body(one(name, d))
  BY DeltasBody, OnItemBody, BodyOne
<1>4. \A n1 \in QuietNames, n2 \in QuietNames : Body(two(n1, n2))
  BY OnItemBody, BodyOne
<1> HIDE DEF first, last, deltas, one, two
<1>5. Body(text) /\ Body(thought) /\ Body(call)
  BY <1>3, <1>4, BodyOne, BodyConcat DEF QuietNames
<1> HIDE DEF text, thought, call
<1>6. \A told \in {text, thought, call} : Body(first \o told \o last)
  BY <1>2, <1>5, BodyConcat
<1>7. QED
  BY <1>1, <1>6

LEMMA MessagesPartBody ==
  ASSUME NEW a, NEW k, Listed(a.items[k].chunks), Listed(a.items[k].sig)
  PROVE  Body(MessagesPart(a, k))
<1> DEFINE item == a.items[k]
           on(name, type, d) == [Event(name) EXCEPT !.i = k - 1, !.type = type, !.d = d]
           deltas(type) == [j \in DOMAIN item.chunks |-> on("content_block_delta", type, item.chunks[j])]
           signature == [j \in DOMAIN item.sig |->
                            on("content_block_delta", "signature_delta", <<item.sig[j]>>)]
           start(type) == <<on("content_block_start", type, <<>>)>>
           stop == <<on("content_block_stop", "", <<>>)>>
           call == <<[on("content_block_start", "tool_use",
                         IF item.whole THEN Arguments(item) ELSE <<"{}">>)
                           EXCEPT !.id = item.id, !.name = item.name]>>
           all == {start("text") \o deltas("text_delta") \o stop,
                   start("thinking") \o deltas("thinking_delta") \o signature \o stop,
                   call \o (IF item.whole THEN <<>> ELSE deltas("input_json_delta")) \o stop}
<1>1. MessagesPart(a, k) \in all
  BY DEF MessagesPart, Deltas
<1>2. \A type, d : /\ BodyEvent(on("content_block_start", type, d))
                   /\ BodyEvent(on("content_block_delta", type, d))
                   /\ BodyEvent(on("content_block_stop", type, d))
  BY Names, ListedOne DEF Event, BodyEvent
<1>3. \A d, id, name : BodyEvent([on("content_block_start", "tool_use", d) EXCEPT !.id = id, !.name = name])
  BY Names, ListedOne DEF Event, BodyEvent
<1>4. Body(call)
  BY <1>3, BodyOne
<1> HIDE DEF on
<1>5. /\ \A type : Body(start(type)) /\ Body(deltas(type))
      /\ Body(stop) /\ Body(signature)
  BY <1>2, BodyOne, BodyFunction
<1> HIDE DEF deltas, signature, start, stop, call
<1>6. \A seq \in all : Body(seq)
  BY <1>4, <1>5, BodyOne, BodyConcat
<1> HIDE DEF all
<1>7. QED
  BY <1>1, <1>6

(* The head of a stream says nothing of the end either.                      *)
LEMMA OpeningBody ==
  ASSUME NEW up, NEW a
  PROVE  Body(Opening(up, a))
<1>1. /\ BodyEvent([Event("response.created") EXCEPT !.id = "resp_up"])
      /\ BodyEvent(Event(Private))
      /\ BodyEvent([Event("message_start") EXCEPT !.usage = [input |-> a.usage.input, output |-> 0]])
  BY Names, ListedOne DEF Event, BodyEvent
<1>2. QED
  BY <1>1, BodyOne DEF Opening

(* The tail says of the end what its dialect can.                            *)
Says(up, seq) == Listed(seq) /\ \A ev \in ToSet(seq) : Heard(up, ev)

LEMMA BodySays ==
  ASSUME NEW up, NEW seq, Body(seq)
  PROVE  Says(up, seq)
BY DEF Body, BodyEvent, Says, Heard

LEMMA ChatTailSays ==
  ASSUME NEW a
  PROVE  Says(Chat, ChatTail(a))
<1> DEFINE first == If(a.stop # "", [Event("chunk") EXCEPT !.stop = a.stop])
           x == [Event("chunk") EXCEPT !.usage = a.usage]
           y == Event("[DONE]")
<1>1. Heard(Chat, [Event("chunk") EXCEPT !.stop = a.stop])
  BY Names, ListedOne DEF Event, Heard
<1>2. Says(Chat, first)
  <2>1. ASSUME NEW v, Heard(Chat, v)
        PROVE  Says(Chat, <<v>>)
    <3> DEFINE seq == <<v>>
    <3>1. Listed(seq) /\ ToSet(seq) = {v}
      BY ListedOne
    <3> HIDE DEF seq
    <3>2. Says(Chat, seq)
      BY <2>1, <3>1 DEF Says
    <3>3. QED
      BY <3>2 DEF seq
  <2>2. Says(Chat, <<>>)
    BY ListedOne DEF Says
  <2>3. QED
    BY <1>1, <2>1, <2>2 DEF If
<1>3. Heard(Chat, x)
  BY Names, ListedOne DEF Event, Heard
<1>4. Heard(Chat, y)
  BY ListedOne DEF Event, Heard, EndingsOf
<1> HIDE DEF first, x, y
<1>5. Says(Chat, <<x, y>>)
  BY <1>3, <1>4, ListedOne DEF Says
<1>6. Says(Chat, first \o <<x, y>>)
  BY <1>2, <1>5, ListedConcat DEF Says
<1>7. QED
  BY <1>6 DEF ChatTail, first, x, y

LEMMA ResponsesTailSays ==
  ASSUME NEW a
  PROVE  Says(Responses, ResponsesTail(a))
<1> DEFINE name == CASE a.stop = "" -> "response.completed"
                     [] a.stop = "failed" -> "response.failed"
                     [] OTHER -> "response.incomplete"
           items == [k \in DOMAIN a.items |-> ResponsesItem(a.items[k])]
           stop == IF a.stop = "failed" THEN "" ELSE a.stop
           x == [Event(name) EXCEPT !.id = "resp_up", !.items = items, !.usage = a.usage,
                                    !.stop = stop]
           y == Event("[DONE]")
<1>1. ResponsesTail(a) = <<x, y>>
  BY DEF ResponsesTail
<1>2. name \in EndingsOf(Responses)
  BY DEF EndingsOf, Chat, Responses, Messages
<1> HIDE DEF name, items, stop
<1>3. Heard(Responses, x)
  BY <1>2, ListedOne DEF Event, Heard
<1>4. Heard(Responses, y)
  BY ListedOne DEF Event, Heard, EndingsOf, Chat, Responses, Messages
<1> HIDE DEF x, y
<1>5. QED
  BY <1>1, <1>3, <1>4, ListedOne DEF Says

LEMMA MessagesTailSays ==
  ASSUME NEW a
  PROVE  Says(Messages, MessagesTail(a))
<1> DEFINE x == [Event("message_delta") EXCEPT !.stop = a.stop,
                    !.usage = [input |-> 0, output |-> a.usage.output]]
           y == Event("message_stop")
<1>1. Heard(Messages, x)
  BY Names, ListedOne DEF Event, Heard
<1>2. Heard(Messages, y)
  BY ListedOne DEF Event, Heard, EndingsOf, Chat, Messages
<1> HIDE DEF x, y
<1>3. Says(Messages, <<x, y>>)
  BY <1>1, <1>2, ListedOne DEF Says
<1>4. QED
  BY <1>3 DEF MessagesTail, x, y

LEMMA PartSays ==
  ASSUME NEW up \in Protocols, NEW a \in Answers[up]
  PROVE  /\ Len(a.items) \in Nat
         /\ \A k \in 0..Len(a.items) + 1 : Says(up, Part(up, a, k))
         /\ \A k \in 0..Len(a.items) : Body(Part(up, a, k))
<1>0. Chat # Responses /\ Chat # Messages /\ Messages # Responses
  BY DEF Chat, Responses, Messages
<1>1. a.items \in Seq(ToSet(a.items))
  BY StreamAssumption DEF IsList
<1>2. Len(a.items) \in Nat /\ \A k \in 1..Len(a.items) : a.items[k] \in ToSet(a.items)
  BY <1>1
<1>3. \A item \in ToSet(a.items) : Listed(item.chunks) /\ Listed(item.sig)
  BY StreamAssumption, IsListed
<1>4. ASSUME NEW k \in 0..Len(a.items)
      PROVE  Body(Part(up, a, k))
  <2>1. CASE k = 0
    BY <2>1, OpeningBody DEF Part
  <2>2. CASE k # 0
    <3>1. Body(ResponsesPart(a, k)) /\ Body(MessagesPart(a, k)) /\ Body(ChatPart(a, k))
      BY <1>2, <1>3, <2>2, ResponsesPartBody, MessagesPartBody, ChatPartBody
    <3>2. k =< Len(a.items)
      BY <1>2
    <3>3. QED
      BY <2>2, <3>1, <3>2 DEF Part
  <2>3. QED
    BY <2>1, <2>2
<1>5. ASSUME NEW k, k = Len(a.items) + 1
      PROVE  Says(up, Part(up, a, k))
  <2>1. k # 0 /\ ~(k =< Len(a.items))
    BY <1>2, <1>5
  <2>2. Part(up, a, k) = IF up = Responses THEN ResponsesTail(a)
                         ELSE IF up = Messages THEN MessagesTail(a) ELSE ChatTail(a)
    BY <1>0, <2>1 DEF Part
  <2>3. QED
    BY <2>2, ResponsesTailSays, MessagesTailSays, ChatTailSays DEF Protocols
<1>6. QED
  BY <1>2, <1>4, <1>5, BodySays

-----------------------------------------------------------------------------
(* The inductive invariant: what the client was sent in each phase of the    *)
(* stream, and that the upstream had told everything before a success.       *)

Placed ==
    /\ ad \in Configs /\ answer \in Answers[ad.up]
    /\ DOMAIN read = Parts
    /\ \A k \in Parts : read[k] \in 0..Len(Part(ad.up, answer, k))
Open ==
    /\ Running(s) /\ Quiet(sent) /\ fate = "none" /\ bound.done = FALSE
    /\ ad.up = Chat /\ s.stop # "" => UpstreamDone
Won ==
    /\ s.terminal = TRUE /\ s.success = TRUE /\ fate = "none" /\ UpstreamDone
    /\ bound.done = FALSE
    /\ IF pc = "committing" /\ ad.client = Chat THEN Quiet(sent)
       ELSE Ends(sent, SuccessEvents)
Closed ==
    /\ s.terminal = TRUE \/ s.success = FALSE
    /\ \/ Quiet(sent) /\ fate \in {"clientGone", "canceled"} /\ bound.done = FALSE
       \/ Ends(sent, FailureEvents) /\ bound.done = FALSE
       \/ Ends(sent, SuccessEvents) /\ UpstreamDone /\ bound.done = TRUE
Phased ==
    /\ pc \in {"reading", "committing", "finishing", "ended"}
    /\ fate \in {"none", "clientGone", "failed", "canceled"}
    /\ pc = "reading" => Open
    /\ pc \in {"committing", "finishing"} => Won
    /\ pc = "ended" => Closed
SInv == Placed /\ Phased

LEMMA InitSInv ==
  ASSUME Init
  PROVE  SInv
<1>1. Placed
  <2>1. ad.up \in Protocols
    BY StreamAssumption DEF Init
  <2>2. \A k \in Parts : Says(ad.up, Part(ad.up, answer, k))
    BY <2>1, PartSays DEF Init, Parts
  <2>3. \A k \in Parts : Len(Part(ad.up, answer, k)) \in Nat
    BY <2>2, ListedRange DEF Says
  <2>4. QED
    BY <2>3 DEF Init, Placed
<1>2. Running(s) /\ s.stop = ""
  BY DEF Init, NewBackendStreamAdapter, NewStreamTranslator, Running, Translating
<1>3. Open
  BY <1>2, QuietOne DEF Init, Open, Unbound
<1>4. QED
  BY <1>1, <1>3 DEF Init, Phased, SInv

(* Everything that is written, or only a beginning of it.                    *)
LEMMA EmitCases ==
  ASSUME NEW r, NEW after, Listed(r.out), Emit(r, after)
  PROVE  /\ s' = r.s
         /\ \/ pc' = after /\ fate' = fate /\ sent' = sent \o r.out
            \/ /\ pc' = "ended" /\ fate' = "clientGone"
               /\ \E n \in 0..Len(r.out) : n < Len(r.out) /\ sent' = sent \o SubSeq(r.out, 1, n)
<1>1. PICK n \in 0..Len(r.out) :
        /\ s' = r.s
        /\ sent' = sent \o SubSeq(r.out, 1, n)
        /\ pc' = IF n < Len(r.out) THEN "ended" ELSE after
        /\ fate' = IF n < Len(r.out) THEN "clientGone" ELSE fate
  BY DEF Emit
<1>2. r.out \in Seq(ToSet(r.out))
  BY ListedRange
<1>3. SubSeq(r.out, 1, Len(r.out)) = r.out
  BY <1>2
<1>4. CASE n < Len(r.out)
  BY <1>1, <1>4
<1>5. CASE ~(n < Len(r.out))
  <2>1. n = Len(r.out)
    BY <1>2, <1>5
  <2>2. QED
    BY <1>1, <1>3, <2>1
<1>6. QED
  BY <1>4, <1>5

LEMMA EndsListed ==
  ASSUME NEW out, NEW E, Ends(out, E)
  PROVE  Listed(out)
<1>1. PICK f, x : out = Append(f, x) /\ Listed(f)
  BY DEF Ends, Quiet
<1>2. QED
  BY <1>1, ListedAppend

(* The phase after an emission, by what is emitted.                          *)
LEMMA EmitPhased ==
  ASSUME NEW r, NEW after, Emit(r, after), Open, UNCHANGED <<ad, answer, bound>>,
         \/ Calm(r) /\ after = "reading" /\ (ad.up = Chat /\ r.s.stop # "" => UpstreamDone')
         \/ Fails(r) /\ after = "ended"
         \/ Succeeds(r) /\ after = "committing" /\ UpstreamDone'
         \/ Completes(r) /\ after = "finishing" /\ UpstreamDone'
  PROVE  Phased'
<1>1. Quiet(r.out) \/ \E E : Ends(r.out, E)
  BY DEF Calm, Fails, Succeeds, Completes
<1>2. Listed(r.out)
  BY <1>1, EndsListed DEF Quiet
<1>3. s' = r.s
  BY <1>2, EmitCases
<1>4. s'.terminal = TRUE \/ s'.success = FALSE
  BY <1>3 DEF Calm, Running, Fails, Succeeds, Completes
<1>0. bound'.done = FALSE
  BY DEF Open
<1>5. CASE \E n \in 0..Len(r.out) : n < Len(r.out) /\ pc' = "ended" /\ fate' = "clientGone"
                                     /\ sent' = sent \o SubSeq(r.out, 1, n)
  <2>1. PICK n \in 0..Len(r.out) : n < Len(r.out) /\ sent' = sent \o SubSeq(r.out, 1, n)
    BY <1>5
  <2>2. Quiet(SubSeq(r.out, 1, n))
    BY <1>1, <2>1, QuietPrefix, EndsPrefix
  <2>3. Quiet(sent')
    BY <2>1, <2>2, QuietConcat DEF Open
  <2>4. QED
    BY <1>0, <1>4, <1>5, <2>3 DEF Phased, Closed
<1>6. CASE pc' = after /\ fate' = fate /\ sent' = sent \o r.out
  <2>0. Quiet(sent) /\ fate' = "none" /\ ad' = ad /\ bound'.done = FALSE
    BY <1>0, <1>6 DEF Open
  <2>1. CASE Calm(r) /\ after = "reading" /\ (ad.up = Chat /\ r.s.stop # "" => UpstreamDone')
    <3>1. Quiet(sent') /\ Running(s')
      BY <1>3, <1>6, <2>0, <2>1, QuietConcat DEF Calm
    <3>2. Open'
      BY <1>3, <2>0, <2>1, <3>1 DEF Open
    <3>3. QED
      BY <1>6, <2>0, <2>1, <3>2 DEF Phased
  <2>2. CASE Fails(r) /\ after = "ended"
    <3>1. Ends(sent', FailureEvents)
      BY <1>6, <2>0, <2>2, EndsConcat DEF Fails
    <3>2. QED
      BY <1>4, <1>6, <2>0, <2>2, <3>1 DEF Phased, Closed
  <2>3. CASE Succeeds(r) /\ after = "committing" /\ UpstreamDone'
    <3>1. s'.terminal = TRUE /\ s'.success = TRUE
      BY <1>3, <2>3 DEF Succeeds, Completes
    <3>2. IF ad.client = Chat THEN Quiet(sent') ELSE Ends(sent', SuccessEvents)
      BY <1>6, <2>0, <2>3, QuietConcat, EndsConcat DEF Succeeds, Completes
    <3>3. Won'
      BY <1>6, <2>0, <2>3, <3>1, <3>2 DEF Won
    <3>4. QED
      BY <1>6, <2>0, <2>3, <3>3 DEF Phased
  <2>4. CASE Completes(r) /\ after = "finishing" /\ UpstreamDone'
    <3>1. s'.terminal = TRUE /\ s'.success = TRUE
      BY <1>3, <2>4 DEF Completes
    <3>2. Ends(sent', SuccessEvents)
      BY <1>6, <2>0, <2>4, EndsConcat DEF Completes
    <3>3. Won'
      BY <1>6, <2>0, <2>4, <3>1, <3>2 DEF Won
    <3>4. QED
      BY <1>6, <2>0, <2>4, <3>3 DEF Phased
  <2>5. QED
    BY <2>1, <2>2, <2>3, <2>4
<1>7. QED
  BY <1>2, <1>5, <1>6, EmitCases

LEMMA HandlePhased ==
  ASSUME Open, Configured, NEW ev, Heard(ad.up, ev), UNCHANGED <<ad, answer, bound>>,
         Emit(Handle(ad, s, ev), AfterHandle(Handle(ad, s, ev))),
         ev.e \in WellEndings(ad.up) => UpstreamDone',
         ev.stop # "" /\ ad.up = Chat => UpstreamDone',
         UpstreamDone => UpstreamDone'
  PROVE  Phased'
<1> DEFINE r == Handle(ad, s, ev)
<1>1. Outcome(s, ev, r)
  BY HandleEnds DEF Open
<1> HIDE DEF r
<1>2. CASE Calm(r) /\ (ad.up = Chat /\ ev.stop = "" /\ s.stop = "" => r.s.stop = "")
  <2>1. AfterHandle(r) = "reading"
    BY <1>2 DEF Calm, Running, AfterHandle
  <2>2. ad.up = Chat /\ r.s.stop # "" => UpstreamDone'
    BY <1>2 DEF Open
  <2>3. QED
    BY <1>2, <2>1, <2>2, EmitPhased DEF r
<1>3. CASE Fails(r)
  <2>1. AfterHandle(r) = "ended"
    BY <1>3 DEF Fails, AfterHandle
  <2>2. QED
    BY <1>3, <2>1, EmitPhased DEF r
<1>4. CASE Succeeds(r) /\ ev.e \in WellEndings(ad.up)
  <2>1. AfterHandle(r) = "committing"
    BY <1>4 DEF Succeeds, Completes, AfterHandle
  <2>2. QED
    BY <1>4, <2>1, EmitPhased DEF r
<1>5. QED
  BY <1>1, <1>2, <1>3, <1>4 DEF Outcome

(* A Responses upstream that failed says so at the end. *)
LEMMA TailTells ==
  ASSUME NEW a, NEW v \in ToSet(ResponsesTail(a)), v.e \in CompletedEvents
  PROVE  ~ResponsesPayloadFailed(ad, a)
<1> DEFINE name == CASE a.stop = "" -> "response.completed"
                     [] a.stop = "failed" -> "response.failed"
                     [] OTHER -> "response.incomplete"
           x == [Event(name) EXCEPT !.id = "resp_up",
                    !.items = [k \in DOMAIN a.items |-> ResponsesItem(a.items[k])],
                    !.usage = a.usage, !.stop = IF a.stop = "failed" THEN "" ELSE a.stop]
           y == Event("[DONE]")
<1>1. ResponsesTail(a) = <<x, y>>
  BY DEF ResponsesTail
<1>2. x.e = name /\ y.e = "[DONE]"
  BY DEF Event
<1> HIDE DEF x, y
<1>3. v = x \/ v = y
  BY <1>1 DEF ToSet
<1>4. name \in CompletedEvents
  BY <1>2, <1>3 DEF CompletedEvents
<1>5. QED
  BY <1>4 DEF CompletedEvents, ResponsesPayloadFailed, Status

LEMMA DeliverSInv ==
  ASSUME SInv, NEW k \in Parts, Deliver(k)
  PROVE  SInv'
<1> DEFINE n == Len(answer.items)
           seq == Part(ad.up, answer, k)
           ev == seq[read[k] + 1]
<1>1. Open /\ Placed /\ pc = "reading"
  BY DEF SInv, Phased, Deliver
<1>2. Configured /\ ad.up \in Protocols /\ answer \in Answers[ad.up]
  BY <1>1, StreamAssumption DEF Placed, Configured
<1>3. /\ n \in Nat /\ k \in 0..n + 1 /\ Says(ad.up, seq) /\ (k # n + 1 => Body(seq))
  BY <1>2, PartSays DEF Parts
<1>4. UNCHANGED <<ad, answer, bound>> /\ Parts' = Parts
  BY DEF Deliver, Parts
<1>5. seq \in Seq(ToSet(seq)) /\ read[k] \in 0..Len(seq) /\ read[k] # Len(seq)
  BY <1>1, <1>3, ListedRange DEF Says, Placed, Deliver, Ready, Over
<1>6. ev \in ToSet(seq) /\ read[k] + 1 \in 0..Len(seq) /\ read[k] + 1 > 0
  BY <1>5 DEF ToSet
<1>7. /\ DOMAIN read = Parts /\ read' = [read EXCEPT ![k] = @ + 1]
      /\ read'[k] = read[k] + 1 /\ \A j \in Parts \ {k} : read'[j] = read[j]
  BY <1>1 DEF Placed, Deliver
<1>8. Placed'
  BY <1>1, <1>4, <1>6, <1>7 DEF Placed
<1>9. \A j \in Parts \ {k} : Over(j) => Over(j)'
  BY <1>4, <1>7 DEF Over
<1>10. ~Over(k) /\ \A j \in 0..k-1 : k = n + 1 => Over(j)
  BY DEF Deliver, Ready
<1>11. k = n + 1 /\ ev.e \in WellEndings(ad.up) => ~ResponsesPayloadFailed(ad, answer)
  <2>1. SUFFICES ASSUME k = n + 1, ev.e \in WellEndings(ad.up), ad.up = Responses
                 PROVE  ~ResponsesPayloadFailed(ad, answer)
    BY DEF ResponsesPayloadFailed
  <2>2. k # 0 /\ ~(k =< n)
    BY <1>3, <2>1
  <2>3. seq = ResponsesTail(answer)
    BY <2>1, <2>2 DEF Part, Responses, Messages
  <2>4. QED
    BY <1>6, <2>1, <2>3, TailTells DEF WellEndings
<1>12. k = n + 1 /\ ~ResponsesPayloadFailed(ad, answer) => UpstreamDone'
  <2>1. SUFFICES ASSUME k = n + 1, ~ResponsesPayloadFailed(ad, answer)
                 PROVE  UpstreamDone'
    OBVIOUS
  <2>2. \A j \in 1..n : Over(j)'
    BY <1>3, <1>9, <1>10, <2>1 DEF Parts
  <2>3. QED
    BY <1>4, <1>6, <1>7, <2>1, <2>2 DEF UpstreamDone
<1>13. UpstreamDone => UpstreamDone'
  <2>1. SUFFICES ASSUME UpstreamDone
                 PROVE  UpstreamDone'
    OBVIOUS
  <2>2. k \notin 1..n
    BY <1>10, <2>1 DEF UpstreamDone
  <2>3. \A j \in 1..n : Over(j)'
    BY <1>3, <1>9, <2>1, <2>2 DEF Parts, UpstreamDone
  <2>4. read'[n + 1] > 0
    <3>1. CASE k = n + 1
      BY <1>6, <1>7, <3>1
    <3>2. CASE k # n + 1
      BY <1>3, <1>7, <2>1, <3>2 DEF Parts, UpstreamDone
    <3>3. QED
      BY <3>1, <3>2
  <2>5. QED
    BY <1>4, <2>1, <2>3, <2>4 DEF UpstreamDone
<1>14. Heard(ad.up, ev)
  BY <1>3, <1>6 DEF Says
<1>15. k # n + 1 => ev.e \notin WellEndings(ad.up) /\ ev.stop = ""
  <2>1. CompletedEvents \subseteq SuccessEvents
    BY DEF CompletedEvents, SuccessEvents
  <2>2. k # n + 1 => ev.e \notin SuccessEvents /\ ev.stop = ""
    BY <1>3, <1>6 DEF Body, BodyEvent, EndEvents
  <2>3. QED
    BY <2>1, <2>2 DEF WellEndings
<1>16. ad.up = Chat => ~ResponsesPayloadFailed(ad, answer)
  BY DEF ResponsesPayloadFailed, Chat, Responses
<1>17. Emit(Handle(ad, s, ev), AfterHandle(Handle(ad, s, ev)))
  BY DEF Deliver
<1> HIDE DEF ev, seq, n
<1>18. Phased'
  <2>1. ev.e \in WellEndings(ad.up) => UpstreamDone'
    BY <1>12, <1>15, <1>11
  <2>2. ev.stop # "" /\ ad.up = Chat => UpstreamDone'
    BY <1>12, <1>15, <1>16
  <2>3. QED
    BY <1>1, <1>2, <1>4, <1>13, <1>14, <1>17, <2>1, <2>2, HandlePhased
<1>19. QED
  BY <1>8, <1>18 DEF SInv

(* A step that neither reads nor replaces anything of the answer.            *)
LEMMA PlacedStays ==
  ASSUME UNCHANGED <<ad, answer, read>>
  PROVE  /\ Placed => Placed'
         /\ UpstreamDone' = UpstreamDone
BY DEF Placed, Parts, UpstreamDone, Over

LEMMA UpstreamErrorSInv ==
  ASSUME SInv, UpstreamError
  PROVE  SInv'
<1> DEFINE ev == Event("error")
<1>1. Open /\ Placed /\ Configured /\ ad.up \in Protocols
  BY StreamAssumption DEF SInv, Phased, UpstreamError, Placed, Configured
<1>2. ev.e \notin WellEndings(ad.up) /\ ev.stop = ""
  BY DEF Event, SuccessEvents, CompletedEvents, WellEndings
<1>3. Heard(ad.up, ev)
  BY <1>1, ListedOne DEF Heard, Event, EndingsOf, Protocols
<1>4. Emit(Handle(ad, s, ev), AfterHandle(Handle(ad, s, ev)))
  BY DEF UpstreamError
<1>5. UNCHANGED <<ad, answer, read, bound>>
  BY DEF UpstreamError
<1>6. UpstreamDone => UpstreamDone'
  BY <1>5, PlacedStays
<1> HIDE DEF ev
<1>7. Phased'
  BY <1>1, <1>2, <1>3, <1>4, <1>5, <1>6, HandlePhased
<1>8. QED
  BY <1>1, <1>5, <1>7, PlacedStays DEF SInv

LEMMA EndOfStreamSInv ==
  ASSUME SInv, EndOfStream
  PROVE  SInv'
<1> DEFINE r == Finish(ad, s)
           after == IF r.s.success THEN "finishing" ELSE "ended"
<1>1. Open /\ Placed /\ Configured
  BY StreamAssumption DEF SInv, Phased, EndOfStream, Placed, Configured
<1>2. UNCHANGED <<ad, answer, read, bound>> /\ Emit(r, after)
  BY DEF EndOfStream
<1>3. Fails(r) \/ (Completes(r) /\ ad.up = Chat /\ s.stop # "")
  BY <1>1, FinishEndsStream DEF Open
<1> HIDE DEF r
<1>4. CASE Fails(r)
  <2>1. after = "ended"
    BY <1>4 DEF Fails
  <2> HIDE DEF after
  <2>2. QED
    BY <1>1, <1>2, <1>4, <2>1, EmitPhased, PlacedStays DEF SInv
<1>5. CASE Completes(r) /\ ad.up = Chat /\ s.stop # ""
  <2>1. after = "finishing"
    BY <1>5 DEF Completes
  <2>2. UpstreamDone'
    BY <1>1, <1>2, <1>5, PlacedStays DEF Open
  <2> HIDE DEF after
  <2>3. QED
    BY <1>1, <1>2, <1>5, <2>1, <2>2, EmitPhased, PlacedStays DEF SInv
<1>6. QED
  BY <1>3, <1>4, <1>5

LEMMA ReadFailsSInv ==
  ASSUME SInv, ReadFails
  PROVE  SInv'
<1>1. Open /\ Placed /\ UNCHANGED <<ad, answer, read, s, bound>>
  BY DEF SInv, Phased, ReadFails
<1>2. Event("error").e \in FailureEvents
  BY DEF Event, FailureEvents
<1>3. Ends(sent', FailureEvents)
  BY <1>1, <1>2 DEF ReadFails, Open, Ends
<1>4. s'.success = FALSE /\ bound'.done = FALSE
  BY <1>1 DEF Open, Running
<1>5. QED
  BY <1>1, <1>3, <1>4, PlacedStays DEF ReadFails, SInv, Phased, Closed

LEMMA CanceledSInv ==
  ASSUME SInv, Canceled
  PROVE  SInv'
<1>1. Open /\ Placed /\ UNCHANGED <<ad, answer, read, s, sent, bound>>
  BY DEF SInv, Phased, Canceled
<1>2. s'.success = FALSE /\ Quiet(sent') /\ bound'.done = FALSE
  BY <1>1 DEF Open, Running
<1>3. QED
  BY <1>1, <1>2, PlacedStays DEF Canceled, SInv, Phased, Closed

LEMMA CommitSInv ==
  ASSUME SInv, Commit
  PROVE  SInv'
<1>1. Won /\ Placed /\ UNCHANGED <<ad, answer, read, s, fate>> /\ pc' = "ended"
  BY DEF SInv, Phased, Commit
<1>2. Event("[DONE]").e \in SuccessEvents
  BY DEF Event, SuccessEvents
<1>3. Ends(sent', SuccessEvents)
  <2>1. CASE pc = "committing" /\ ad.client = Chat
    BY <1>1, <1>2, <2>1 DEF Commit, Won, Ends
  <2>2. CASE ~(pc = "committing" /\ ad.client = Chat)
    BY <1>1, <2>2 DEF Commit, Won
  <2>3. QED
    BY <2>1, <2>2
<1>4. UpstreamDone' /\ s'.terminal = TRUE /\ fate' = "none" /\ bound'.done = TRUE
  BY <1>1, PlacedStays DEF Won, Commit
<1>5. QED
  BY <1>1, <1>3, <1>4, PlacedStays DEF SInv, Phased, Closed

LEMMA StepSInv ==
  ASSUME SInv, [Next]_vars
  PROVE  SInv'
<1>1. CASE \E k \in Parts : Deliver(k)
  BY <1>1, DeliverSInv
<1>2. CASE UpstreamError
  BY <1>2, UpstreamErrorSInv
<1>3. CASE EndOfStream
  BY <1>3, EndOfStreamSInv
<1>4. CASE ReadFails
  BY <1>4, ReadFailsSInv
<1>5. CASE Canceled
  BY <1>5, CanceledSInv
<1>6. CASE Commit
  BY <1>6, CommitSInv
<1>7. CASE UNCHANGED vars
  <2>1. UNCHANGED <<ad, answer, read, s, sent, pc, fate, bound>>
    BY <1>7 DEF vars
  <2>2. UpstreamDone' = UpstreamDone /\ (Placed => Placed')
    BY <2>1, PlacedStays
  <2>3. QED
    BY <2>1, <2>2 DEF SInv, Phased, Open, Won, Closed
<1>8. QED
  BY <1>1, <1>2, <1>3, <1>4, <1>5, <1>6, <1>7 DEF Next, Ended

-----------------------------------------------------------------------------
(* What the invariant says of the endings the client was told.               *)

LEMMA CountQuiet ==
  ASSUME Quiet(sent), NEW E, E \subseteq EndEvents
  PROVE  Count(E) = 0
<1>1. \A k \in DOMAIN sent : sent[k].e \notin E
  BY DEF Quiet, ToSet
<1>2. {k \in DOMAIN sent : sent[k].e \in E} = {}
  BY <1>1
<1>3. QED
  BY <1>2, FS_EmptySet DEF Count

LEMMA CountEnds ==
  ASSUME NEW E, Ends(sent, E), E \subseteq EndEvents
  PROVE  /\ Last(sent).e \in E
         /\ \A F : F \subseteq EndEvents => Count(F) = IF Last(sent).e \in F THEN 1 ELSE 0
<1>1. PICK front, x : sent = Append(front, x) /\ Quiet(front) /\ x.e \in E
  BY DEF Ends
<1> DEFINE U == ToSet(front) \cup {x}
<1>2. front \in Seq(U) /\ x \in U
  BY <1>1, ListedRange DEF Quiet
<1> HIDE DEF U
<1>3. /\ DOMAIN sent = 1..Len(front) + 1 /\ Len(front) \in Nat
      /\ sent[Len(front) + 1] = x /\ \A k \in 1..Len(front) : sent[k] = front[k]
      /\ Len(sent) = Len(front) + 1 /\ DOMAIN front = 1..Len(front)
  BY <1>1, <1>2
<1>4. Last(sent) = x
  BY <1>3 DEF Last
<1>5. \A k \in 1..Len(front) : sent[k].e \notin EndEvents
  BY <1>1, <1>3 DEF Quiet, ToSet
<1>6. ASSUME NEW F, F \subseteq EndEvents
      PROVE  Count(F) = IF x.e \in F THEN 1 ELSE 0
  <2> DEFINE here == {k \in DOMAIN sent : sent[k].e \in F}
  <2>1. here = IF x.e \in F THEN {Len(front) + 1} ELSE {}
    BY <1>3, <1>5, <1>6
  <2>2. Count(F) = Cardinality(here)
    BY DEF Count
  <2> HIDE DEF here
  <2>3. QED
    BY <2>1, <2>2, FS_EmptySet, FS_Singleton
<1>7. QED
  BY <1>1, <1>4, <1>6

LEMMA Disjoint ==
  SuccessEvents \cap FailureEvents = {}
BY DEF SuccessEvents, FailureEvents

LEMMA SInvHonest ==
  ASSUME SInv
  PROVE  HonestEnding
<1>1. /\ EndEvents = SuccessEvents \cup FailureEvents
      /\ SuccessEvents \subseteq EndEvents /\ FailureEvents \subseteq EndEvents
  BY DEF EndEvents
<1>2. CASE Quiet(sent)
  <2>1. Count(SuccessEvents) = 0 /\ Count(EndEvents) = 0
    BY <1>1, <1>2, CountQuiet
  <2>2. ~(pc = "ended" /\ fate \in {"none", "failed"})
    <3>1. Count(FailureEvents) = 0
      BY <1>1, <1>2, CountQuiet
    <3>2. ~Ends(sent, FailureEvents) /\ ~Ends(sent, SuccessEvents)
      BY <1>1, <2>1, <3>1, CountEnds
    <3>3. QED
      BY <3>2 DEF SInv, Phased, Closed
  <2>3. QED
    BY <1>1, <2>1, <2>2 DEF HonestEnding, Succeeded
<1>3. CASE Ends(sent, FailureEvents)
  <2>1. Last(sent).e \in FailureEvents /\ Count(SuccessEvents) = 0 /\ Count(EndEvents) = 1
    BY <1>1, <1>3, CountEnds, Disjoint
  <2>2. QED
    BY <1>1, <2>1 DEF HonestEnding, Succeeded
<1>4. CASE Ends(sent, SuccessEvents) /\ UpstreamDone
  <2>1. Last(sent).e \in SuccessEvents /\ Count(FailureEvents) = 0 /\ Count(EndEvents) = 1
    BY <1>1, <1>4, CountEnds, Disjoint
  <2>2. QED
    BY <1>1, <1>4, <2>1 DEF HonestEnding
<1>5. QED
  BY <1>2, <1>3, <1>4 DEF SInv, Phased, Open, Won, Closed

(* A turn is bound exactly of a stream whose last event told of success.     *)
LEMMA SInvBound ==
  ASSUME SInv
  PROVE  /\ bound.done => Succeeded
         /\ pc = "ended" /\ Succeeded => bound.done
<1>1. SuccessEvents \subseteq EndEvents /\ FailureEvents \subseteq EndEvents
  BY DEF EndEvents
<1>2. bound.done => Ends(sent, SuccessEvents)
  BY DEF SInv, Phased, Open, Won, Closed
<1>3. Ends(sent, SuccessEvents) => Succeeded
  BY <1>1, CountEnds DEF Succeeded
<1>4. Quiet(sent) \/ Ends(sent, FailureEvents) => ~Succeeded
  BY <1>1, CountQuiet, CountEnds, Disjoint DEF Succeeded
<1>5. pc = "ended" /\ ~bound.done => Quiet(sent) \/ Ends(sent, FailureEvents)
  BY DEF SInv, Phased, Closed
<1>6. QED
  BY <1>2, <1>3, <1>4, <1>5

LEMMA SInvType ==
  ASSUME SInv
  PROVE  TypeOK
<1>1. s.success => s.terminal
  BY DEF SInv, Phased, Open, Running, Won, Closed
<1>2. (pc = "reading") = ~s.terminal \/ pc = "ended"
  BY DEF SInv, Phased, Open, Running, Won
<1>3. QED
  BY <1>1, <1>2 DEF SInv, Placed, Phased, TypeOK

LEMMA SInvCorrect ==
  Spec => []SInv
<1>1. Init => SInv
  BY InitSInv
<1>2. SInv /\ [Next]_vars => SInv'
  BY StepSInv
<1>3. QED
  BY <1>1, <1>2, PTL DEF Spec

(* The phases, and the numbers of events read of each part, are what their   *)
(* names say, and the adapter is done when the loop has left the reading.    *)
(* [executeStreaming, backendStreamAdapter.terminal and success]             *)
THEOREM TypeCorrect ==
  Spec => []TypeOK
<1>1. SInv => TypeOK
  BY SInvType
<1>2. QED
  BY <1>1, SInvCorrect, PTL

(* For every configuration of the adapter and every answer: success is told  *)
(* only when the upstream told everything and that it was done, the client   *)
(* is told at most one ending, and whoever is still there when the stream    *)
(* ends was told one as the last event.                                      *)
(* [Handle, Finish, executeStreaming]                                        *)
THEOREM HonestEndingCorrect ==
  Spec => []HonestEnding
<1>1. SInv => HonestEnding
  BY SInvHonest
<1>2. QED
  BY <1>1, SInvCorrect, PTL

-----------------------------------------------------------------------------
(* What a Responses client is told: names of tools, and the response's id.   *)

Id == IF ad.up = Responses THEN "resp_up" ELSE "resp_own"
Identified == {"response.created"} \cup SuccessEvents
Shown(x) == x.name \notin WireNames
Proper(ev) ==
    /\ Shown(ev) /\ \A x \in ToSet(ev.items) : Shown(x)
    /\ ev.e \in Identified => ev.id = Id
Fit(out) == Listed(out) /\ \A ev \in ToSet(out) : Proper(ev)

LEMMA FitOne ==
  /\ Fit(<<>>)
  /\ \A x : Proper(x) => Fit(<<x>>)
  /\ \A x, y : Proper(x) /\ Proper(y) => Fit(<<x, y>>)
BY ListedOne DEF Fit

LEMMA FitIf ==
  ASSUME NEW c, NEW x, c => Proper(x)
  PROVE  Fit(If(c, x))
BY FitOne DEF If

LEMMA FitConcat ==
  ASSUME NEW a, NEW b, Fit(a), Fit(b)
  PROVE  Fit(a \o b)
BY ListedConcat DEF Fit

LEMMA FitAppend ==
  ASSUME NEW a, NEW x, Fit(a), Proper(x)
  PROVE  Fit(Append(a, x))
<1>1. Append(a, x) = a \o <<x>>
  BY ListedAppend DEF Fit
<1>2. Fit(a \o <<x>>)
  BY FitOne, FitConcat
<1>3. QED
  BY <1>1, <1>2

LEMMA FitPrefix ==
  ASSUME NEW out, Fit(out), NEW n \in 0..Len(out)
  PROVE  Fit(SubSeq(out, 1, n))
<1> DEFINE U == ToSet(out)
           p == SubSeq(out, 1, n)
<1>1. out \in Seq(U)
  BY ListedRange DEF Fit
<1> HIDE DEF U
<1>2. p \in Seq(U)
  BY <1>1
<1> HIDE DEF p
<1>3. Listed(p) /\ ToSet(p) \subseteq U
  BY <1>2 DEF Listed, ToSet
<1>4. QED
  BY <1>3 DEF Fit, U, p

(* Names the adapter gives its own events.                                   *)
LEMMA OwnEvents ==
  /\ "" \notin DOMAIN ad.aliases => "" \notin WireNames
  /\ ToSet(<<>>) = {}
  /\ QuietNames \cap SuccessEvents = {}
<1>1. ToSet(<<>>) = {}
  BY ListedOne
<1>2. QuietNames \cap SuccessEvents = {}
  BY DEF QuietNames, SuccessEvents, Private
<1>3. QED
  BY <1>1, <1>2 DEF WireNames

LEMMA OnItemProper ==
  ASSUME "" \notin WireNames, NEW e, e \notin Identified, NEW i, NEW d
  PROVE  Proper(OnItem(e, i, d)) /\ Proper([Event(e) EXCEPT !.i = i, !.d = d]) /\ Proper(Event(e))
<1>1. \A ev : ev.name = "" /\ ev.items = <<>> /\ ev.e = e => Proper(ev)
  BY OwnEvents DEF Proper, Shown
<1>2. QED
  BY <1>1 DEF OnItem, Event

LEMMA ItemProper ==
  ASSUME NEW i, NEW item, Shown(item)
  PROVE  Proper(Added(i, item)) /\ Proper(Done(i, item))
<1>1. {"response.output_item.added", "response.output_item.done"} \cap Identified = {}
  BY DEF Identified, SuccessEvents
<1>2. \A ev : /\ ev.name = item.name /\ ev.items = <<>>
              /\ ev.e \in {"response.output_item.added", "response.output_item.done"}
              => Proper(ev)
  BY <1>1, OwnEvents DEF Proper, Shown
<1>3. QED
  BY <1>2 DEF Added, Done, ItemEvent, OnItem, Event

-----------------------------------------------------------------------------
(* The adapter as it encodes for a Responses client: its tools go by their   *)
(* public names, and every output index given away is that of one item.      *)

Places(q) == {q.message, q.reason} \cup {q.toolIndex[k] : k \in DOMAIN q.tools}
PublicCalls(q) ==
    /\ DOMAIN q.tools \subseteq DOMAIN q.toolIndex
    /\ \A k \in DOMAIN q.tools : {"name", "kind"} \subseteq DOMAIN q.tools[k] /\ Shown(q.tools[k])
Known(q) ==
    /\ {"id", "created", "tools", "toolIndex", "message", "reason", "next"} \subseteq DOMAIN q
    /\ q.id = Id /\ q.next \in Nat
    /\ PublicCalls(q)
    /\ 0..(q.next - 1) \subseteq Places(q)
Keeps(r) == {"s", "out"} \subseteq DOMAIN r /\ Known(r.s) /\ Fit(r.out)

LEMMA RecordKeeps ==
  ASSUME NEW p, NEW out, Known(p), Fit(out)
  PROVE  Keeps([s |-> p, out |-> out])
BY DEF Keeps

LEMMA NothingKeeps ==
  ASSUME NEW q, Known(q)
  PROVE  Keeps(Nothing(q))
BY FitOne DEF Nothing, Keeps

LEMMA ThenKeeps ==
  ASSUME NEW r, NEW next, Keeps(r), Keeps(next)
  PROVE  Keeps(Then(r, next))
BY FitConcat DEF Then, Keeps

LEMMA Numbering ==
  ASSUME NEW m \in Nat, NEW S, NEW T, 0..(m - 1) \subseteq S, S \ {None} \subseteq T
  PROVE  /\ 0..(m - 1) \subseteq T
         /\ m \in T => m + 1 \in Nat /\ 0..((m + 1) - 1) \subseteq T
BY DEF None

(* One more item, or none, with the others where they were.                   *)
LEMMA KnownMoves ==
  ASSUME NEW q, Known(q), NEW p, DOMAIN q \subseteq DOMAIN p, p.id = q.id, PublicCalls(p),
         Places(q) \ {None} \subseteq Places(p),
         p.next = q.next \/ (p.next = q.next + 1 /\ q.next \in Places(p))
  PROVE  Known(p)
<1> DEFINE m == q.next
           S == Places(q)
           T == Places(p)
<1>1. m \in Nat /\ 0..(m - 1) \subseteq S
  BY DEF Known
<1>2. S \ {None} \subseteq T /\ (p.next = m \/ (p.next = m + 1 /\ m \in T))
  OBVIOUS
<1> HIDE DEF m, S, T
<1>3. p.next \in Nat /\ 0..(p.next - 1) \subseteq T
  <2>1. CASE p.next = m
    BY <1>1, <1>2, <2>1, Numbering
  <2>2. CASE p.next = m + 1 /\ m \in T
    BY <1>1, <1>2, <2>2, Numbering
  <2>3. QED
    BY <1>2, <2>1, <2>2
<1>4. {"id", "created", "tools", "toolIndex", "message", "reason", "next"} \subseteq DOMAIN p
      /\ p.id = Id
  BY DEF Known
<1>5. QED
  BY <1>3, <1>4 DEF Known, T

LEMMA PlacesStay ==
  ASSUME NEW p, NEW q, DOMAIN p.tools = DOMAIN q.tools, p.toolIndex = q.toolIndex,
         p.message = q.message, p.reason = q.reason
  PROVE  Places(p) = Places(q)
BY DEF Places

(* Fields that have nothing to do with the items.                            *)
LEMMA KnownStays ==
  ASSUME NEW q, Known(q), NEW p, DOMAIN q \subseteq DOMAIN p,
         p.id = q.id, p.next = q.next, p.tools = q.tools, p.toolIndex = q.toolIndex,
         p.message = q.message, p.reason = q.reason
  PROVE  Known(p)
BY DEF Known, Places, PublicCalls

LEMMA FailedKeeps ==
  ASSUME "" \notin WireNames, NEW q, Known(q)
  PROVE  Keeps(Failed(q))
<1> DEFINE p == [q EXCEPT !.terminal = TRUE, !.success = FALSE]
<1>1. Known(p)
  <2>1. /\ DOMAIN p = DOMAIN q /\ p.id = q.id /\ p.next = q.next /\ p.tools = q.tools
        /\ p.toolIndex = q.toolIndex /\ p.message = q.message /\ p.reason = q.reason
    BY DEF Known
  <2> HIDE DEF p
  <2>2. QED
    BY <2>1, KnownStays
<1>2. "error" \notin Identified
  BY DEF Identified, SuccessEvents
<1>3. Fit(<<Event("error")>>)
  BY <1>2, OnItemProper, FitOne
<1>4. QED
  BY <1>1, <1>3 DEF Failed, Keeps

LEMMA TextKeeps ==
  ASSUME "" \notin WireNames, NEW q, Known(q), NEW a
  PROVE  Keeps(ResponsesText(q, a)) /\ Keeps(ResponsesReasoning(q, a))
<1>0. {"response.content_part.added", "response.output_text.delta",
       "response.reasoning_summary_part.added", "response.reasoning_summary_text.delta"}
         \cap Identified = {}
  BY DEF Identified, SuccessEvents
<1>1. \A d : Shown(MessageItem(d)) /\ Shown(ReasoningItem(d, <<>>))
  BY DEF Shown, MessageItem, ReasoningItem, Item
<1>2. Keeps(ResponsesText(q, a))
  <2> DEFINE new == q.message = None
             i == IF new THEN q.next ELSE q.message
             p == [q EXCEPT !.message = i, !.next = IF new THEN @ + 1 ELSE @, !.text = @ \o a.d]
             out == (IF new THEN <<Added(i, MessageItem(<<>>)),
                                   OnItem("response.content_part.added", i, <<>>)>> ELSE <<>>)
                    \o <<OnItem("response.output_text.delta", i, a.d)>>
  <2>1. /\ DOMAIN p = DOMAIN q /\ p.id = q.id /\ p.tools = q.tools /\ p.toolIndex = q.toolIndex
        /\ p.reason = q.reason /\ p.message = i /\ p.next = IF new THEN q.next + 1 ELSE q.next
    BY DEF Known
  <2>2. ResponsesText(q, a) = [s |-> p, out |-> out]
    BY DEF ResponsesText
  <2>3. Fit(out)
    BY <1>0, <1>1, OnItemProper, ItemProper, FitOne, FitConcat
  <2>0. q.next \in Nat /\ PublicCalls(q)
    BY DEF Known
  <2> HIDE DEF p, out
  <2>4. PublicCalls(p)
    BY <2>0, <2>1 DEF PublicCalls
  <2>5. Places(q) \ {None} \subseteq Places(p) /\ i \in Places(p)
    BY <2>1 DEF Places, i, new
  <2>6. p.next = q.next \/ (p.next = q.next + 1 /\ i = q.next)
    BY <2>1 DEF i, new
  <2> HIDE DEF new, i
  <2>7. Known(p)
    BY <2>1, <2>4, <2>5, <2>6, KnownMoves
  <2>8. QED
    BY <2>2, <2>3, <2>7, RecordKeeps
<1>3. Keeps(ResponsesReasoning(q, a))
  <2> DEFINE new == q.reason = None
             i == IF new THEN q.next ELSE q.reason
             p == [q EXCEPT !.reason = i, !.next = IF new THEN @ + 1 ELSE @,
                            !.reasoning = @ \o a.d]
             out == (IF new THEN <<Added(i, ReasoningItem(<<>>, <<>>)),
                                   OnItem("response.reasoning_summary_part.added", i, <<>>)>>
                     ELSE <<>>)
                    \o <<OnItem("response.reasoning_summary_text.delta", i, a.d)>>
  <2>1. /\ DOMAIN p = DOMAIN q /\ p.id = q.id /\ p.tools = q.tools /\ p.toolIndex = q.toolIndex
        /\ p.message = q.message /\ p.reason = i /\ p.next = IF new THEN q.next + 1 ELSE q.next
    BY DEF Known
  <2>2. ResponsesReasoning(q, a) = [s |-> p, out |-> out]
    BY DEF ResponsesReasoning
  <2>3. Fit(out)
    BY <1>0, <1>1, OnItemProper, ItemProper, FitOne, FitConcat
  <2>0. q.next \in Nat /\ PublicCalls(q)
    BY DEF Known
  <2> HIDE DEF p, out
  <2>4. PublicCalls(p)
    BY <2>0, <2>1 DEF PublicCalls
  <2>5. Places(q) \ {None} \subseteq Places(p) /\ i \in Places(p)
    BY <2>1 DEF Places, i, new
  <2>6. p.next = q.next \/ (p.next = q.next + 1 /\ i = q.next)
    BY <2>1 DEF i, new
  <2> HIDE DEF new, i
  <2>7. Known(p)
    BY <2>1, <2>4, <2>5, <2>6, KnownMoves
  <2>8. QED
    BY <2>2, <2>3, <2>7, RecordKeeps
<1>4. QED
  BY <1>2, <1>3

LEMMA ToolItemShown ==
  ASSUME "" \notin WireNames, NEW call, Shown(call)
  PROVE  Shown(ResponseToolItem(call))
BY DEF ResponseToolItem, Item, Shown

LEMMA ToolStartKeeps ==
  ASSUME "" \notin WireNames, NEW q, Known(q), NEW a, Shown(a)
  PROVE  Keeps(ResponsesToolStart(q, a))
<1> DEFINE call == [id |-> a.id, name |-> a.name, kind |-> a.toolKind, args |-> <<>>]
<1>1. CASE a.i \in DOMAIN q.tools
  <2> DEFINE new == [q.tools[a.i] EXCEPT !.id = Present(a.id, @), !.name = Present(a.name, @)]
             p == [q EXCEPT !.tools[a.i].id = Present(a.id, @), !.tools[a.i].name = Present(a.name, @)]
  <2>1. /\ DOMAIN p = DOMAIN q /\ p.id = q.id /\ p.next = q.next /\ p.toolIndex = q.toolIndex
        /\ p.message = q.message /\ p.reason = q.reason
        /\ p.tools = [q.tools EXCEPT ![a.i] = new]
    BY <1>1 DEF Known
  <2>2. DOMAIN new = DOMAIN q.tools[a.i] /\ Shown(new)
    BY <1>1 DEF Known, PublicCalls, Shown, Present
  <2>3. ResponsesToolStart(q, a) = Nothing(p)
    BY <1>1 DEF ResponsesToolStart
  <2> HIDE DEF p, new
  <2>4. Known(p)
    <3>1. /\ DOMAIN p.tools = DOMAIN q.tools /\ p.tools[a.i] = new
          /\ \A k \in DOMAIN q.tools \ {a.i} : p.tools[k] = q.tools[k]
      BY <1>1, <2>1
    <3>2. PublicCalls(q)
      BY DEF Known
    <3>3. {"name", "kind"} \subseteq DOMAIN new /\ Shown(new)
      BY <1>1, <2>2, <3>2 DEF PublicCalls
    <3>4. \A k \in DOMAIN p.tools : {"name", "kind"} \subseteq DOMAIN p.tools[k] /\ Shown(p.tools[k])
      BY <3>1, <3>2, <3>3 DEF PublicCalls
    <3>5. PublicCalls(p)
      BY <2>1, <3>1, <3>2, <3>4 DEF PublicCalls
    <3>6. Places(p) = Places(q)
      BY <2>1, <3>1, PlacesStay
    <3>7. QED
      BY <2>1, <3>5, <3>6, KnownMoves
  <2>5. QED
    BY <2>3, <2>4, NothingKeeps
<1>2. CASE a.i \notin DOMAIN q.tools
  <2> DEFINE p == [q EXCEPT !.tools = Put(@, a.i, call), !.args = Put(@, a.i, <<>>),
                            !.toolIndex = Put(@, a.i, q.next), !.next = @ + 1]
             out == <<Added(q.next, ResponseToolItem(call))>>
  <2>1. /\ DOMAIN p = DOMAIN q /\ p.id = q.id /\ p.message = q.message /\ p.reason = q.reason
        /\ p.tools = Put(q.tools, a.i, call) /\ p.toolIndex = Put(q.toolIndex, a.i, q.next)
        /\ p.next = q.next + 1
    BY DEF Known
  <2>2. {"name", "kind"} \subseteq DOMAIN call /\ Shown(call)
    BY DEF Shown
  <2>3. ResponsesToolStart(q, a) = [s |-> p, out |-> out]
    BY <1>2 DEF ResponsesToolStart
  <2> HIDE DEF p, call
  <2>4. Fit(out)
    BY <2>2, ToolItemShown, ItemProper, FitOne
  <2>5. Known(p)
    <3>0. PublicCalls(q)
      BY DEF Known
    <3>1. /\ DOMAIN p.tools = {a.i} \cup DOMAIN q.tools /\ p.tools[a.i] = call
          /\ \A k \in DOMAIN q.tools : p.tools[k] = q.tools[k]
      <4>1. \A k \in DOMAIN q.tools : k # a.i
        BY <1>2
      <4>2. /\ DOMAIN p.tools = {a.i} \cup DOMAIN q.tools /\ p.tools[a.i] = call
            /\ \A k \in DOMAIN q.tools : k # a.i => p.tools[k] = q.tools[k]
        <5>1. p.tools = Put(q.tools, a.i, call)
          BY <2>1
        <5>2. QED
          BY <5>1 DEF Put
      <4>3. QED
        BY <4>1, <4>2
    <3>2. /\ DOMAIN p.toolIndex = {a.i} \cup DOMAIN q.toolIndex /\ p.toolIndex[a.i] = q.next
          /\ \A k \in DOMAIN q.tools : p.toolIndex[k] = q.toolIndex[k]
      <4>1. \A k \in DOMAIN q.tools : k # a.i /\ k \in DOMAIN q.toolIndex
        BY <1>2, <3>0 DEF PublicCalls
      <4>2. /\ DOMAIN p.toolIndex = {a.i} \cup DOMAIN q.toolIndex /\ p.toolIndex[a.i] = q.next
            /\ \A k \in DOMAIN q.toolIndex : k # a.i => p.toolIndex[k] = q.toolIndex[k]
        <5>1. p.toolIndex = Put(q.toolIndex, a.i, q.next)
          BY <2>1
        <5>2. QED
          BY <5>1 DEF Put
      <4>3. QED
        BY <4>1, <4>2
    <3>3. PublicCalls(p)
      BY <2>2, <3>0, <3>1, <3>2 DEF PublicCalls
    <3>4. Places(q) \subseteq Places(p) /\ q.next \in Places(p)
      <4>1. a.i \in DOMAIN p.tools /\ DOMAIN q.tools \subseteq DOMAIN p.tools
        BY <3>1
      <4>2. q.next \in Places(p)
        BY <4>1, <3>2 DEF Places
      <4>3. ASSUME NEW x \in Places(q)
            PROVE  x \in Places(p)
        <5>1. CASE x \in {q.message, q.reason}
          BY <5>1, <2>1 DEF Places
        <5>2. CASE \E k \in DOMAIN q.tools : x = q.toolIndex[k]
          <6>1. PICK k \in DOMAIN q.tools : x = q.toolIndex[k]
            BY <5>2
          <6>2. k \in DOMAIN p.tools /\ x = p.toolIndex[k]
            BY <6>1, <4>1, <3>2
          <6>3. QED
            BY <6>2 DEF Places
        <5>3. QED
          BY <4>3, <5>1, <5>2 DEF Places
      <4>4. QED
        BY <4>2, <4>3
    <3>5. QED
      BY <2>1, <3>3, <3>4, KnownMoves
  <2> HIDE DEF out
  <2>6. QED
    BY <2>3, <2>4, <2>5, RecordKeeps
<1>3. QED
  BY <1>1, <1>2

LEMMA ToolDeltaKeeps ==
  ASSUME "" \notin WireNames, NEW q, Known(q), NEW a
  PROVE  Keeps(ResponsesToolDelta(q, a))
<1>1. CASE a.i \notin DOMAIN q.tools
  BY <1>1, NothingKeeps DEF ResponsesToolDelta
<1>2. CASE a.i \in DOMAIN q.tools
  <2> DEFINE p == [q EXCEPT !.args[a.i] = @ \o a.d]
             x == OnItem("response.function_call_arguments.delta", q.toolIndex[a.i], a.d)
             out == If(~Hidden(q.tools[a.i].kind), x)
  <2>1. /\ DOMAIN p = DOMAIN q /\ p.id = q.id /\ p.next = q.next /\ p.tools = q.tools
        /\ p.toolIndex = q.toolIndex /\ p.message = q.message /\ p.reason = q.reason
    BY DEF Known
  <2>2. ResponsesToolDelta(q, a) = [s |-> p, out |-> out]
    BY <1>2 DEF ResponsesToolDelta
  <2>3. Proper(x)
    BY OnItemProper DEF Identified, SuccessEvents
  <2> HIDE DEF p, x
  <2>4. Known(p) /\ Fit(out)
    BY <2>1, <2>3, KnownStays, FitIf
  <2> HIDE DEF out
  <2>5. QED
    BY <2>2, <2>4, RecordKeeps
<1>3. QED
  BY <1>1, <1>2

LEMMA ToolDoneKeeps ==
  ASSUME "" \notin WireNames, NEW q, Known(q), NEW a, Shown(a)
  PROVE  Keeps(FinishResponseTool(q, a))
<1> DEFINE old == q.tools[a.i]
           raw == IF a.args # NoValue THEN a.args ELSE q.args[a.i]
           args == IF old.kind = "custom" THEN AliasedInput(raw)
                   ELSE IF raw = <<>> THEN <<"{}">> ELSE Remarshal(raw)
           call == [old EXCEPT !.name = Present(a.name, @), !.id = Present(a.id, @), !.args = args]
           i == q.toolIndex[a.i]
           closing == CASE old.kind = "custom" ->
                               <<OnItem("response.custom_tool_call_input.delta", i, args),
                                 OnItem("response.custom_tool_call_input.done", i, args)>>
                        [] old.kind = "tool_search" -> <<>>
                        [] OTHER -> <<OnItem("response.function_call_arguments.done", i, args)>>
           p == [q EXCEPT !.tools[a.i] = call, !.toolDone = @ \cup {a.i}]
           out == closing \o <<Done(i, ResponseToolItem(call))>>
<1>1. CASE a.i \in q.toolDone \/ a.i \notin DOMAIN q.tools
  BY <1>1, NothingKeeps DEF FinishResponseTool
<1>2. CASE ~(a.i \in q.toolDone \/ a.i \notin DOMAIN q.tools)
  <2>1. FinishResponseTool(q, a) = [s |-> p, out |-> out]
    BY <1>2 DEF FinishResponseTool
  <2>2. DOMAIN call = DOMAIN old /\ Shown(call)
    BY <1>2 DEF Known, PublicCalls, Shown, Present
  <2>3. /\ DOMAIN p = DOMAIN q /\ p.id = q.id /\ p.next = q.next /\ p.toolIndex = q.toolIndex
        /\ p.message = q.message /\ p.reason = q.reason
        /\ p.tools = [q.tools EXCEPT ![a.i] = call]
    BY DEF Known
  <2> HIDE DEF p
  <2>4. \A d : /\ Proper(OnItem("response.custom_tool_call_input.delta", i, d))
               /\ Proper(OnItem("response.custom_tool_call_input.done", i, d))
               /\ Proper(OnItem("response.function_call_arguments.done", i, d))
    BY OnItemProper DEF Identified, SuccessEvents
  <2> HIDE DEF call, args
  <2>5. Known(p)
    <3>1. /\ DOMAIN p.tools = DOMAIN q.tools /\ p.tools[a.i] = call
          /\ \A k \in DOMAIN q.tools \ {a.i} : p.tools[k] = q.tools[k]
      BY <1>2, <2>3
    <3>2. PublicCalls(q)
      BY DEF Known
    <3>3. {"name", "kind"} \subseteq DOMAIN call /\ Shown(call)
      BY <1>2, <2>2, <3>2 DEF PublicCalls, old
    <3>4. \A k \in DOMAIN p.tools : {"name", "kind"} \subseteq DOMAIN p.tools[k] /\ Shown(p.tools[k])
      BY <3>1, <3>2, <3>3 DEF PublicCalls
    <3>5. PublicCalls(p)
      BY <2>3, <3>1, <3>2, <3>4 DEF PublicCalls
    <3>6. Places(p) = Places(q)
      BY <2>3, <3>1, PlacesStay
    <3>7. QED
      BY <2>3, <3>5, <3>6, KnownMoves
  <2>6. Fit(closing)
    BY <2>4, FitOne
  <2>7. Fit(<<Done(i, ResponseToolItem(call))>>)
    BY <2>2, ToolItemShown, ItemProper, FitOne
  <2> HIDE DEF closing
  <2>8. Fit(out)
    BY <2>6, <2>7, FitConcat
  <2> HIDE DEF out
  <2>9. QED
    BY <2>1, <2>5, <2>8, RecordKeeps
<1>3. QED
  BY <1>1, <1>2

-----------------------------------------------------------------------------
(* The adapter for a Responses client from the first atom to the end.        *)

FinishingKnown == INSTANCE FoldLemmas WITH Op <- FinishNumber, Good <- Keeps
KnownAtoms == INSTANCE FoldLemmas WITH Op <- AtomStep, Good <- Keeps

LEMMA FitThree ==
  ASSUME NEW x, NEW y, NEW z, Proper(x), Proper(y), Proper(z)
  PROVE  Fit(<<x, y, z>>)
<1>1. Fit(<<x, y>>)
  BY FitOne
<1>2. Fit(<<z>>)
  BY FitOne
<1>3. <<x, y, z>> = <<x, y>> \o <<z>>
  OBVIOUS
<1>4. QED
  BY <1>1, <1>2, <1>3, FitConcat

LEMMA FinalizeKeeps ==
  ASSUME "" \notin WireNames, NEW q, Known(q)
  PROVE  Keeps(FinalizeResponsesOutput(q))
<1> DEFINE text == IF q.message = None THEN <<>>
                   ELSE <<OnItem("response.output_text.done", q.message, q.text),
                          OnItem("response.content_part.done", q.message, q.text),
                          Done(q.message, MessageItem(q.text))>>
           reasoning == IF q.reason = None THEN <<>>
                        ELSE <<OnItem("response.reasoning_summary_text.done", q.reason, q.reasoning),
                               OnItem("response.reasoning_summary_part.done", q.reason, q.reasoning),
                               Done(q.reason, ReasoningItem(q.reasoning, <<>>))>>
           base == [s |-> q, out |-> text \o reasoning]
           seq == Numbers(q.next)
<1>1. {"response.output_text.done", "response.content_part.done",
       "response.reasoning_summary_text.done", "response.reasoning_summary_part.done"}
         \cap Identified = {}
  BY DEF Identified, SuccessEvents
<1>2. \A i, d : /\ Proper(OnItem("response.output_text.done", i, d))
                /\ Proper(OnItem("response.content_part.done", i, d))
                /\ Proper(OnItem("response.reasoning_summary_text.done", i, d))
                /\ Proper(OnItem("response.reasoning_summary_part.done", i, d))
  BY <1>1, OnItemProper
<1>3. \A d : Shown(MessageItem(d)) /\ Shown(ReasoningItem(d, <<>>))
  BY DEF Shown, MessageItem, ReasoningItem, Item
<1>4. \A i, d : Proper(Done(i, MessageItem(d))) /\ Proper(Done(i, ReasoningItem(d, <<>>)))
  BY <1>3, ItemProper
<1>5. Fit(text)
  BY <1>2, <1>4, FitOne, FitThree
<1>6. Fit(reasoning)
  BY <1>2, <1>4, FitOne, FitThree
<1> HIDE DEF text, reasoning
<1>7. Fit(text \o reasoning)
  BY <1>5, <1>6, FitConcat
<1>8. Keeps(base)
  BY <1>7, RecordKeeps
<1>9. seq \in Seq(Nat)
  BY NumbersType DEF Known
<1>10. ASSUME NEW r, Keeps(r), NEW n \in Nat
       PROVE  Keeps(FinishNumber(r, n))
  <2>1. \A i : Shown([Atom("toolDone") EXCEPT !.i = i])
    BY DEF Shown, Atom
  <2>2. \A i : Keeps(FinishResponseTool(r.s, [Atom("toolDone") EXCEPT !.i = i]))
    BY <1>10, <2>1, ToolDoneKeeps DEF Keeps
  <2>3. \A i : Keeps(Then(r, FinishResponseTool(r.s, [Atom("toolDone") EXCEPT !.i = i])))
    BY <1>10, <2>2, ThenKeeps
  <2>4. QED
    BY <1>10, <2>3 DEF FinishNumber
<1> HIDE DEF base, seq
<1>11. Keeps(FinishingKnown!Left(base, seq))
  BY <1>8, <1>9, <1>10, FinishingKnown!LeftInvariant
<1>12. FoldLeft(FinishNumber, base, seq) = FinishingKnown!Left(base, seq)
  BY DEF FoldLeft, MapThenFoldSet, FinishingKnown!Left, FinishingKnown!Max, Max
<1>13. QED
  BY <1>11, <1>12 DEF FinalizeResponsesOutput, base, seq, text, reasoning

LEMMA FromZero ==
  ASSUME NEW m \in Nat, NEW k \in 1..m
  PROVE  k - 1 \in 0..(m - 1)
OBVIOUS

(* Every item of the final response: its index was given to a message, a     *)
(* thought or a call.                                                        *)
LEMMA OutputItemsShown ==
  ASSUME "" \notin WireNames, NEW q, Known(q)
  PROVE  \A x \in ToSet(ResponsesOutputItems(q)) : Shown(x)
<1>1. ASSUME NEW n \in 0..(q.next - 1)
      PROVE  Shown(OutputItem(q, n))
  <2>1. \A d : Shown(MessageItem(d)) /\ Shown(ReasoningItem(d, <<>>))
    BY DEF Shown, MessageItem, ReasoningItem, Item
  <2>2. CASE n \in {q.message, q.reason}
    BY <2>1, <2>2 DEF OutputItem
  <2>3. CASE n \notin {q.message, q.reason}
    <3> DEFINE i == CHOOSE j \in DOMAIN q.tools : q.toolIndex[j] = n
    <3>1. \E j \in DOMAIN q.tools : q.toolIndex[j] = n
      BY <2>3 DEF Known, Places
    <3>2. i \in DOMAIN q.tools
      BY <3>1
    <3>3. OutputItem(q, n) = ResponseToolItem(q.tools[i])
      BY <2>3 DEF OutputItem
    <3> HIDE DEF i
    <3>4. Shown(q.tools[i])
      BY <3>2 DEF Known, PublicCalls
    <3>5. QED
      BY <3>3, <3>4, ToolItemShown
  <2>4. QED
    BY <2>2, <2>3
<1>2. q.next \in Nat
  BY DEF Known
<1>3. \A k \in 1..q.next : k - 1 \in 0..(q.next - 1)
  BY <1>2, FromZero
<1>4. \A k \in 1..q.next : Shown(OutputItem(q, k - 1))
  BY <1>1, <1>3
<1>5. QED
  BY <1>4 DEF ResponsesOutputItems, ToSet

LEMMA ResponsesTerminalKeeps ==
  ASSUME "" \notin WireNames, NEW q, Known(q), NEW a
  PROVE  Keeps(ResponsesTerminal(q, a))
<1> DEFINE r == FinalizeResponsesOutput(q)
           reason == IncompleteReason(a.status, Present(a.stop, q.stop))
           name == IF reason = "" THEN "response.completed" ELSE "response.incomplete"
           items == ResponsesOutputItems(r.s)
           x == [Event(name) EXCEPT !.id = q.id, !.stop = reason, !.usage = q.usage, !.items = items]
           p == [r.s EXCEPT !.terminal = TRUE, !.success = EndsWell(a)]
           out == Append(r.out, x)
<1>1. Keeps(r)
  BY FinalizeKeeps
<1>2. \A y \in ToSet(items) : Shown(y)
  BY <1>1, OutputItemsShown DEF Keeps
<1>3. ResponsesTerminal(q, a) = [s |-> p, out |-> out]
  BY DEF ResponsesTerminal
<1> HIDE DEF r, items, name
<1>4. x.name = "" /\ x.id = q.id /\ x.items = items
  BY DEF Event
<1> HIDE DEF x
<1>5. Proper(x)
  BY <1>2, <1>4 DEF Proper, Shown, Known
<1>6. Fit(out)
  BY <1>1, <1>5, FitAppend DEF Keeps
<1>7. Known(r.s)
  BY <1>1 DEF Keeps
<1>8. /\ DOMAIN p = DOMAIN r.s /\ p.id = r.s.id /\ p.next = r.s.next /\ p.tools = r.s.tools
      /\ p.toolIndex = r.s.toolIndex /\ p.message = r.s.message /\ p.reason = r.s.reason
  BY <1>7 DEF Known
<1> HIDE DEF p, out
<1>9. Known(p)
  BY <1>7, <1>8, KnownStays
<1>10. QED
  BY <1>3, <1>6, <1>9, RecordKeeps

LEMMA EncodeResponsesKeeps ==
  ASSUME "" \notin WireNames, NEW q, Known(q), NEW a, Shown(a)
  PROVE  Keeps(EncodeResponses(q, a))
<1> DEFINE first == ~q.created /\ a.kind # "usage"
           x == [Event("response.created") EXCEPT !.id = q.id]
           p == [q EXCEPT !.created = @ \/ first]
           start == [s |-> p, out |-> If(first, x)]
           body == CASE a.kind = "text" -> ResponsesText(start.s, a)
                     [] a.kind = "reasoning" -> ResponsesReasoning(start.s, a)
                     [] a.kind = "toolStart" -> ResponsesToolStart(start.s, a)
                     [] a.kind = "toolDelta" -> ResponsesToolDelta(start.s, a)
                     [] a.kind = "toolDone" -> FinishResponseTool(start.s, a)
                     [] a.kind = "terminal" -> ResponsesTerminal(start.s, a)
                     [] OTHER -> Nothing(start.s)
<1>1. x.name = "" /\ x.id = q.id /\ x.items = <<>>
  BY DEF Event
<1>2. EncodeResponses(q, a) = IF a.kind = "error" THEN Failed(q) ELSE Then(start, body)
  BY DEF EncodeResponses
<1>3. /\ DOMAIN p = DOMAIN q /\ p.id = q.id /\ p.next = q.next /\ p.tools = q.tools
      /\ p.toolIndex = q.toolIndex /\ p.message = q.message /\ p.reason = q.reason
  BY DEF Known
<1> HIDE DEF x, p, first
<1>4. Proper(x)
  BY <1>1, OwnEvents DEF Proper, Shown, Known
<1>5. Known(p)
  BY <1>3, KnownStays
<1>6. Keeps(start) /\ Known(start.s)
  BY <1>4, <1>5, FitIf, RecordKeeps
<1> HIDE DEF start
<1>7. Keeps(body)
  BY <1>6, TextKeeps, ToolStartKeeps, ToolDeltaKeeps, ToolDoneKeeps, ResponsesTerminalKeeps,
     NothingKeeps
<1> HIDE DEF body
<1>8. QED
  BY <1>2, <1>6, <1>7, ThenKeeps, FailedKeeps

LEMMA HandleAtomKeeps ==
  ASSUME "" \notin WireNames, ad.client = Responses, NEW q, Known(q), NEW a, IsAtom(a)
  PROVE  Keeps(HandleAtom(ad, q, a))
<1> DEFINE b == IF a.name \notin DOMAIN ad.aliases THEN a
                ELSE [a EXCEPT !.name = ad.aliases[@].name, !.toolKind = ad.aliases[a.name].kind]
           p == [q EXCEPT !.usage = MergeUsage(@, b.usage),
                          !.sawTool = @ \/ (b.kind = "toolStart" /\ b.name # ""),
                          !.stop = Present(b.stop, @)]
<1>1. b.name = IF a.name \notin DOMAIN ad.aliases THEN a.name ELSE ad.aliases[a.name].name
  BY DEF IsAtom
<1>2. HandleAtom(ad, q, a) = Encode(ad, p, b)
  BY DEF HandleAtom
<1> HIDE DEF b
<1>3. Shown(b)
  BY <1>1 DEF Shown, WireNames
<1>4. /\ DOMAIN p = DOMAIN q /\ p.id = q.id /\ p.next = q.next /\ p.tools = q.tools
      /\ p.toolIndex = q.toolIndex /\ p.message = q.message /\ p.reason = q.reason
  BY DEF Known
<1> HIDE DEF p
<1>5. Known(p)
  BY <1>4, KnownStays
<1>6. Encode(ad, p, b) = EncodeResponses(p, b)
  BY DEF Encode, Chat, Messages, Responses
<1>7. QED
  BY <1>2, <1>3, <1>5, <1>6, EncodeResponsesKeeps

LEMMA DecodedKnown ==
  ASSUME NEW q, Known(q), NEW ev
  PROVE  Known(DecodeStreamAtoms(ad, q, ev).s)
<1>1. ASSUME NEW p, \/ p = q
                    \/ \E v : p = [q EXCEPT !.upChat = v]
                    \/ \E v : p = [q EXCEPT !.upBlocks = v]
      PROVE  Known(p)
  <2>1. /\ DOMAIN p = DOMAIN q /\ p.id = q.id /\ p.next = q.next /\ p.tools = q.tools
        /\ p.toolIndex = q.toolIndex /\ p.message = q.message /\ p.reason = q.reason
    BY <1>1 DEF Known
  <2>2. QED
    BY <2>1, KnownStays
<1>2. DecodeChat(q, ev).s = q \/ \E v : DecodeChat(q, ev).s = [q EXCEPT !.upChat = v]
  BY DEF DecodeChat
<1>3. DecodeResponses(q, ev).s = q
  BY DEF DecodeResponses
<1>4. DecodeMessages(q, ev).s = q \/ \E v : DecodeMessages(q, ev).s = [q EXCEPT !.upBlocks = v]
  BY DEF DecodeMessages
<1>5. QED
  BY <1>1, <1>2, <1>3, <1>4 DEF DecodeStreamAtoms

LEMMA HandleAtomsKeeps ==
  ASSUME "" \notin WireNames, ad.client = Responses, ad.up # Responses, Configured,
         NEW q, Known(q), Running(q), NEW ev, Heard(ad.up, ev)
  PROVE  Keeps(HandleAtoms(ad, q, ev))
<1> DEFINE d == DecodeStreamAtoms(ad, q, ev)
           base == Nothing(d.s)
           atoms == d.atoms
<1>0. Chat # Responses /\ Chat # Messages /\ Messages # Responses
  BY DEF Chat, Responses, Messages
<1>1. Goes(q, d) \/ \E a : FinalOf(d, ev, a)
  <2>1. CASE ad.up = Chat
    BY <1>0, <2>1, ChatDecodes DEF DecodeStreamAtoms
  <2>2. CASE ad.up = Messages
    BY <1>0, <2>2, MessagesDecodes DEF DecodeStreamAtoms
  <2>3. QED
    BY <2>1, <2>2 DEF Configured, Protocols
<1>2. Keeps(base)
  BY DecodedKnown, NothingKeeps
<1>3. HandleAtoms(ad, q, ev) = Atoms!Left(base, atoms)
  BY FoldsAtoms
<1> HIDE DEF d
<1>4. Listed(atoms) /\ \A a \in ToSet(atoms) : IsAtom(a)
  <2>1. CASE Goes(q, d)
    BY <2>1 DEF Goes, CalmAtoms, CalmAtom
  <2>2. CASE \E a : FinalOf(d, ev, a)
    <3>1. PICK a : IsAtom(a) /\ (atoms = <<a>> \/ \E u : IsAtom(u) /\ atoms = <<u, a>>)
      BY <2>2 DEF FinalOf, Final, CalmAtom
    <3>2. CASE atoms = <<a>>
      <4>1. Listed(<<a>>) /\ ToSet(<<a>>) = {a}
        BY ListedOne
      <4> HIDE DEF atoms
      <4>2. Listed(atoms) /\ ToSet(atoms) = {a}
        BY <3>2, <4>1
      <4>3. QED
        BY <3>1, <4>2 DEF atoms
    <3>3. CASE \E u : IsAtom(u) /\ atoms = <<u, a>>
      <4>1. PICK u : IsAtom(u) /\ atoms = <<u, a>>
        BY <3>3
      <4>2. Listed(<<u, a>>) /\ ToSet(<<u, a>>) = {u, a}
        BY ListedOne
      <4> HIDE DEF atoms
      <4>3. Listed(atoms) /\ ToSet(atoms) = {u, a}
        BY <4>1, <4>2
      <4>4. QED
        BY <3>1, <4>1, <4>3 DEF atoms
    <3>4. QED
      BY <3>1, <3>2, <3>3
  <2>3. QED
    BY <1>1, <2>1, <2>2
<1> HIDE DEF base, atoms
<1>5. \A r : Keeps(r) => \A a \in ToSet(atoms) : Keeps(AtomStep(r, a))
  BY <1>4, HandleAtomKeeps, ThenKeeps DEF AtomStep, Keeps
<1>6. atoms \in Seq(ToSet(atoms))
  BY <1>4, ListedRange
<1>7. Keeps(KnownAtoms!Left(base, atoms))
  BY <1>2, <1>5, <1>6, KnownAtoms!LeftInvariant
<1>8. KnownAtoms!Left(base, atoms) = Atoms!Left(base, atoms)
  BY DEF KnownAtoms!Left, KnownAtoms!Max, Atoms!Left, Atoms!Max
<1>9. QED
  BY <1>3, <1>7, <1>8

(* The end of a Chat stream that has given its finish_reason.                *)
LEMMA FinishKeeps ==
  ASSUME "" \notin WireNames, ad.client = Responses, ad.up # Responses, NEW q, Known(q)
  PROVE  Keeps(Finish(ad, q))
<1> DEFINE a == [Atom("terminal") EXCEPT !.status = "completed", !.stop = q.stop]
<1>1. Shown(a)
  BY DEF Shown, Atom
<1>2. Finish(ad, q) \in {Nothing(q), Encode(ad, q, a), Failed(q)}
  BY DEF Finish, NativePair
<1>3. Encode(ad, q, a) = EncodeResponses(q, a)
  BY DEF Encode, Chat, Messages, Responses
<1> HIDE DEF a
<1>4. QED
  BY <1>1, <1>2, <1>3, EncodeResponsesKeeps, NothingKeeps, FailedKeeps

-----------------------------------------------------------------------------
(* The native Responses pair: what the upstream says names a tool only where *)
(* the adapter undoes the alias.                                             *)

UpNamed(x) == {"type", "name"} \subseteq DOMAIN x /\ (x.type = "function_call" \/ x.name = "")
UpEvent(ev) ==
    /\ {"e", "id", "items"} \subseteq DOMAIN ev
    /\ UpNamed(ev) /\ \A x \in ToSet(ev.items) : UpNamed(x)
    /\ ev.e \in Identified \ {"[DONE]"} => ev.id = "resp_up"
    /\ ev.e = Private => ev.name = "" /\ ev.items = <<>>
UpSays(seq) == Listed(seq) /\ \A ev \in ToSet(seq) : UpEvent(ev)

LEMMA RestoredShown ==
  ASSUME "" \notin WireNames, NEW x, UpNamed(x)
  PROVE  Shown(RestoreCall(ad, x))
<1>1. x.name \notin DOMAIN ad.aliases => Shown(x)
  BY DEF Shown, WireNames
<1>2. x.type # "function_call" => Shown(x)
  BY DEF Shown, UpNamed
<1>3. x.name \in DOMAIN ad.aliases => ad.aliases[x.name].name \notin WireNames
  BY DEF WireNames
<1>4. CASE x.type # "function_call" \/ x.name \notin DOMAIN ad.aliases
  BY <1>1, <1>2, <1>4 DEF RestoreCall
<1>5. CASE ~(x.type # "function_call" \/ x.name \notin DOMAIN ad.aliases)
  <2>1. RestoreCall(ad, x).name \in {"", ad.aliases[x.name].name}
    BY <1>5 DEF RestoreCall, UpNamed
  <2>2. QED
    BY <1>3, <1>5, <2>1 DEF Shown
<1>6. QED
  BY <1>4, <1>5

LEMMA RestoredProper ==
  ASSUME "" \notin WireNames, ad.up = Responses, NEW ev, UpEvent(ev), ev.e # "[DONE]"
  PROVE  Proper(RestorePayload(ad, ev))
<1> DEFINE c == RestoreCall(ad, ev)
           items == [k \in DOMAIN ev.items |-> RestoreCall(ad, ev.items[k])]
           r == [c EXCEPT !.items = items]
<1>1. DOMAIN c = DOMAIN ev /\ c.e = ev.e /\ c.id = ev.id
  BY DEF RestoreCall, UpEvent, UpNamed
<1>2. Shown(c)
  BY RestoredShown DEF UpEvent
<1>3. \A x \in ToSet(items) : Shown(x)
  <2>1. \A k \in DOMAIN ev.items : UpNamed(ev.items[k])
    BY DEF UpEvent, ToSet
  <2>2. \A k \in DOMAIN ev.items : Shown(RestoreCall(ad, ev.items[k]))
    BY <2>1, RestoredShown
  <2>3. QED
    BY <2>2 DEF ToSet
<1>4. RestorePayload(ad, ev) = r
  BY DEF RestorePayload
<1> HIDE DEF c, items
<1>5. r.e = ev.e /\ r.id = ev.id /\ r.name = c.name /\ r.items = items
  BY <1>1 DEF UpEvent, UpNamed
<1> HIDE DEF r
<1>6. QED
  BY <1>2, <1>3, <1>4, <1>5 DEF Proper, Shown, UpEvent, Id

LEMMA RewriteTold ==
  ASSUME "" \notin WireNames, ad.up = Responses, NEW q, "id" \in DOMAIN q,
         NEW ev, UpEvent(ev), ev.e # "[DONE]"
  PROVE  Fit(RewriteToolEvent(ad, q, ev).out) /\ RewriteToolEvent(ad, q, ev).s.id = q.id
<1> DEFINE r == RewriteToolEvent(ad, q, ev)
           filled(v) == [ev EXCEPT !.d = v]
<1>1. r.s.id = q.id
  BY DEF RewriteToolEvent, Nothing
<1>2. \A v : UpEvent(filled(v)) /\ filled(v).e = ev.e
  BY DEF UpEvent, UpNamed
<1>3. Proper(RestorePayload(ad, ev)) /\ \A v : Proper(RestorePayload(ad, filled(v)))
  BY <1>2, RestoredProper
<1>4. \A i, d : /\ Proper(OnItem("response.custom_tool_call_input.delta", i, d))
                /\ Proper(OnItem("response.custom_tool_call_input.done", i, d))
  BY OnItemProper DEF Identified, SuccessEvents
<1>5. Fit(r.out)
  BY <1>3, <1>4, FitOne DEF RewriteToolEvent, Nothing
<1>6. QED
  BY <1>1, <1>5

(* What is told, and the id of a stream that succeeds.                       *)
TellsRight(r) ==
    /\ Fit(r.out) /\ "id" \in DOMAIN r.s
    /\ ad.up # Responses => Known(r.s)
    /\ r.s.success = TRUE => r.s.id = Id

LEMMA NativeTold ==
  ASSUME "" \notin WireNames, ad.up = Responses, NEW q, Running(q), "id" \in DOMAIN q,
         NEW ev, UpEvent(ev)
  PROVE  TellsRight(HandleNativeResponses(ad, q, ev))
<1> DEFINE ended == ev.e \in DOMAIN ResponseStatus \cup {"error"}
           well == ev.e \in {"response.completed", "response.incomplete"}
           id == Present(IF ended \/ ev.e = "response.created" THEN ev.id ELSE "", q.id)
           p == [q EXCEPT !.id = id, !.terminal = ended, !.success = well]
           rewritten == RewriteToolEvent(ad, p, ev)
           r == HandleNativeResponses(ad, q, ev)
<1>1. q.success = FALSE
  BY DEF Running
<1>2. CASE ev.e = "[DONE]"
  <2>1. r = Nothing(q)
    BY <1>2 DEF HandleNativeResponses, Private
  <2> HIDE DEF r
  <2>2. r.s = q /\ r.out = <<>>
    BY <2>1 DEF Nothing
  <2>3. TellsRight(r)
    BY <1>1, <2>2, FitOne DEF TellsRight
  <2>4. QED
    BY <2>3 DEF r
<1>3. CASE ev.e = Private
  <2>1. r = [s |-> q, out |-> If(ad.cli, ev)]
    BY <1>3 DEF HandleNativeResponses, Private
  <2>2. Proper(ev)
    BY <1>3, OwnEvents DEF UpEvent, Proper, Shown, Identified, SuccessEvents, Private
  <2> HIDE DEF r
  <2>3. Fit(If(ad.cli, ev))
    BY <2>2, FitIf
  <2>4. r.s = q /\ Fit(r.out)
    BY <2>1, <2>3
  <2>5. TellsRight(r)
    BY <1>1, <2>4 DEF TellsRight
  <2>6. QED
    BY <2>5 DEF r
<1>4. CASE ev.e \notin {"[DONE]", Private}
  <2>1. r = rewritten
    BY <1>4 DEF HandleNativeResponses
  <2>2. well => id = "resp_up"
    BY DEF UpEvent, Identified, SuccessEvents, ResponseStatus, Present
  <2>3. "success" \in DOMAIN q
    BY DEF Running
  <2> HIDE DEF r, rewritten, ended, well, id
  <2>4. DOMAIN p = DOMAIN q /\ p.id = id /\ p.success = well
    BY <2>3
  <2> HIDE DEF p
  <2>5. Fit(r.out) /\ r.s.id = id
    BY <1>4, <2>1, <2>4, RewriteTold DEF rewritten
  <2>6. "e" \in DOMAIN ev
    BY DEF UpEvent
  <2>7. DOMAIN r.s = DOMAIN q /\ r.s.success = well
    BY <2>1, <2>4, <2>6, RewriteKeeps DEF rewritten
  <2>8. QED
    BY <2>2, <2>5, <2>7 DEF TellsRight, Id, r
<1>5. QED
  BY <1>2, <1>3, <1>4

LEMMA HandleTold ==
  ASSUME "" \notin WireNames, Configured, ad.client = Responses,
         NEW q, Running(q), "id" \in DOMAIN q, ad.up # Responses => Known(q),
         NEW ev, Heard(ad.up, ev), ad.up = Responses => UpEvent(ev)
  PROVE  TellsRight(Handle(ad, q, ev))
<1>0. Chat # Responses /\ Chat # Messages /\ Messages # Responses
  BY DEF Chat, Responses, Messages
<1>1. q.terminal = FALSE
  BY DEF Running
<1>2. CASE ad.up = Responses
  <2>1. Handle(ad, q, ev) = HandleNativeResponses(ad, q, ev)
    BY <1>0, <1>1, <1>2 DEF Handle, NativePair
  <2>2. QED
    BY <1>2, <2>1, NativeTold
<1>3. CASE ad.up # Responses
  <2>1. Handle(ad, q, ev) = HandleAtoms(ad, q, ev)
    BY <1>0, <1>1, <1>3 DEF Handle, NativePair
  <2>2. Keeps(Handle(ad, q, ev))
    BY <1>3, <2>1, HandleAtomsKeeps
  <2>3. QED
    BY <1>3, <2>2 DEF Keeps, TellsRight, Known
<1>4. QED
  BY <1>2, <1>3

LEMMA FinishTold ==
  ASSUME "" \notin WireNames, ad.client = Responses,
         NEW q, Running(q), "id" \in DOMAIN q, ad.up # Responses => Known(q)
  PROVE  TellsRight(Finish(ad, q))
<1>1. CASE ad.up = Responses
  <2>1. Finish(ad, q) = Failed(q)
    BY <1>1 DEF Finish, Running, Chat, Responses
  <2>2. "error" \notin Identified
    BY DEF Identified, SuccessEvents
  <2>3. Fit(<<Event("error")>>)
    BY <2>2, OnItemProper, FitOne
  <2>4. "success" \in DOMAIN q
    BY DEF Running
  <2> DEFINE r == Failed(q)
  <2>5. r.out = <<Event("error")>> /\ "id" \in DOMAIN r.s /\ r.s.success = FALSE
    BY <2>4 DEF Failed
  <2> HIDE DEF r
  <2>6. TellsRight(r)
    BY <1>1, <2>3, <2>5 DEF TellsRight
  <2>7. QED
    BY <2>1, <2>6 DEF r
<1>2. CASE ad.up # Responses
  BY <1>2, FinishKeeps DEF Keeps, TellsRight, Known
<1>3. QED
  BY <1>1, <1>2

-----------------------------------------------------------------------------
(* What a Responses upstream says names tools only in calls.                 *)

LEMMA UpSaysOne ==
  /\ UpSays(<<>>)
  /\ \A x : UpEvent(x) => UpSays(<<x>>)
  /\ \A x, y : UpEvent(x) /\ UpEvent(y) => UpSays(<<x, y>>)
BY ListedOne DEF UpSays

LEMMA UpSaysConcat ==
  ASSUME NEW a, NEW b, UpSays(a), UpSays(b)
  PROVE  UpSays(a \o b)
BY ListedConcat DEF UpSays

LEMMA OnItemUp ==
  ASSUME NEW name, name \notin Identified \cup {Private}, NEW i, NEW d
  PROVE  UpEvent(OnItem(name, i, d))
<1>1. ToSet(<<>>) = {}
  BY OwnEvents
<1>2. QED
  BY <1>1 DEF OnItem, Event, UpEvent, UpNamed

LEMMA DeltasUp ==
  ASSUME NEW name, name \notin Identified \cup {Private}, NEW i, NEW c, Listed(c)
  PROVE  UpSays([j \in DOMAIN c |-> OnItem(name, i, c[j])])
<1> DEFINE f == [j \in DOMAIN c |-> OnItem(name, i, c[j])]
<1>1. \A j \in DOMAIN c : UpEvent(f[j])
  BY OnItemUp
<1>2. Len(c) \in Nat /\ DOMAIN c = 1..Len(c)
  BY ListedRange
<1>3. f = [k \in DOMAIN c |-> f[k]]
  OBVIOUS
<1> HIDE DEF f
<1>4. Listed(f) /\ ToSet(f) = {f[k] : k \in 1..Len(c)}
  BY <1>2, <1>3, ListedFunction
<1>5. UpSays(f)
  BY <1>1, <1>2, <1>4 DEF UpSays
<1>6. QED
  BY <1>5 DEF f

LEMMA ItemUp ==
  ASSUME NEW i, NEW item, UpNamed(item)
  PROVE  UpEvent(Added(i, item)) /\ UpEvent(Done(i, item))
<1>1. ToSet(<<>>) = {}
  BY OwnEvents
<1>2. {"response.output_item.added", "response.output_item.done"} \cap (Identified \cup {Private}) = {}
  BY DEF Identified, SuccessEvents, Private
<1>3. \A ev : /\ {"e", "id", "items", "type", "name"} \subseteq DOMAIN ev
              /\ ev.type = item.type /\ ev.name = item.name /\ ev.items = <<>>
              /\ ev.e \in {"response.output_item.added", "response.output_item.done"}
              => UpEvent(ev)
  BY <1>1, <1>2 DEF UpEvent, UpNamed
<1>4. QED
  BY <1>3 DEF Added, Done, ItemEvent, OnItem, Event

LEMMA ResponsesItemUp ==
  ASSUME NEW item
  PROVE  UpNamed(ResponsesItem(item))
BY DEF ResponsesItem, MessageItem, ReasoningItem, Item, UpNamed

LEMMA ResponsesPartUp ==
  ASSUME NEW a, NEW k, Listed(a.items[k].chunks)
  PROVE  UpSays(ResponsesPart(a, k))
<1> DEFINE item == a.items[k]
           i == k - 1
           whole == ResponsesItem(item)
           empty == [whole EXCEPT !.d = IF item.kind = "tool" /\ item.whole THEN @ ELSE <<>>,
                                  !.sig = <<>>]
           deltas(name) == [j \in DOMAIN item.chunks |-> OnItem(name, i, item.chunks[j])]
           one(name, d) == <<OnItem(name, i, d)>>
           two(first, second) == <<OnItem(first, i, whole.d), OnItem(second, i, whole.d)>>
           text == one("response.content_part.added", <<>>) \o deltas("response.output_text.delta")
                   \o two("response.output_text.done", "response.content_part.done")
           thought == one("response.reasoning_summary_part.added", <<>>)
                      \o deltas("response.reasoning_summary_text.delta")
                      \o two("response.reasoning_summary_text.done",
                             "response.reasoning_summary_part.done")
           call == (IF item.whole THEN <<>> ELSE deltas("response.function_call_arguments.delta"))
                   \o one("response.function_call_arguments.done", whole.d)
           first == <<Added(i, empty)>>
           last == <<Done(i, whole)>>
           names == QuietNames \ {"response.created", Private}
<1>1. ResponsesPart(a, k) \in {first \o told \o last : told \in {text, thought, call}}
  BY DEF ResponsesPart, Deltas
<1>2. UpNamed(whole)
  BY ResponsesItemUp
<1> HIDE DEF i, whole
<1>3. UpNamed(empty)
  BY <1>2 DEF UpNamed
<1> HIDE DEF empty
<1>4. UpSays(first) /\ UpSays(last)
  BY <1>2, <1>3, ItemUp, UpSaysOne
<1>5. \A name \in names : name \notin Identified \cup {Private}
  BY DEF QuietNames, Identified, SuccessEvents, Private
<1>6. \A name \in names : UpSays(deltas(name)) /\ \A d : UpSays(one(name, d))
  BY <1>5, DeltasUp, OnItemUp, UpSaysOne
<1>7. \A n1 \in names, n2 \in names : UpSays(two(n1, n2))
  BY <1>5, OnItemUp, UpSaysOne
<1> HIDE DEF first, last, deltas, one, two
<1>8. UpSays(text) /\ UpSays(thought) /\ UpSays(call)
  BY <1>6, <1>7, UpSaysOne, UpSaysConcat DEF QuietNames, Private
<1> HIDE DEF text, thought, call
<1>9. \A told \in {text, thought, call} : UpSays(first \o told \o last)
  BY <1>4, <1>8, UpSaysConcat
<1>10. QED
  BY <1>1, <1>9

LEMMA HeadAndTailUp ==
  ASSUME NEW a, Listed(a.items)
  PROVE  UpSays(Opening(Responses, a)) /\ UpSays(ResponsesTail(a)) /\ UpEvent(Event("error"))
<1> DEFINE name == CASE a.stop = "" -> "response.completed"
                     [] a.stop = "failed" -> "response.failed"
                     [] OTHER -> "response.incomplete"
           items == [k \in DOMAIN a.items |-> ResponsesItem(a.items[k])]
           stop == IF a.stop = "failed" THEN "" ELSE a.stop
           x == [Event(name) EXCEPT !.id = "resp_up", !.items = items, !.usage = a.usage,
                                    !.stop = stop]
           y == Event("[DONE]")
<1>0. ToSet(<<>>) = {}
  BY OwnEvents
<1>1. UpEvent([Event("response.created") EXCEPT !.id = "resp_up"]) /\ UpEvent(Event(Private))
  BY <1>0 DEF Event, UpEvent, UpNamed, Identified, SuccessEvents, Private
<1>2. UpSays(Opening(Responses, a))
  BY <1>1, UpSaysOne DEF Opening, Responses, Messages
<1>3. UpEvent(y) /\ UpEvent(Event("error"))
  BY <1>0 DEF Event, UpEvent, UpNamed, Identified, SuccessEvents, Private
<1>4. \A v \in ToSet(items) : UpNamed(v)
  BY ResponsesItemUp DEF ToSet
<1>5. name # Private
  BY DEF Private
<1>6. ResponsesTail(a) = <<x, y>>
  BY DEF ResponsesTail
<1> HIDE DEF name, items, stop
<1>7. /\ {"e", "id", "items", "type", "name"} \subseteq DOMAIN x
      /\ x.e = name /\ x.id = "resp_up" /\ x.items = items /\ x.name = ""
  BY DEF Event
<1> HIDE DEF x, y
<1>8. UpEvent(x)
  BY <1>4, <1>5, <1>7 DEF UpEvent, UpNamed
<1>9. QED
  BY <1>2, <1>3, <1>6, <1>8, UpSaysOne

LEMMA PartUp ==
  ASSUME NEW a \in Answers[Responses], NEW k \in 0..Len(a.items) + 1
  PROVE  UpSays(Part(Responses, a, k))
<1>0. Responses \in Protocols /\ Chat # Responses /\ Messages # Responses
  BY DEF Chat, Responses, Messages, Protocols
<1>1. a.items \in Seq(ToSet(a.items))
  BY <1>0, StreamAssumption DEF IsList
<1>2. /\ Len(a.items) \in Nat /\ Listed(a.items)
      /\ \A j \in 1..Len(a.items) : a.items[j] \in ToSet(a.items)
  BY <1>1, IsListed DEF IsList
<1>3. \A item \in ToSet(a.items) : Listed(item.chunks)
  BY <1>0, StreamAssumption, IsListed
<1>4. CASE k = 0
  BY <1>2, <1>4, HeadAndTailUp DEF Part
<1>5. CASE k # 0 /\ k =< Len(a.items)
  <2>1. k \in 1..Len(a.items)
    BY <1>2, <1>5
  <2>2. UpSays(ResponsesPart(a, k))
    BY <1>2, <1>3, <2>1, ResponsesPartUp
  <2>3. QED
    BY <1>0, <1>5, <2>2 DEF Part
<1>6. CASE k # 0 /\ ~(k =< Len(a.items))
  BY <1>0, <1>2, <1>6, HeadAndTailUp DEF Part
<1>7. QED
  BY <1>4, <1>5, <1>6

-----------------------------------------------------------------------------
(* The invariant of what a Responses client was told.                        *)

Faithful == ad.client = Responses =>
    /\ Fit(sent) /\ "id" \in DOMAIN s
    /\ ad.up # Responses => Known(s)
    /\ s.success = TRUE => s.id = Id
    /\ bound.done = TRUE => bound.id = Id

LEMMA NoNamelessAlias ==
  ASSUME Placed
  PROVE  "" \notin WireNames /\ Configured /\ ad.up \in Protocols /\ answer \in Answers[ad.up]
BY OwnEvents, StreamAssumption DEF Placed, Configured

LEMMA InitFaithful ==
  ASSUME Init
  PROVE  Faithful
<1>1. s = NewBackendStreamAdapter /\ sent = <<>> /\ bound.done = FALSE
  BY DEF Init, Unbound
<1>2. ASSUME ad.up # Responses
      PROVE  Known(s)
  <2>1. /\ {"id", "created", "tools", "toolIndex", "message", "reason", "next"} \subseteq DOMAIN s
        /\ s.id = "resp_own" /\ s.next = 0 /\ s.tools = <<>> /\ s.toolIndex = <<>>
    BY <1>1 DEF NewBackendStreamAdapter
  <2>2. DOMAIN s.tools = {} /\ DOMAIN s.toolIndex = {}
    BY <2>1
  <2>3. 0..(s.next - 1) = {} /\ s.next \in Nat
    BY <2>1
  <2>4. QED
    BY <1>2, <2>1, <2>2, <2>3 DEF Known, PublicCalls, Id
<1>3. "id" \in DOMAIN s /\ s.success = FALSE
  BY <1>1 DEF NewBackendStreamAdapter
<1>4. QED
  BY <1>1, <1>2, <1>3, FitOne DEF Faithful

(* The same adapter after the step.                                          *)
LEMMA FaithfulNext ==
  ASSUME ad' = ad,
         ad.client = Responses =>
            /\ Fit(sent') /\ "id" \in DOMAIN s'
            /\ ad.up # Responses => Known(s')
            /\ s'.success = TRUE => s'.id = Id
            /\ bound'.done = TRUE => bound'.id = Id
  PROVE  Faithful'
<1>1. Id' = Id /\ WireNames' = WireNames
  BY DEF Id, WireNames
<1>2. Fit(sent') => Fit(sent)'
  BY <1>1 DEF Fit, Proper, Shown
<1>3. Known(s') => Known(s)'
  BY <1>1 DEF Known, PublicCalls, Places, Shown
<1>4. QED
  BY <1>1, <1>2, <1>3 DEF Faithful

LEMMA EmitFaithful ==
  ASSUME Faithful, UNCHANGED <<ad, answer, bound>>, Open, NEW r, NEW after, Emit(r, after),
         ad.client = Responses => TellsRight(r)
  PROVE  Faithful'
<1>1. bound'.done = FALSE
  BY DEF Open
<1>2. SUFFICES ASSUME ad.client = Responses
               PROVE  Fit(sent') /\ s' = r.s
  <2>1. CASE ad.client = Responses
    BY <1>1, <1>2, <2>1, FaithfulNext DEF TellsRight
  <2>2. CASE ad.client # Responses
    BY <2>2, FaithfulNext
  <2>3. QED
    BY <2>1, <2>2
<1>3. Fit(sent) /\ Fit(r.out)
  BY <1>2 DEF Faithful, TellsRight
<1>4. Listed(r.out)
  BY <1>3 DEF Fit
<1>5. \A n \in 0..Len(r.out) : Fit(sent \o SubSeq(r.out, 1, n))
  BY <1>3, FitPrefix, FitConcat
<1>6. Fit(sent \o r.out)
  BY <1>3, FitConcat
<1>7. QED
  BY <1>4, <1>5, <1>6, EmitCases

LEMMA StepFaithful ==
  ASSUME SInv, Faithful, [Next]_vars
  PROVE  Faithful'
<1>0. "" \notin WireNames /\ Configured /\ ad.up \in Protocols /\ answer \in Answers[ad.up] /\ Placed
  BY NoNamelessAlias DEF SInv
<1>1. CASE \E k \in Parts : Deliver(k)
  <2>1. PICK k \in Parts : Deliver(k)
    BY <1>1
  <2> DEFINE seq == Part(ad.up, answer, k)
             ev == seq[read[k] + 1]
  <2>2. Open /\ UNCHANGED <<ad, answer, bound>>
    BY <2>1 DEF SInv, Phased, Deliver
  <2>3. Says(ad.up, seq)
    BY <1>0, PartSays DEF Parts
  <2>4. seq \in Seq(ToSet(seq)) /\ read[k] \in 0..Len(seq) /\ read[k] # Len(seq)
    BY <1>0, <2>1, <2>3, ListedRange DEF Says, Placed, Deliver, Ready, Over
  <2>5. ev \in ToSet(seq)
    BY <2>4 DEF ToSet
  <2>6. Emit(Handle(ad, s, ev), AfterHandle(Handle(ad, s, ev)))
    BY <2>1 DEF Deliver
  <2>7. ad.up = Responses => UpSays(seq)
    BY <1>0, PartUp DEF Parts
  <2> HIDE DEF ev, seq
  <2>8. Heard(ad.up, ev) /\ (ad.up = Responses => UpEvent(ev))
    BY <2>3, <2>5, <2>7 DEF Says, UpSays
  <2>9. ad.client = Responses => TellsRight(Handle(ad, s, ev))
    BY <1>0, <2>2, <2>8, HandleTold DEF Open, Faithful
  <2>10. QED
    BY <2>2, <2>6, <2>9, EmitFaithful
<1>2. CASE UpstreamError
  <2> DEFINE ev == Event("error")
  <2>1. Open /\ UNCHANGED <<ad, answer, bound>>
    BY <1>2 DEF SInv, Phased, UpstreamError
  <2>2. Heard(ad.up, ev)
    BY <1>0, ListedOne DEF Heard, Event, EndingsOf, Protocols
  <2>3. UpEvent(ev)
    BY OwnEvents DEF Event, UpEvent, UpNamed, Identified, SuccessEvents, Private
  <2>4. Emit(Handle(ad, s, ev), AfterHandle(Handle(ad, s, ev)))
    BY <1>2 DEF UpstreamError
  <2> HIDE DEF ev
  <2>5. ad.client = Responses => TellsRight(Handle(ad, s, ev))
    BY <1>0, <2>1, <2>2, <2>3, HandleTold DEF Open, Faithful
  <2>6. QED
    BY <2>1, <2>4, <2>5, EmitFaithful
<1>3. CASE EndOfStream
  <2> DEFINE r == Finish(ad, s)
  <2>1. Open /\ UNCHANGED <<ad, answer, bound>>
    BY <1>3 DEF SInv, Phased, EndOfStream
  <2>2. PICK after : Emit(r, after)
    BY <1>3 DEF EndOfStream
  <2>3. ad.client = Responses => TellsRight(r)
    BY <1>0, <2>1, FinishTold DEF Open, Faithful
  <2> HIDE DEF r
  <2>4. QED
    BY <2>1, <2>2, <2>3, EmitFaithful
<1>4. CASE ReadFails
  <2>1. UNCHANGED <<ad, s, bound>> /\ sent' = Append(sent, Event("error"))
    BY <1>4 DEF ReadFails
  <2>2. "error" \notin Identified
    BY DEF Identified, SuccessEvents
  <2>3. ad.client = Responses => Fit(sent')
    BY <1>0, <2>1, <2>2, OnItemProper, FitAppend DEF Faithful
  <2>4. QED
    BY <2>1, <2>3, FaithfulNext DEF Faithful
<1>5. CASE Canceled
  <2>1. UNCHANGED <<ad, s, sent, bound>>
    BY <1>5 DEF Canceled
  <2>2. QED
    BY <2>1, FaithfulNext DEF Faithful
<1>6. CASE Commit
  <2>1. /\ UNCHANGED <<ad, s>> /\ Won /\ bound'.id = ResponseID
        /\ ad.client = Responses => sent' = sent
    BY <1>6 DEF SInv, Phased, Commit, Chat, Responses
  <2>2. ad.client = Responses => bound'.id = Id
    BY <2>1 DEF Won, Faithful, ResponseID
  <2>3. QED
    BY <2>1, <2>2, FaithfulNext DEF Faithful
<1>7. CASE UNCHANGED vars
  <2>1. UNCHANGED <<ad, s, sent, bound>>
    BY <1>7 DEF vars
  <2>2. QED
    BY <2>1, FaithfulNext DEF Faithful
<1>8. QED
  BY <1>1, <1>2, <1>3, <1>4, <1>5, <1>6, <1>7 DEF Next, Ended

LEMMA FaithfulAlways == Spec => []Faithful
<1>1. Spec => []SInv
  BY SInvCorrect
<1>2. Init => Faithful
  BY InitFaithful
<1>3. SInv /\ Faithful /\ [Next]_vars => Faithful'
  BY StepFaithful
<1>4. QED
  BY <1>1, <1>2, <1>3, PTL DEF Spec

LEMMA FaithfulMatches ==
  ASSUME SInv, Faithful
  PROVE  CommitMatchesClient
<1>1. /\ bound.done => Succeeded
      /\ pc = "ended" /\ Succeeded => bound.done
  BY SInvBound
<1>2. ASSUME bound.done, ad.client = Responses, NEW k \in DOMAIN sent,
             sent[k].e \in {"response.created"} \cup SuccessEvents
      PROVE  sent[k].id = bound.id
  <2>1. bound.id = Id
    BY <1>2 DEF Faithful, SInv, Phased, Closed, Open, Won
  <2>2. sent[k] \in ToSet(sent)
    BY <1>2 DEF ToSet
  <2>3. Proper(sent[k])
    BY <1>2, <2>2 DEF Faithful, Fit
  <2>4. QED
    BY <1>2, <2>1, <2>3 DEF Proper, Identified
<1>3. QED
  BY <1>1, <1>2 DEF CommitMatchesClient

LEMMA FaithfulHides ==
  ASSUME Faithful
  PROVE  AliasHidden
<1>1. SUFFICES ASSUME ad.client = Responses, NEW ev \in ToSet(sent), NEW x \in {ev} \cup ToSet(ev.items)
               PROVE  x.name \notin WireNames
  BY DEF AliasHidden, Seen
<1>2. Proper(ev)
  BY <1>1 DEF Faithful, Fit
<1>3. QED
  BY <1>1, <1>2 DEF Proper, Shown

(* A turn is bound if and only if its client was told of success and was     *)
(* still there, and under the response id that the client was given, however *)
(* many events the stream has and wherever it breaks off.  [executeStreaming,*)
(* emit, commitStreamContinuity, ResponseID]                                 *)
THEOREM CommitCorrect == Spec => []CommitMatchesClient
<1>1. SInv /\ Faithful => CommitMatchesClient
  BY FaithfulMatches
<1>2. QED
  BY <1>1, SInvCorrect, FaithfulAlways, PTL

(* A Responses client never sees the name under which one of its tools was   *)
(* sent upstream, in an event or in an item of the final response, whatever  *)
(* the upstream's dialect.  [HandleAtom, encodeResponses,                    *)
(* restoreResponsesCallAlias, rewriteNativeResponsesToolEvent]               *)
THEOREM AliasHiddenCorrect == Spec => []AliasHidden
<1>1. Faithful => AliasHidden
  BY FaithfulHides
<1>2. QED
  BY <1>1, FaithfulAlways, PTL

=============================================================================
