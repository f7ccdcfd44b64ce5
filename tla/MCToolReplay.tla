---------------------------- MODULE MCToolReplay ----------------------------
(* Small instances of ToolReplay for TLC. *)
EXTENDS ToolReplay

first == "first"
next == "next"
other == "other"
alice == "alice"
bob == "bob"

El(type, id, call, name) == [type |-> type, id |-> id, call |-> call, name |-> name]
Call(id, call, name) == El("call", id, call, name)
Output(call) == El("output", "", call, "")
Ref(id) == El("reference", id, "", "")
Text == El("message", "", "", "")

MCRequests == {first, next, other}

(* Two calls of alice; a call of bob under the names of the first of them.     *)
One == Call("item1", "call1", "one")
Two == Call("item2", "call2", "two")
Theirs == Call("item1", "call1", "theirs")
MCTurns == (first :> <<One, Text, Two>>) @@ (next :> <<Text>>) @@ (other :> <<Theirs>>)
MCBytes(x) == IF x = Two THEN 2 ELSE 1

Body(tenant, input) ==
    [tenant |-> tenant, input |-> input, prev |-> "", key |-> "", store |-> "unset",
     up |-> "responses", stream |-> FALSE, native |-> FALSE, after |-> "", told |-> 0]

Beginnings ==
    {[Body(alice, <<Text>>) EXCEPT !.key = "chat", !.store = "yes"],
     [Body(alice, <<Text>>) EXCEPT !.key = "chat", !.store = "no", !.stream = TRUE]}
Follow(input, told) == [Body(alice, input) EXCEPT !.after = first, !.told = told]
Full == Follow(<<Text, Output("call2"), Output("call1")>>, 3)
Continuations ==
    {[Full EXCEPT !.prev = ResponseId(first), !.store = store] : store \in {"unset", "no"}}
    \cup {[Full EXCEPT !.key = "chat", !.up = up] : up \in {"responses", "chat"}}
    \cup {[Follow(<<Ref("item1"), Output("call1"), Output("call3")>>, 1) EXCEPT !.prev = "resp_unknown"],
          [Follow(<<Ref("item2"), Output("call2"), Output("call1")>>, 3) EXCEPT !.prev = ResponseId(first)],
          [Follow(<<One, Output("call1"), Output("call2")>>, 3) EXCEPT !.key = "chat"],
          [Follow(<<Output("call1"), Output("call3")>>, 3) EXCEPT !.key = "chat"],
          [Full EXCEPT !.native = TRUE, !.prev = ResponseId(first)]}
Others ==
    {[Body(bob, <<Text>>) EXCEPT !.key = "chat", !.up = "chat"],
     [Body(bob, <<Ref("item1"), Output("call1")>>) EXCEPT !.key = "chat", !.stream = TRUE]}
MCBodies == (first :> Beginnings) @@ (next :> Continuations) @@ (other :> Others)
=============================================================================
