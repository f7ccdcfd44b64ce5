-------------------------- MODULE MCStreamExecution --------------------------
(* Small instances of StreamExecution for TLC. *)
EXTENDS StreamExecution

It(kind, chunks) ==
    [kind |-> kind, chunks |-> chunks, id |-> "", name |-> "", sig |-> <<>>,
     late |-> FALSE, whole |-> FALSE]
Call(id, name, chunks) == [It("tool", chunks) EXCEPT !.id = id, !.name = name]

(* "ab" is a stop sequence: it is whole in no chunk of Text, and "a" begins it. *)
Text == It("text", <<<<"a">>, <<"a">>, <<"b", "c">>>>)
Short == It("text", <<<<"d">>, <<"a">>>>)
Thought == [It("reasoning", <<<<"t">>, <<"u">>>>) EXCEPT !.sig = <<"s", "g">>]
Plain == Call("call1", "plain", <<<<"x">>, <<" ">>, <<"y">>>>)
Late == [Plain EXCEPT !.late = TRUE]
Whole == [Call("call2", "plain", <<<<"x", "y">>>>) EXCEPT !.whole = TRUE]
Empty == Call("call2", "plain", <<>>)
Custom == Call("call3", "wire_custom", <<<<"in">>, <<"x">>>>)
Search == Call("call4", "wire_search", <<<<"x">>>>)
Spaced == Call("call5", "wire_ns", <<<<"x">>>>)
Own == Call("call6", "own", <<<<"in">>, <<"x">>>>)      \* sent under its own name

Tools == [wire_custom |-> [kind |-> "custom", name |-> "custom"],
          wire_search |-> [kind |-> "tool_search", name |-> "tool_search"],
          wire_ns |-> [kind |-> "function", name |-> "spaced"],
          own |-> [kind |-> "custom", name |-> "own"]]

Contents ==
    {<<Text>>, <<Thought, Short>>, <<Short, Plain>>, <<Plain, Whole>>, <<Thought, Late>>,
     <<Empty, Short>>, <<Thought, Text, Whole>>, <<Short, Late, Empty>>}
Aliased == {<<Custom, Spaced>>, <<Search, Short>>, <<Plain, Own>>}

Answer(items, stop) == [items |-> items, stop |-> stop, usage |-> [input |-> 3, output |-> 5]]
Stops == [p \in Protocols |->
    CASE p = Chat -> {"", "stop", "length"} [] p = Messages -> {"end_turn", "max_tokens"}
      [] OTHER -> {"", "max_output_tokens", "failed"}]
MCAnswers ==
    [p \in Protocols |-> {Answer(items, stop) : items \in Contents \cup Aliased, stop \in Stops[p]}]

Config(client, up) ==
    [client |-> client, up |-> up, aliases |-> IF client = Responses THEN Tools ELSE <<>>,
     cli |-> FALSE, thinking |-> FALSE, stops |-> <<>>]
Base == {Config(client, up) : client \in Protocols, up \in Protocols}
MCConfigs ==
    Base \cup {[c EXCEPT !.cli = TRUE] : c \in {x \in Base : x.client = x.up}}
         \cup {[c EXCEPT !.thinking = TRUE] : c \in {x \in Base : x.client = Messages}}
         \cup {[Config(Messages, Responses) EXCEPT !.stops = <<<<"a", "b">>>>]}
         \cup {[Config(Messages, Responses) EXCEPT !.thinking = TRUE,
                                                   !.stops = <<<<"a", "b">>, <<"c">>>>]}
(* One signed thought and a text, over a Responses upstream, for a Messages    *)
(* client that asked for its thoughts.                                        *)
MCSignature == {[Config(Messages, Responses) EXCEPT !.thinking = TRUE]}
MCSigned == [p \in Protocols |-> {Answer(<<Thought, Short>>, "")}]
=============================================================================
