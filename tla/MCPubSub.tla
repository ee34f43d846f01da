------------------------------ MODULE MCPubSub ------------------------------
(* Two or three listeners, two channels and two patterns. *)
EXTENDS PubSub

\* Pattern 1 matches both channels, pattern 2 the second one.
BothOrSecond == [p \in Pattern |-> IF p = 1 THEN Channel ELSE Channel \ {1}]

Start(entries, commands, messages, reigns) ==
    [subs |-> entries, left |-> [commands |-> commands, publish |-> messages, reigns |-> reigns]]

Crowded == {<<"channel", 1, 1>>, <<"channel", 1, 2>>, <<"channel", 1, 3>>, <<"pattern", 1, 2>>}
Patterns == {<<"pattern", 1, 1>>, <<"pattern", 2, 1>>, <<"pattern", 2, 2>>}
Spread == {<<"channel", 1, 2>>, <<"channel", 2, 1>>, <<"channel", 2, 3>>}

\* Messages, purges, both at once, and a node that leads again while it purges.
Some == {Start(Crowded, 1, 1, 0), Start(Patterns, 2, 1, 0), Start(Spread, 1, 0, 1),
         Start(Patterns, 1, 1, 1), Start(Spread, 0, 1, 2)}

\* Two listeners, one of which leaves while they are purged.
Two == {Start({<<"channel", 1, 1>>, <<"channel", 2, 2>>}, 1, 0, 1)}

=============================================================================
