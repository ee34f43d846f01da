------------------------------ MODULE MCSession ------------------------------
(* Short pipelines of requests, each aimed at one part of processRequests. *)
EXTENDS Session

Req(words) == [i \in 1..Len(words) |-> <<words[i]>>]
Set(key) == Req(<<"SET", key>>)
Get == Req(<<"GET", "a">>)
Ping == Req(<<"PING">>)
Multi == Req(<<"MULTI">>)
Exec == Req(<<"EXEC">>)
Discard == Req(<<"DISCARD">>)
\* A value that looks like the protocol, and one that is larger than a region.
Binary == <<<<"SET">>, <<"*", CR, LF>>>>
Large == <<<<"SET">>, <<"l", "a", "r", "g", "e">>>>
Wide == Req(<<"HMSET", "h", "f", "v", "g">>)
Fused == <<<<"TX_READWRITE">>, <<"1", "2", "1", "SET", "1", "t">>, <<"real">>>>

Local(requests) ==
    [requests |-> requests, tail |-> <<>>, password |-> FALSE, trusted |-> FALSE,
     breaks |-> FALSE, stops |-> FALSE, reigns |-> 0, detaches |-> 0]
Remote(requests) == [Local(requests) EXCEPT !.password = TRUE]

Batches ==
    {[Local(<<Set("a"), Set("b"), Set("c"), Get>>) EXCEPT !.reigns = 1],
     Local(<<Binary, Large, Ping>>),
     [Local(<<Set("a"), Req(<<"LEASE_GET", "l">>), Get>>) EXCEPT !.breaks = TRUE],
     [Local(<<Set("a"), Set("b"), Get>>) EXCEPT !.stops = TRUE],
     [Local(<<Set("a"), Ping, Set("b")>>) EXCEPT !.detaches = 1]}

Blocks ==
    {[Local(<<Multi, Set("a"), Get, Exec, Get>>) EXCEPT !.reigns = 1],
     Local(<<Set("a"), Multi, Multi, Set("b"), Discard, Get>>),
     Local(<<Multi, Ping, Exec, Exec, Discard, Req(<<"MULTI", "x">>)>>),
     Local(<<Set("a"), Fused, Get>>),
     [Local(<<Multi, Get, Exec>>) EXCEPT !.detaches = 1],
     [Local(<<Set("a"), Exec>>) EXCEPT !.detaches = 1],
     Local(<<Set("a"), Discard, Req(<<"TIMESTAMPED_LEASE_GET", "l">>)>>)}

Others ==
    {Local(<<Req(<<"QUARKDB_HEALTH">>), Req(<<"RECOVERY_INFO">>), Req(<<"CLIENT", "x">>)>>),
     Local(<<Set("a"), Req(<<"MONITOR">>), Get>>),
     [Local(<<Req(<<"MONITOR">>), Get>>) EXCEPT !.breaks = TRUE],
     Local(<<Ping, Wide>>),
     Local(<<Set("a"), Wide>>)}

Passwords ==
    {Remote(<<Get, Req(<<"AUTH", "no">>), Req(<<"AUTH", "pw">>), Set("a"), Get>>),
     Remote(<<Req(<<"CHALLENGE", "x">>), Req(<<"VALIDATE", "signature">>), Get, Req(<<"AUTH", "no">>), Get>>),
     Remote(<<Set("a"), Multi, Set("b"), Exec, Req(<<"VALIDATE", "signature">>)>>),
     [Remote(<<Req(<<"AUTH", "no">>), Get>>) EXCEPT !.trusted = TRUE],
     Remote(<<Ping, Large>>),
     Local(<<Req(<<"AUTH", "pw">>), Req(<<"CHALLENGE", "x">>), Get>>)}

Malformed ==
    {[Local(<<Set("a")>>) EXCEPT !.tail = <<"$", "1", CR, LF>>],
     [Local(<<Set("a")>>) EXCEPT !.tail = <<"*", "x", CR, LF>>],
     [Local(<<Ping, Set("a")>>) EXCEPT !.tail = <<"*", "1", CR, LF, "$", "1", CR, LF, "x", LF, LF>>],
     [Local(<<Set("a")>>) EXCEPT !.tail = <<"*", "1", CR, LF, "$", "0", CR, LF, CR, LF>>]}

All == Batches \cup Blocks \cup Others \cup Passwords \cup Malformed

=============================================================================
