--------------------------- MODULE MCStateMachine ---------------------------
(***************************************************************************)
(* TLC instances of the state machine.  A behaviour has the workload of    *)
(* one of these: the types that share entries or fallbacks are together.   *)
(***************************************************************************)
EXTENDS BulkLoad

Pattern(prefix, match) == [prefix |-> prefix, match |-> match]

\* No pattern: hints have two values, keys three.
Anything == Pattern({1, 2}, {1, 2})

Clients(types, commands, clock, scans) ==
    [types |-> types, keys |-> {1, 2}, fields |-> {1, 2}, commands |-> commands, clock |-> clock,
     scans |-> scans, patterns |-> {Anything}, bulkload |-> FALSE]

Writers == {Clients({"hash", "lhash"}, 2, 0, {}), Clients({"set", "string", "read"}, 2, 0, {}),
            Clients({"deque", "string"}, 2, 0, {}), Clients({"vhash", "string"}, 2, 0, {}),
            Clients({"hash", "config"}, 1, 0, {}), Clients({"lease", "string"}, 2, 3, {})}

\* One key, or three for scan.  Patterns: with a literal prefix, and without one.
Scanners ==
    {[Clients({"string"}, 1, 0, {"scan"}) EXCEPT !.keys = {1, 2, 3},
        !.patterns = {Pattern({2, 3}, {3}), Pattern({1, 2, 3}, {1, 3})}],
     [Clients({"lhash"}, 1, 0, {"lhscan"}) EXCEPT !.keys = {1},
        !.patterns = {Pattern({2}, {2}), Pattern({1, 2}, {2})}],
     [Clients({"set", "string"}, 1, 0, {"sscan"}) EXCEPT !.keys = {1}, !.fields = {1, 2, 3}],
     [Clients({"hash"}, 1, 0, {"hscan"}) EXCEPT !.keys = {1}],
     [Clients({"deque"}, 1, 0, {"dequeScanBack"}) EXCEPT !.keys = {1}]}

Loaders == {[w EXCEPT !.bulkload = TRUE] : w \in
              {Clients({"hash", "lhash"}, 1, 0, {}), Clients({"set", "string"}, 1, 0, {})}}

\* A pattern whose literal prefix two of three hints share.
LocalityScanner ==
    {[Clients({"lhash"}, 1, 0, {"lhscan"}) EXCEPT !.keys = {1}, !.fields = {1, 2, 3},
        !.patterns = {Pattern({1, 2}, {1, 2})}]}

All == Writers \cup Scanners \cup Loaders

=============================================================================
