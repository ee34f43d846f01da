----------------------------- MODULE AgreedLog -----------------------------
(***************************************************************************)
(* What a replicated journal promises: there is one sequence of committed  *)
(* entries, it only ever grows at its end, and what a server considers     *)
(* committed is a prefix of it.  A server may forget how much of it is     *)
(* committed, never what it says.                                          *)
(***************************************************************************)
EXTENDS Sequences, SequencesExt

CONSTANTS Server, Initial

VARIABLES
    chosen,  \* the committed entries
    view     \* per server: the entries it considers committed

Init ==
    /\ chosen = Initial
    /\ view = [i \in Server |-> Initial]

Next ==
    /\ IsPrefix(chosen, chosen')
    /\ \A i \in Server : IsPrefix(view'[i], chosen')

Spec == Init /\ [][Next]_<<chosen, view>>

=============================================================================
