------------------------------ MODULE MCLedger ------------------------------
(* The record that the inductive invariant of QuarkLedger speaks of, kept  *)
(* as history variables, so that TLC can check the invariant.  The         *)
(* configuration gives Nat the few values the bounded model needs.         *)
EXTENDS QuarkLedger, TLC

CONSTANTS s1, s2, s3, v1

VARIABLES leaderLog, acked, votes, claims

hist == <<leaderLog, acked, votes, claims>>

Small == 0..5

HistInit ==
    /\ leaderLog = [t \in Small |-> IF t = 0 THEN <<FirstEntry>> ELSE <<>>]
    /\ acked = {} /\ votes = {}
    /\ claims = [x \in Server \X Small |-> <<0, 0>>]

HistNext ==
    /\ leaderLog' = [t \in Small |->
          IF \E i \in Server : node'[i].status = "LEADER" /\ node'[i].term = t
          THEN node'[CHOOSE i \in Server : node'[i].status = "LEADER" /\ node'[i].term = t].log
          ELSE leaderLog[t]]
    /\ acked' = acked \cup
          UNION {{<<i, node'[i].term, k>> :
                 k \in {l \in 1..Len(node'[i].log) : node'[i].log[l].term = node'[i].term}}
               : i \in {j \in Server : node'[j].status = "LEADER"}}
          \cup UNION {{<<a.req.target, a.req.term, k>> :
                 k \in {l \in 1..a.logSize : Holds(leaderLog'[a.req.term], a.req.term, l)}}
               : a \in {b \in acks' \ acks : b.outcome}}
    /\ votes' = votes \cup
          {<<i, node'[i].term, node'[i].votedFor>> : i \in {j \in Server : node'[j].votedFor \in Server}}
    /\ claims' = [x \in Server \X Small |->
          IF director'[x[1]].phase = "electing" /\ director'[x[1]].term = x[2]
          THEN <<director'[x[1]].lastIndex, director'[x[1]].lastTerm>> ELSE claims[x]]

HistSpec == Init /\ HistInit /\ [][Next /\ HistNext]_<<vars, hist>>

LogPart == ElectedInv /\ LeaderInv /\ AwaitInv /\ LogInv(leaderLog)
AckPart == AckInv(leaderLog, acked)
ClaimPart == ClaimInv(leaderLog, acked, votes, claims)
CommitPart == CommitInv(leaderLog, acked)
SendPart == SendInv(leaderLog, acked)

Symmetry == Permutations(Server)
=============================================================================
