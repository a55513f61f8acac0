---------------------------- MODULE MCRaftStale -----------------------------
(* Three peers and six terms, led by s1 and s3 in turns with the votes of  *)
(* s2.  Replicas gives the peer that hears from the leader of each term.   *)
EXTENDS MCRaft

Leaders == [n \in 1..MaxTerm |-> IF n % 2 = 1 THEN {s1} ELSE {s3}]
Replicas == <<{}, {}, {s2}, {s1}, {s2}, {s2}>>

NewCalls == DOMAIN appendCalls' \ DOMAIN appendCalls

(* Once a peer has opened a term, the calls of earlier terms are lost; so  *)
(* are those to a peer that does not hear.                                 *)
Heard ==
    /\ \A c \in (voteCalls' \ voteCalls) \cup NewCalls, s \in Server :
           currentTerm[s] <= c.term
    /\ \A c \in NewCalls : c.phase = "reply" => c.to \in Replicas[c.term]

(* A candidate wins when all peers have answered it.                       *)
AllAnswer == \A s \in Server : counted'[s] # counted[s] /\ state'[s] = "Leader" =>
    \A c \in voteCalls : c.term = currentTerm[s] => c.phase = "reply"

(* Leaders send when elected and on Start; s3 also when it has committed   *)
(* in term 4, and s1 once more when elected in term 5.                     *)
Copies(calls, n) ==
    Cardinality(UNION {{c} \X (1..calls[c]) : c \in {d \in DOMAIN calls : d.term = n}})
FewHeartbeats == \A n \in 1..MaxTerm :
    Copies(appendCalls', n) > Copies(appendCalls, n) /\ UNCHANGED <<state, log, nextIndex>>
        => \/ n = 4 /\ commitIndex[s3] = 2 /\ \A c \in DOMAIN appendCalls : c.term = 4 => c.commit = 0
           \/ n = 5 /\ state[s1] = "Leader" /\ Copies(appendCalls, 5) = 2

(* How many entries the leader of a term brings the log to.                *)
Length == <<3, 1, 3, 2, 3, 3>>
FewEntries == \A s \in Server : state[s] = "Leader" => Len(log'[s]) <= Length[currentTerm[s]]
LateApply == \A s \in Server : lastApplied'[s] # lastApplied[s] => lastApplied'[s] = 3

(* How far a term's leader gets before the next term opens: s1 keeps three *)
(* entries to itself in term 1 and s3 one in term 2; in term 3 s2          *)
(* acknowledges those of s1; in term 4 s3 commits two entries with s1,     *)
(* which in term 5 applies a third.                                        *)
Handover == \A s \in Server : currentTerm'[s] # currentTerm[s] =>
    /\ currentTerm'[s] = 2 => Len(log[s1]) = 3
    /\ currentTerm'[s] = 3 => Len(log[s3]) = 1
    /\ currentTerm'[s] = 4 => matchIndex[s1][s2] = 3
    /\ currentTerm'[s] = 5 => commitIndex[s1] = 2 /\ Len(log[s3]) = 2
    /\ currentTerm'[s] = 6 => lastApplied[s1] = 3

Guided == /\ AllAnswer /\ FewEntries /\ LateApply /\ Handover
          /\ Directed /\ Heard /\ FewHeartbeats
=============================================================================
