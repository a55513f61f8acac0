---------------------------- MODULE MCRaftThird -----------------------------
(* Raft after two changes of leader, with logs that conflict: s3, leader   *)
(* of term 1, has an entry that never left it; s2, leader of term 2,       *)
(* committed another with s1 and made s3 step down; s1 has just been       *)
(* elected in term 3.                                                      *)
EXTENDS MCRaft

CutOff == \A s \in Server : state[s] # "Candidate"  \* no further elections

e1 == [term |-> 1, cmd |-> CHOOSE c \in Command : TRUE]
e2 == [e1 EXCEPT !.term = 2]
Of(x, y, z) == [s \in Server |-> IF s = s1 THEN x ELSE IF s = s2 THEN y ELSE z]

ThirdTerm ==
    /\ currentTerm = Of(3, 3, 2)
    /\ votedFor = Of(s1, s1, None)
    /\ log = Of(<<e2>>, <<e2>>, <<e1>>)
    /\ state = Of("Leader", "Follower", "Follower")
    /\ commitIndex = Of(1, 1, 0)
    /\ lastApplied = Of(1, 1, 0)
    /\ nextIndex = Of(Of(2, 2, 2), Of(2, 1, 1), Of(1, 1, 1))
    /\ matchIndex = Of(Of(0, 0, 0), Of(1, 0, 0), Of(0, 0, 0))
    /\ counted = Of({s1, s2}, {s1, s2}, {s2, s3})
    /\ electionTimer = Of(TRUE, TRUE, TRUE)
    /\ disk = Of([currentTerm |-> 2, votedFor |-> s2, log |-> <<e2>>],
                 [currentTerm |-> 2, votedFor |-> s2, log |-> <<e2>>],
                 [currentTerm |-> 1, votedFor |-> s3, log |-> <<e1>>])
    /\ persistDue = Of(0, 0, 0)
    /\ voteCalls = {}
    /\ appendCalls = sendHeartbeats(s1, log[s1], nextIndex[s1])
    /\ crashes = 0
    /\ ballots = {<<s3, 1, s3>>, <<s2, 1, s3>>, <<s2, 2, s2>>, <<s1, 2, s2>>,
                  <<s1, 3, s1>>, <<s2, 3, s1>>}
    /\ delivered = {<<1, e2>>}

(* One more election, which s2 may win with the vote of s3.                *)
S2Last == [n \in 1..MaxTerm |-> {s2}]
S1ThenS2S3 == [n \in 1..MaxTerm |-> IF n = 4 THEN {{s2, s3}} ELSE {{s1, s2}, {s1, s3}}]
ThirdTermSpec == ThirdTerm /\ [][Next]_vars

(* No further elections; the calls of s1 are served.                       *)
LiveSpec == /\ ThirdTerm
            /\ [][Next /\ CutOff']_vars
            /\ LeaderFairness(s1)
=============================================================================
