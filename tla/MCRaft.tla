------------------------------- MODULE MCRaft -------------------------------
(* Instances of Raft for TLC: who may campaign in which term, which peers  *)
(* the network connects in which term, and what need not tell states apart.*)
EXTENDS Raft, TLC

CONSTANTS s1, s2, s3,
    Campaigners,  \* Campaigners[n]: the peers that may become candidate of term n
    Links         \* Links[n]: the sets {s, t} of peers that calls of term n connect

Everyone  == [n \in 1..MaxTerm |-> Server]
TwoOfThem == [n \in 1..MaxTerm |-> {s1, s2}]
InTurns   == [n \in 1..MaxTerm |-> IF n % 2 = 1 THEN {s1} ELSE {s2}]
S1ThenS3  == <<{s1}, {s3}>>

AllLinked == [n \in 1..MaxTerm |-> {{s, t} : s, t \in Server}]
(* s1 and s2 reach s3 but not each other.                                  *)
OnlyViaS3 == [n \in 1..MaxTerm |-> {{s1, s3}, {s2, s3}}]
(* Term 1 connects s1 and s2, and lets s3 hear of it; term 2 s3 and s1.     *)
S2ThenGone == <<{{s1, s2}, {s1, s3}}, {{s1, s3}}>>

Candidates == \A s \in Server :
    state[s] = "Candidate" => s \in Campaigners[currentTerm[s]]
Connected == \A c \in (voteCalls' \ voteCalls)
                      \cup (BagToSet(appendCalls') \ BagToSet(appendCalls)) :
    c.phase = "reply" => {c.from, c.to} \in Links[c.term]

Symmetry == Permutations(Server)
SwapS1S2 == Permutations({s1, s2})

(* Without crashes, calls that can no longer change anything: a reply to   *)
(* an election or a leadership that is over, a refused vote, a request of  *)
(* a past leadership that will be refused.                                 *)
InertVote(c) ==
    /\ c.phase = "reply"
    /\ \/ state[c.from] # "Candidate" \/ currentTerm[c.from] # c.term
       \/ c.rterm <= c.term /\ ~c.granted
InertAppend(c) ==
    ~stillLeading(c) /\ (c.phase = "reply" \/ c.term < currentTerm[c.to])

(* Without crashes nothing reads the Persister either: states that differ  *)
(* only in it or in inert calls have the same futures.  (MaxDue is set     *)
(* beyond reach where this view is used.)                                  *)
NoCrashView ==
    LET live == {c \in BagToSet(appendCalls) : ~InertAppend(c)}
    IN  <<serverVars, logVars, leaderVars, applyVars, counted, ballots,
          {c \in voteCalls : ~InertVote(c)}, [c \in live |-> appendCalls[c]]>>

(* Steps that only lose a call or disarm a timer are left out: the call    *)
(* stays in the network and the timer armed.  A call that stays counts     *)
(* towards MaxCalls, so this restricts the search; the states a lost call  *)
(* leads to otherwise are those in which it has not arrived.               *)
Productive ==
    \/ ~UNCHANGED <<currentTerm, votedFor, state, logVars, leaderVars, lastApplied,
                    counted, persistDue>>
    \/ voteCalls' \ voteCalls # {}
    \/ \E c \in DOMAIN appendCalls' : c \notin DOMAIN appendCalls
                                        \/ appendCalls'[c] > appendCalls[c]
Directed == Productive /\ Connected
DirectedSaves == (Productive \/ ~UNCHANGED disk) /\ Connected
=============================================================================
