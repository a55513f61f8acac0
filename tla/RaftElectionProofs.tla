------------------------- MODULE RaftElectionProofs -------------------------
(***************************************************************************)
(* Elections without crashes are safe for any number of peers: from the    *)
(* way votes are given, recorded and counted to at most one leader in a    *)
(* term, and to leaders whose logs nobody else touches.                    *)
(***************************************************************************)
EXTENDS RaftTypeProofs

(* Enough votes for k in term n were ever cast.                            *)
Voters(k, n) == {v \in Server : <<v, n, k>> \in ballots}
Elected(k, n) == IsMajority(Voters(k, n))

(* The inductive invariant, about the peers and about the calls.           *)
VotesForSelf == \A s \in Server : state[s] # "Follower" => votedFor[s] = s
VoteOnRecord ==
    \A v \in Server : votedFor[v] # None => <<v, currentTerm[v], votedFor[v]>> \in ballots
BallotsPast ==
    \A v \in Server, n \in Nat, k \in Server : <<v, n, k>> \in ballots =>
        n <= currentTerm[v] /\ (n = currentTerm[v] => votedFor[v] = k)
OneBallot ==
    \A v \in Server, n \in Nat, j, k \in Server :
        <<v, n, j>> \in ballots /\ <<v, n, k>> \in ballots => j = k
CountedOnRecord ==
    \A s \in Server : state[s] # "Follower" =>
        \A v \in counted[s] : <<v, currentTerm[s], s>> \in ballots
LeadersElected ==
    \A s \in Server : state[s] = "Leader" => Elected(s, currentTerm[s])
PeerInv == /\ VotesForSelf /\ VoteOnRecord /\ BallotsPast /\ OneBallot
           /\ CountedOnRecord /\ LeadersElected

GrantsOnRecord ==
    \A c \in voteCalls : c.phase = "reply" /\ c.granted /\ c.rterm <= c.term
        => <<c.to, c.term, c.from>> \in ballots
CallersElected ==
    \A c \in BagToSet(appendCalls) : c.from # c.to /\ Elected(c.from, c.term)

ElectionInv == TypeInv /\ PeerInv /\ GrantsOnRecord /\ CallersElected

USE DEF serverVars, logVars, leaderVars, applyVars, diskVars
-----------------------------------------------------------------------------
(* More votes never unelect.                                               *)
LEMMA MajorityMonotone ==
    ASSUME NEW S \in SUBSET Server, NEW T \in SUBSET Server, S \subseteq T, IsMajority(S)
    PROVE  IsMajority(T)
<1>1. IsFiniteSet(Server) /\ IsFiniteSet(T)
  BY ServersFinite, FS_Subset
<1>2. Cardinality(S) <= Cardinality(T) /\ Cardinality(S) \in Nat /\ Cardinality(T) \in Nat
      /\ Cardinality(Server) \in Nat
  BY <1>1, FS_Subset, FS_CardinalityType
<1> QED
  BY <1>2 DEF IsMajority

(* An elected peer stays elected.                                          *)
LEMMA ElectedMonotone ==
    ASSUME ballots \subseteq ballots', NEW k, NEW n, Elected(k, n)
    PROVE  Elected(k, n)'
<1>1. Voters(k, n) \subseteq Voters(k, n)'
  BY DEF Voters
<1>2. Voters(k, n) \in SUBSET Server /\ Voters(k, n)' \in SUBSET Server
  BY DEF Voters
<1>3. IsMajority(Voters(k, n)')
  BY <1>1, <1>2, MajorityMonotone DEF Elected
<1> QED
  BY <1>3 DEF Elected, IsMajority

(* Two elected in the same term are one: their voters share a peer, which  *)
(* voted once.                                                             *)
LEMMA ElectedUnique ==
    ASSUME OneBallot, NEW j \in Server, NEW k \in Server, NEW n \in Nat,
           Elected(j, n), Elected(k, n)
    PROVE  j = k
<1>1. Voters(j, n) \subseteq Server /\ Voters(k, n) \subseteq Server
  BY DEF Voters
<1>2. IsFiniteSet(Server) /\ IsFiniteSet(Voters(j, n)) /\ IsFiniteSet(Voters(k, n))
  BY <1>1, ServersFinite, FS_Subset
<1>3. /\ Cardinality(Voters(j, n)) \in Nat /\ Cardinality(Voters(k, n)) \in Nat
      /\ Cardinality(Server) \in Nat
  BY <1>2, FS_CardinalityType
<1>4. Cardinality(Voters(j, n)) + Cardinality(Voters(k, n)) > Cardinality(Server)
  BY <1>3 DEF Elected, IsMajority
<1>5. Voters(j, n) \cap Voters(k, n) # {}
  BY <1>1, <1>2, <1>4, FS_MajoritiesIntersect
<1> QED
  BY <1>5 DEF Voters, OneBallot
-----------------------------------------------------------------------------
(* How the steps preserve what is known of the votes a candidate counted   *)
(* and a leader was elected with, and then of the peers.                   *)

(* Steps that count no vote and make no leader.                            *)
LEMMA RecordFrame ==
    ASSUME CountedOnRecord, LeadersElected, ballots \subseteq ballots',
           \A r \in Server : state'[r] # "Follower" =>
               /\ state'[r] = state[r] /\ currentTerm'[r] = currentTerm[r]
               /\ counted'[r] = counted[r]
    PROVE  CountedOnRecord' /\ LeadersElected'
<1>1. CountedOnRecord'
  BY DEF CountedOnRecord
<1>2. \A r \in Server : state'[r] = "Leader" => Elected(r, currentTerm'[r])
  BY DEF LeadersElected
<1> QED
  BY <1>1, <1>2, ElectedMonotone DEF LeadersElected

(* A candidate counts its own vote, which is on record.                    *)
LEMMA RecordCampaign ==
    ASSUME TypeOK, CountedOnRecord, LeadersElected, NEW s \in Server, Campaign(s)
    PROVE  CountedOnRecord' /\ LeadersElected'
<1>1. \A u \in Server :
          /\ currentTerm'[u] = IF u = s THEN currentTerm[s] + 1 ELSE currentTerm[u]
          /\ state'[u] = IF u = s THEN "Candidate" ELSE state[u]
          /\ counted'[u] = IF u = s THEN {s} ELSE counted[u]
  BY DEF Campaign, TypeOK
<1>2. ballots' = ballots \cup {<<s, currentTerm[s] + 1, s>>}
  BY DEF Campaign
<1>3. CountedOnRecord'
  BY <1>1, <1>2 DEF CountedOnRecord
<1>4. \A r \in Server : state'[r] = "Leader" => Elected(r, currentTerm'[r])
  BY <1>1 DEF LeadersElected
<1> QED
  BY <1>2, <1>3, <1>4, ElectedMonotone DEF LeadersElected

(* A counted vote is on record, so a majority of them is an election.      *)
LEMMA RecordCountVote ==
    ASSUME TypeOK, CountedOnRecord, LeadersElected, GrantsOnRecord,
           NEW c \in voteCalls, CountVote(c)
    PROVE  CountedOnRecord' /\ LeadersElected'
<1> DEFINE s == c.from
           votes == counted[s] \cup {c.to}
<1>1. s \in Server /\ c.to \in Server /\ c.term \in Nat
  BY DEF TypeOK, VoteCall
<1>2. /\ state[s] = "Candidate" /\ currentTerm[s] = c.term
      /\ c.phase = "reply" /\ c.granted /\ c.rterm <= currentTerm[s]
      /\ currentTerm' = currentTerm /\ ballots' = ballots
  BY DEF CountVote, stillElecting
<1>3. \A u \in Server :
          /\ counted'[u] = IF u = s THEN votes ELSE counted[u]
          /\ state'[u] # state[u] => u = s /\ IsMajority(votes)
  BY <1>1 DEF CountVote, TypeOK
<1>4. \A v \in votes : v \in Server /\ <<v, currentTerm[s], s>> \in ballots
  <2>1. <<c.to, currentTerm[s], s>> \in ballots
    BY <1>2 DEF GrantsOnRecord
  <2>2. \A v \in counted[s] : v \in Server /\ <<v, currentTerm[s], s>> \in ballots
    BY <1>1, <1>2 DEF CountedOnRecord, TypeOK
  <2> QED
    BY <1>1, <2>1, <2>2
<1>5. IsMajority(votes) => Elected(s, currentTerm[s])
  <2>1. votes \in SUBSET Server /\ votes \subseteq Voters(s, currentTerm[s])
        /\ Voters(s, currentTerm[s]) \in SUBSET Server
    BY <1>4 DEF Voters
  <2> HIDE DEF votes
  <2> QED
    BY <2>1, MajorityMonotone DEF Elected
<1> HIDE DEF votes
<1>6. CountedOnRecord'
  BY <1>2, <1>3, <1>4 DEF CountedOnRecord
<1>7. \A r \in Server : state'[r] = "Leader" => Elected(r, currentTerm'[r])
  BY <1>2, <1>3, <1>5 DEF LeadersElected
<1> QED
  BY <1>2, <1>6, <1>7, ElectedMonotone DEF LeadersElected

(* Steps that change neither votes nor states.                             *)
LEMMA PeerFrame ==
    ASSUME PeerInv, UNCHANGED <<currentTerm, votedFor, state, counted, ballots>>
    PROVE  PeerInv'
  BY DEF PeerInv, VotesForSelf, VoteOnRecord, BallotsPast, OneBallot, CountedOnRecord,
         LeadersElected, Elected, Voters, IsMajority

(* A peer that learns of a newer term follows, without a vote.             *)
LEMMA PeerFollows ==
    ASSUME TypeOK, PeerInv, NEW s \in Server, NEW n \in Nat, n > currentTerm[s],
           currentTerm' = [currentTerm EXCEPT ![s] = n],
           votedFor' = [votedFor EXCEPT ![s] = None],
           state' = [state EXCEPT ![s] = "Follower"],
           UNCHANGED <<counted, ballots>>
    PROVE  PeerInv'
<1>1. \A u \in Server :
          /\ currentTerm[u] \in Nat
          /\ currentTerm'[u] = IF u = s THEN n ELSE currentTerm[u]
          /\ votedFor'[u] = IF u = s THEN None ELSE votedFor[u]
          /\ state'[u] = IF u = s THEN "Follower" ELSE state[u]
  BY DEF TypeOK
<1>2. VotesForSelf'
  BY <1>1 DEF PeerInv, VotesForSelf
<1>3. VoteOnRecord'
  BY <1>1 DEF PeerInv, VoteOnRecord
<1>4. BallotsPast'
  <2> SUFFICES ASSUME NEW v \in Server, NEW m \in Nat, NEW k \in Server,
                      <<v, m, k>> \in ballots
               PROVE  m <= currentTerm'[v] /\ (m = currentTerm'[v] => votedFor'[v] = k)
    BY DEF BallotsPast
  <2>1. m <= currentTerm[v] /\ (m = currentTerm[v] => votedFor[v] = k)
    BY DEF PeerInv, BallotsPast
  <2> QED
    BY <1>1, <2>1
<1>5. OneBallot'
  BY DEF PeerInv, OneBallot
<1>6. CountedOnRecord' /\ LeadersElected'
  BY <1>1, RecordFrame DEF PeerInv
<1> QED
  BY <1>2, <1>3, <1>4, <1>5, <1>6 DEF PeerInv

(* A candidate votes for itself in a term it has not voted in.             *)
LEMMA PeerCampaign ==
    ASSUME TypeOK, PeerInv, NEW s \in Server, Campaign(s)
    PROVE  PeerInv'
<1> DEFINE n == currentTerm[s] + 1
<1>1. \A u \in Server :
          /\ currentTerm[u] \in Nat
          /\ currentTerm'[u] = IF u = s THEN n ELSE currentTerm[u]
          /\ votedFor'[u] = IF u = s THEN s ELSE votedFor[u]
          /\ state'[u] = IF u = s THEN "Candidate" ELSE state[u]
  BY DEF Campaign, TypeOK
<1>2. ballots' = ballots \cup {<<s, n, s>>}
  BY DEF Campaign
<1>3. n \in Nat /\ n > currentTerm[s]
  BY <1>1
<1> HIDE DEF n
<1>4. \A u \in Server, m \in Nat, k \in Server : <<u, m, k>> \in ballots =>
          m <= currentTerm[u] /\ (m = currentTerm[u] => votedFor[u] = k)
  BY DEF PeerInv, BallotsPast
<1>5. \A k \in Server : <<s, n, k>> \notin ballots
  BY <1>1, <1>3, <1>4
<1>6. VotesForSelf'
  BY <1>1 DEF PeerInv, VotesForSelf
<1>7. VoteOnRecord'
  BY <1>1, <1>2 DEF PeerInv, VoteOnRecord
<1>8. BallotsPast'
  <2> SUFFICES ASSUME NEW v \in Server, NEW m \in Nat, NEW k \in Server,
                      <<v, m, k>> \in ballots'
               PROVE  m <= currentTerm'[v] /\ (m = currentTerm'[v] => votedFor'[v] = k)
    BY DEF BallotsPast
  <2>1. CASE <<v, m, k>> \in ballots
    <3>1. m <= currentTerm[v] /\ (m = currentTerm[v] => votedFor[v] = k)
      BY <1>4, <2>1
    <3> QED
      BY <1>1, <1>3, <3>1
  <2>2. CASE v = s /\ m = n /\ k = s
    BY <1>1, <1>3, <2>2
  <2> QED
    BY <1>2, <2>1, <2>2
<1>9. OneBallot'
  <2> SUFFICES ASSUME NEW v \in Server, NEW m \in Nat, NEW j \in Server, NEW k \in Server,
                      <<v, m, j>> \in ballots', <<v, m, k>> \in ballots'
               PROVE  j = k
    BY DEF OneBallot
  <2>1. CASE v = s /\ m = n
    BY <1>2, <1>5, <2>1
  <2>2. CASE ~(v = s /\ m = n)
    BY <1>2, <2>2 DEF PeerInv, OneBallot
  <2> QED
    BY <2>1, <2>2
<1>10. CountedOnRecord' /\ LeadersElected'
  BY RecordCampaign DEF PeerInv
<1> QED
  BY <1>6, <1>7, <1>8, <1>9, <1>10 DEF PeerInv

(* RequestVote adds a vote only where none is on record for the term.      *)
LEMMA PeerRequestVote ==
    ASSUME TypeOK, PeerInv, NEW c \in voteCalls, RequestVote(c)
    PROVE  PeerInv'
<1> DEFINE v == c.to
           newer == c.term > currentTerm[v]
           vote == IF newer THEN None ELSE votedFor[v]
           grant == upToDate(v, c) /\ canVote(vote, c.from)
           n == currentTerm'[v]
<1>1. v \in Server /\ c.from \in Server /\ c.term \in Nat
  BY DEF TypeOK, VoteCall
<1>2. \A u \in Server :
          /\ currentTerm[u] \in Nat
          /\ currentTerm'[u] = IF u = v /\ newer THEN c.term ELSE currentTerm[u]
          /\ state'[u] = IF u = v /\ newer THEN "Follower" ELSE state[u]
          /\ votedFor'[u] = IF u # v THEN votedFor[u] ELSE IF grant THEN c.from ELSE vote
  BY <1>1 DEF RequestVote, TypeOK
<1>3. /\ ballots' = IF grant THEN ballots \cup {<<v, n, c.from>>} ELSE ballots
      /\ counted' = counted
  BY DEF RequestVote
<1>4. (grant => vote = None \/ vote = c.from) /\ None \notin Server
  BY ServersFinite DEF canVote
<1> HIDE DEF grant
<1>5. \A u \in Server, m \in Nat, k \in Server : <<u, m, k>> \in ballots =>
          m <= currentTerm[u] /\ (m = currentTerm[u] => votedFor[u] = k)
  BY DEF PeerInv, BallotsPast
<1>6. n \in Nat /\ n >= currentTerm[v] /\ (newer => n > currentTerm[v])
                /\ (~newer => n = currentTerm[v])
  BY <1>1, <1>2
<1>7. \A k \in Server : <<v, n, k>> \in ballots => vote = k
  <2>1. ASSUME NEW k \in Server, <<v, n, k>> \in ballots
        PROVE  n <= currentTerm[v] /\ (n = currentTerm[v] => votedFor[v] = k)
    BY <1>1, <1>5, <1>6, <2>1
  <2>2. currentTerm[v] \in Nat
    BY <1>1, <1>2
  <2> QED
    BY <1>6, <2>1, <2>2
<1>8. votedFor'[v] = IF grant THEN c.from ELSE vote
  BY <1>1, <1>2
<1>9. VotesForSelf'
  <2>1. state'[v] # "Follower" => votedFor'[v] = v
    BY <1>1, <1>2, <1>4, <1>8 DEF PeerInv, VotesForSelf
  <2> QED
    BY <1>2, <2>1 DEF PeerInv, VotesForSelf
<1>10. VoteOnRecord'
  <2>1. votedFor'[v] # None => <<v, n, votedFor'[v]>> \in ballots'
    <3>1. CASE grant
      BY <1>3, <1>8, <3>1
    <3>2. CASE ~grant
      BY <1>1, <1>3, <1>6, <1>8, <3>2 DEF PeerInv, VoteOnRecord
    <3> QED
      BY <3>1, <3>2
  <2> QED
    BY <1>2, <1>3, <2>1 DEF PeerInv, VoteOnRecord
<1>11. \A k \in Server : <<v, n, k>> \in ballots' => votedFor'[v] = k
  BY <1>3, <1>4, <1>7, <1>8
<1> HIDE DEF n, vote, newer
<1>12. BallotsPast'
  <2> SUFFICES ASSUME NEW u \in Server, NEW m \in Nat, NEW k \in Server,
                      <<u, m, k>> \in ballots'
               PROVE  m <= currentTerm'[u] /\ (m = currentTerm'[u] => votedFor'[u] = k)
    BY DEF BallotsPast
  <2>1. CASE <<u, m, k>> \in ballots
    <3>1. m <= currentTerm[u] /\ (m = currentTerm[u] => votedFor[u] = k)
      BY <1>5, <2>1
    <3>2. CASE u = v
      BY <1>2, <1>6, <1>11, <3>1, <3>2 DEF n
    <3>3. CASE u # v
      BY <1>2, <3>1, <3>3
    <3> QED
      BY <3>2, <3>3
  <2>2. CASE u = v /\ m = n /\ k = c.from
    BY <1>6, <1>11, <2>2 DEF n
  <2> QED
    BY <1>3, <2>1, <2>2
<1>13. OneBallot'
  <2> SUFFICES ASSUME NEW u \in Server, NEW m \in Nat, NEW j \in Server, NEW k \in Server,
                      <<u, m, j>> \in ballots', <<u, m, k>> \in ballots'
               PROVE  j = k
    BY DEF OneBallot
  <2>1. CASE u = v /\ m = n
    BY <1>11, <2>1
  <2>2. CASE ~(u = v /\ m = n)
    BY <1>3, <2>2 DEF PeerInv, OneBallot
  <2> QED
    BY <2>1, <2>2
<1>14. \A r \in Server : state'[r] # "Follower" =>
           state[r] = state'[r] /\ currentTerm'[r] = currentTerm[r]
  BY <1>2
<1>15. CountedOnRecord' /\ LeadersElected'
  BY <1>3, <1>14, RecordFrame DEF PeerInv
<1> QED
  BY <1>9, <1>10, <1>12, <1>13, <1>15 DEF PeerInv

(* Counting a vote casts none.                                             *)
LEMMA PeerCountVote ==
    ASSUME TypeOK, PeerInv, GrantsOnRecord, NEW c \in voteCalls, CountVote(c)
    PROVE  PeerInv'
<1>1. c.from \in Server /\ state[c.from] = "Candidate"
  BY DEF CountVote, stillElecting, TypeOK, VoteCall
<1>2. UNCHANGED <<currentTerm, votedFor, ballots>>
  BY DEF CountVote
<1>3. \A u \in Server : state'[u] # "Follower" => state[u] # "Follower"
  BY <1>1 DEF CountVote, TypeOK
<1>4. CountedOnRecord' /\ LeadersElected'
  BY RecordCountVote DEF PeerInv
<1> QED
  BY <1>2, <1>3, <1>4 DEF PeerInv, VotesForSelf, VoteOnRecord, BallotsPast, OneBallot

(* AppendEntries makes a follower, and clears the vote of a past term.     *)
LEMMA PeerAppendEntries ==
    ASSUME TypeOK, PeerInv, NEW c \in BagToSet(appendCalls), AppendEntries(c)
    PROVE  PeerInv'
<1> DEFINE f == c.to
<1>1. f \in Server /\ c.term \in Nat
  BY DEF TypeOK, AppendCallType
<1>2. /\ currentTerm' = [currentTerm EXCEPT ![f] = c.term]
      /\ state' = [state EXCEPT ![f] = "Follower"]
      /\ counted' = counted /\ ballots' = ballots
      /\ c.term >= currentTerm[f]
      /\ votedFor' = IF c.term > currentTerm[f] THEN [votedFor EXCEPT ![f] = None]
                     ELSE votedFor
  BY DEF AppendEntries
<1>3. currentTerm \in [Server -> Nat] /\ currentTerm[f] \in Nat
  BY <1>1 DEF TypeOK
<1>4. CASE c.term > currentTerm[f]
  BY <1>1, <1>2, <1>4, PeerFollows
<1>5. CASE c.term = currentTerm[f]
  <2>1. currentTerm' = currentTerm
    BY <1>1, <1>2, <1>3, <1>5
  <2>2. votedFor' = votedFor
    BY <1>2, <1>3, <1>5
  <2>3. \A u \in Server : state'[u] # "Follower" => state'[u] = state[u]
    BY <1>1, <1>2 DEF TypeOK
  <2>4. CountedOnRecord' /\ LeadersElected'
    BY <1>2, <2>1, <2>3, RecordFrame DEF PeerInv
  <2> QED
    BY <1>2, <2>1, <2>2, <2>3, <2>4 DEF PeerInv, VotesForSelf, VoteOnRecord, BallotsPast,
       OneBallot
<1> QED
  BY <1>1, <1>2, <1>3, <1>4, <1>5

(* No step of the peers breaks what is known of them.                      *)
LEMMA PeerInvStep ==
    ASSUME TypeOK, PeerInv, GrantsOnRecord, Next
    PROVE  PeerInv'
<1>1. ASSUME NEW c \in voteCalls, StepDownOnVote(c)
      PROVE  PeerInv'
  <2>1. c.from \in Server /\ c.rterm \in Nat
    BY DEF TypeOK, VoteCall
  <2> QED
    BY <1>1, <2>1, PeerFollows DEF StepDownOnVote
<1>2. ASSUME NEW c \in BagToSet(appendCalls), StepDownOnAppend(c)
      PROVE  PeerInv'
  <2>1. c.from \in Server /\ c.rterm \in Nat
    BY DEF TypeOK, AppendCallType
  <2> QED
    BY <1>2, <2>1, PeerFollows DEF StepDownOnAppend
<1>3. CASE VoteStep
  <2> PICK c \in voteCalls :
          RequestVote(c) \/ StepDownOnVote(c) \/ CountVote(c) \/ DropVoteCall(c)
    BY <1>3 DEF VoteStep
  <2>1. CASE DropVoteCall(c)
    BY <2>1, PeerFrame DEF DropVoteCall
  <2> QED
    BY <1>1, <2>1, PeerRequestVote, PeerCountVote
<1>4. CASE AppendStep
  <2> PICK c \in BagToSet(appendCalls) :
          \/ RefuseAppend(c) \/ AppendEntries(c)
          \/ StaleAppendReply(c) \/ StepDownOnAppend(c)
          \/ AppendSucceeded(c) \/ AppendFailed(c) \/ LoseAppendCall(c)
    BY <1>4 DEF AppendStep
  <2>1. CASE RefuseAppend(c)
    BY <2>1, PeerFrame DEF RefuseAppend
  <2>2. CASE StaleAppendReply(c)
    BY <2>2, PeerFrame DEF StaleAppendReply
  <2>3. CASE AppendSucceeded(c)
    BY <2>3, PeerFrame DEF AppendSucceeded
  <2>4. CASE AppendFailed(c)
    BY <2>4, PeerFrame DEF AppendFailed
  <2>5. CASE LoseAppendCall(c)
    BY <2>5, PeerFrame DEF LoseAppendCall
  <2> QED
    BY <1>2, <2>1, <2>2, <2>3, <2>4, <2>5, PeerAppendEntries
<1>5. CASE PeerStep
  <2> PICK s \in Server :
          \/ Campaign(s) \/ LeaderTick(s) \/ HeartbeatTick(s)
          \/ DeferredPersist(s) \/ Apply(s)
          \/ \E cmd \in Command : Start(s, cmd)
    BY <1>5 DEF PeerStep
  <2>1. CASE LeaderTick(s)
    BY <2>1, PeerFrame DEF LeaderTick
  <2>2. CASE HeartbeatTick(s)
    BY <2>2, PeerFrame DEF HeartbeatTick
  <2>3. CASE DeferredPersist(s) \/ Apply(s)
    BY <2>3, PeerFrame DEF DeferredPersist, Apply
  <2>4. CASE \E cmd \in Command : Start(s, cmd)
    BY <2>4, PeerFrame DEF Start
  <2> QED
    BY <2>1, <2>2, <2>3, <2>4, PeerCampaign
<1> QED
  BY <1>3, <1>4, <1>5 DEF Next
-----------------------------------------------------------------------------
(* How the steps preserve what is known of the calls.                      *)

(* An answered call keeps its parties and its term.                        *)
LEMMA AppendAnswerFields ==
    ASSUME NEW c \in AppendCallType, NEW n \in Nat, NEW b \in BOOLEAN,
           NEW d \in BagToSet(AppendAnswer(c, n, b))
    PROVE  \/ d \in BagToSet(appendCalls)
           \/ d.from = c.from /\ d.to = c.to /\ d.term = c.term
<1> DEFINE reply == [c EXCEPT !.phase = "reply", !.rterm = n, !.success = b]
           rest == appendCalls (-) SetToBag({c})
           answer == IF c.phase = "orphan" THEN EmptyBag ELSE SetToBag({reply})
<1>1. reply.from = c.from /\ reply.to = c.to /\ reply.term = c.term
  BY DEF AppendCallType
<1>2. AppendAnswer(c, n, b) = rest (+) answer
  BY DEF AppendAnswer
<1>3. BagToSet(answer) \subseteq {reply}
  <2> HIDE DEF reply
  <2>1. BagToSet(EmptyBag) = {} /\ BagToSet(SetToBag({reply})) = {reply}
    BY SetToBagElements DEF EmptyBag
  <2> QED
    BY <2>1
<1>4. BagToSet(rest) \subseteq BagToSet(appendCalls)
  BY DifferenceElements
<1> HIDE DEF reply, rest, answer
<1> QED
  BY <1>1, <1>2, <1>3, <1>4, SumElements

(* Steps that answer no vote call.                                         *)
LEMMA GrantsFrame ==
    ASSUME GrantsOnRecord, ballots \subseteq ballots', voteCalls' \subseteq voteCalls
    PROVE  GrantsOnRecord'
  BY DEF GrantsOnRecord

(* A new request grants nothing.                                           *)
LEMMA GrantsCampaign ==
    ASSUME GrantsOnRecord, NEW s \in Server, Campaign(s)
    PROVE  GrantsOnRecord'
<1>1. \A t \in Server : VoteRequest(s, t).phase = "request"
  BY DEF VoteRequest
<1>2. ballots \subseteq ballots'
  BY DEF Campaign
<1>3. \A d \in voteCalls' : d \in voteCalls \/ d.phase = "request"
  BY <1>1 DEF Campaign
<1> QED
  BY <1>2, <1>3 DEF GrantsOnRecord

(* RequestVote answers that it granted only what it put on record.         *)
LEMMA GrantsRequestVote ==
    ASSUME TypeOK, GrantsOnRecord, NEW c \in voteCalls, RequestVote(c)
    PROVE  GrantsOnRecord'
<1> DEFINE v == c.to
           newer == c.term > currentTerm[v]
           grant == upToDate(v, c) /\ canVote(IF newer THEN None ELSE votedFor[v], c.from)
<1>1. c \in VoteCall /\ v \in Server /\ c.term \in Nat /\ currentTerm[v] \in Nat
  BY DEF TypeOK, VoteCall
<1>2. currentTerm'[v] = IF newer THEN c.term ELSE currentTerm[v]
  BY <1>1 DEF RequestVote, TypeOK
<1>3. /\ ballots' = IF grant THEN ballots \cup {<<v, currentTerm'[v], c.from>>} ELSE ballots
      /\ voteCalls' = VoteAnswer(c, currentTerm[v], grant)
  BY DEF RequestVote
<1>4. PICK g \in BOOLEAN : g = grant
  BY DEF upToDate, canVote
<1> DEFINE reply == [c EXCEPT !.phase = "reply", !.rterm = currentTerm[v], !.granted = g]
<1>5. /\ reply.from = c.from /\ reply.to = v /\ reply.term = c.term
      /\ reply.rterm = currentTerm[v] /\ reply.granted = g
  BY <1>1 DEF VoteCall
<1>6. ballots' = IF g THEN ballots \cup {<<v, currentTerm'[v], c.from>>} ELSE ballots
  BY <1>3, <1>4
<1>7. \A d \in voteCalls' : d \in voteCalls \/ d = reply
  BY <1>3, <1>4 DEF VoteAnswer
<1> HIDE DEF reply
<1>8. reply.granted /\ reply.rterm <= reply.term
          => <<reply.to, reply.term, reply.from>> \in ballots'
  <2> SUFFICES ASSUME g, currentTerm[v] <= c.term
               PROVE  <<v, c.term, c.from>> \in ballots'
    BY <1>5
  <2>1. currentTerm'[v] = c.term
    BY <1>1, <1>2
  <2> QED
    BY <1>6, <2>1
<1> QED
  BY <1>6, <1>7, <1>8 DEF GrantsOnRecord

(* No step makes a granted reply without its vote.                         *)
LEMMA GrantsStep ==
    ASSUME TypeOK, GrantsOnRecord, Next
    PROVE  GrantsOnRecord'
<1>1. CASE VoteStep
  <2> PICK c \in voteCalls :
          RequestVote(c) \/ StepDownOnVote(c) \/ CountVote(c) \/ DropVoteCall(c)
    BY <1>1 DEF VoteStep
  <2>1. CASE StepDownOnVote(c)
    BY <2>1, GrantsFrame DEF StepDownOnVote
  <2>2. CASE CountVote(c)
    BY <2>2, GrantsFrame DEF CountVote
  <2>3. CASE DropVoteCall(c)
    BY <2>3, GrantsFrame DEF DropVoteCall
  <2> QED
    BY <2>1, <2>2, <2>3, GrantsRequestVote
<1>2. CASE AppendStep
  <2> PICK c \in BagToSet(appendCalls) :
          \/ RefuseAppend(c) \/ AppendEntries(c)
          \/ StaleAppendReply(c) \/ StepDownOnAppend(c)
          \/ AppendSucceeded(c) \/ AppendFailed(c) \/ LoseAppendCall(c)
    BY <1>2 DEF AppendStep
  <2>1. CASE RefuseAppend(c) \/ AppendEntries(c)
    BY <2>1, GrantsFrame DEF RefuseAppend, AppendEntries
  <2>2. CASE StaleAppendReply(c) \/ StepDownOnAppend(c)
    BY <2>2, GrantsFrame DEF StaleAppendReply, StepDownOnAppend
  <2>3. CASE AppendSucceeded(c) \/ AppendFailed(c)
    BY <2>3, GrantsFrame DEF AppendSucceeded, AppendFailed
  <2>4. CASE LoseAppendCall(c)
    BY <2>4, GrantsFrame DEF LoseAppendCall
  <2> QED
    BY <2>1, <2>2, <2>3, <2>4
<1>3. CASE PeerStep
  <2> PICK s \in Server :
          \/ Campaign(s) \/ LeaderTick(s) \/ HeartbeatTick(s)
          \/ DeferredPersist(s) \/ Apply(s)
          \/ \E cmd \in Command : Start(s, cmd)
    BY <1>3 DEF PeerStep
  <2>1. CASE LeaderTick(s) \/ HeartbeatTick(s)
    BY <2>1, GrantsFrame DEF LeaderTick, HeartbeatTick
  <2>2. CASE DeferredPersist(s) \/ Apply(s)
    BY <2>2, GrantsFrame DEF DeferredPersist, Apply
  <2>3. CASE \E cmd \in Command : Start(s, cmd)
    BY <2>3, GrantsFrame DEF Start
  <2> QED
    BY <2>1, <2>2, <2>3, GrantsCampaign
<1> QED
  BY <1>1, <1>2, <1>3 DEF Next

(* New calls are from elected peers to others.                             *)
LEMMA CallersFrame ==
    ASSUME CallersElected, ballots \subseteq ballots',
           \A d \in BagToSet(appendCalls') :
               \/ d \in BagToSet(appendCalls)
               \/ d.from # d.to /\ Elected(d.from, d.term)'
    PROVE  CallersElected'
<1>1. \A d \in BagToSet(appendCalls) : d.from # d.to /\ Elected(d.from, d.term)'
  <2> TAKE d \in BagToSet(appendCalls)
  <2>1. d.from # d.to /\ Elected(d.from, d.term)
    BY DEF CallersElected
  <2> QED
    BY <2>1, ElectedMonotone
<1> QED
  BY <1>1 DEF CallersElected, BagToSet

(* A call that ends leaves the others.                                     *)
LEMMA CallersEnd ==
    ASSUME CallersElected, ballots' = ballots, NEW c,
           appendCalls' = appendCalls (-) SetToBag({c})
    PROVE  CallersElected'
<1>1. BagToSet(appendCalls') \subseteq BagToSet(appendCalls)
  BY DifferenceElements
<1> QED
  BY <1>1, CallersFrame

(* An answered call is from the same peer.                                 *)
LEMMA CallersAnswer ==
    ASSUME TypeOK, CallersElected, ballots' = ballots,
           NEW c \in BagToSet(appendCalls), NEW n \in Nat, NEW b \in BOOLEAN,
           appendCalls' = AppendAnswer(c, n, b)
    PROVE  CallersElected'
<1>1. c \in AppendCallType
  BY DEF TypeOK
<1>2. c.from # c.to /\ Elected(c.from, c.term)'
  BY ElectedMonotone DEF CallersElected
<1>3. \A d \in BagToSet(appendCalls') :
          \/ d \in BagToSet(appendCalls)
          \/ d.from = c.from /\ d.to = c.to /\ d.term = c.term
  BY <1>1, AppendAnswerFields
<1> QED
  BY <1>2, <1>3, CallersFrame

(* sendHeartbeats is called by a leader, which was elected.                *)
LEMMA CallersBroadcast ==
    ASSUME CallersElected, ballots \subseteq ballots', NEW s, NEW lg, NEW next,
           Elected(s, currentTerm[s])',  currentTerm' = currentTerm,
           appendCalls' = appendCalls (+) sendHeartbeats(s, lg, next)
    PROVE  CallersElected'
<1>1. \A t : /\ AppendCall(s, t, lg, next[t]).from = s
             /\ AppendCall(s, t, lg, next[t]).to = t
             /\ AppendCall(s, t, lg, next[t]).term = currentTerm[s]
  BY DEF AppendCall
<1>2. BagToSet(appendCalls') = BagToSet(appendCalls) \cup
                                   {AppendCall(s, t, lg, next[t]) : t \in Server \ {s}}
  <2> DEFINE new == {AppendCall(s, t, lg, next[t]) : t \in Server \ {s}}
  <2>1. appendCalls' = appendCalls (+) SetToBag(new)
    BY DEF sendHeartbeats
  <2> HIDE DEF new
  <2>2. BagToSet(appendCalls (+) SetToBag(new)) = BagToSet(appendCalls) \cup BagToSet(SetToBag(new))
    BY SumElements
  <2>3. BagToSet(SetToBag(new)) = new
    BY SetToBagElements
  <2> QED
    BY <2>1, <2>2, <2>3 DEF new
<1>3. \A d \in BagToSet(appendCalls') :
          \/ d \in BagToSet(appendCalls)
          \/ d.from = s /\ d.to # s /\ d.term = currentTerm[s]
  BY <1>1, <1>2
<1> QED
  BY <1>3, CallersFrame

(* No step makes an append call of a peer not elected.                     *)
LEMMA CallersStep ==
    ASSUME TypeOK, PeerInv, PeerInv', CallersElected, Next
    PROVE  CallersElected'
<1>1. ASSUME NEW s \in Server, state[s] = "Leader", UNCHANGED <<currentTerm, ballots>>
      PROVE  Elected(s, currentTerm[s])'
  <2>1. Elected(s, currentTerm[s])
    BY <1>1 DEF PeerInv, LeadersElected
  <2>2. Elected(s, currentTerm[s])'
    BY <1>1, <2>1, ElectedMonotone
  <2> QED
    BY <2>2
<1>2. CASE VoteStep
  <2> PICK c \in voteCalls :
          RequestVote(c) \/ StepDownOnVote(c) \/ CountVote(c) \/ DropVoteCall(c)
    BY <1>2 DEF VoteStep
  <2>1. CASE CountVote(c)
    <3> DEFINE s == c.from
               next == [t \in Server |-> firstNext(s)]
    <3>1. s \in Server /\ state \in [Server -> {"Follower", "Candidate", "Leader"}]
      BY DEF TypeOK, VoteCall
    <3>2. currentTerm' = currentTerm /\ ballots' = ballots
      BY <2>1 DEF CountVote
    <3>3. CASE /\ state' = [state EXCEPT ![s] = "Leader"]
               /\ appendCalls' = appendCalls (+) sendHeartbeats(s, log[s], next)
      <4>1. Elected(s, currentTerm[s])'
        BY <3>1, <3>3 DEF PeerInv, LeadersElected
      <4> HIDE DEF next
      <4> QED
        BY <3>2, <3>3, <4>1, CallersBroadcast
    <3>4. CASE appendCalls' = appendCalls
      BY <3>2, <3>4, CallersFrame
    <3> QED
      BY <2>1, <3>3, <3>4 DEF CountVote
  <2>2. CASE RequestVote(c)
    BY <2>2, CallersFrame DEF RequestVote
  <2>3. CASE StepDownOnVote(c) \/ DropVoteCall(c)
    BY <2>3, CallersFrame DEF StepDownOnVote, DropVoteCall
  <2> QED
    BY <2>1, <2>2, <2>3
<1>3. CASE AppendStep
  <2> PICK c \in BagToSet(appendCalls) :
          \/ RefuseAppend(c) \/ AppendEntries(c)
          \/ StaleAppendReply(c) \/ StepDownOnAppend(c)
          \/ AppendSucceeded(c) \/ AppendFailed(c) \/ LoseAppendCall(c)
    BY <1>3 DEF AppendStep
  <2>1. /\ c.from \in Server /\ c.to \in Server /\ c.term \in Nat
        /\ currentTerm[c.to] \in Nat /\ c.from # c.to
    BY DEF TypeOK, AppendCallType, CallersElected
  <2>2. CASE RefuseAppend(c)
    BY <2>1, <2>2, CallersAnswer DEF RefuseAppend
  <2>3. CASE AppendEntries(c)
    <3> DEFINE consistent == prevMatches(log[c.to], c)
    <3>1. appendCalls' = AppendAnswer(c, c.term, consistent) /\ ballots' = ballots
      BY <2>3 DEF AppendEntries
    <3>2. consistent \in BOOLEAN
      BY DEF prevMatches
    <3> HIDE DEF consistent
    <3> QED
      BY <2>1, <3>1, <3>2, CallersAnswer
  <2>4. CASE StaleAppendReply(c) \/ StepDownOnAppend(c)
    BY <2>4, CallersEnd DEF StaleAppendReply, StepDownOnAppend
  <2>5. CASE AppendSucceeded(c) \/ LoseAppendCall(c)
    BY <2>5, CallersEnd DEF AppendSucceeded, LoseAppendCall
  <2>6. CASE AppendFailed(c)
    <3> DEFINE s == c.from
    <3> PICK call : call = AppendCall(s, c.to, log[s], backOff(nextIndex[s][c.to]))
      OBVIOUS
    <3>1. /\ appendCalls' = (appendCalls (-) SetToBag({c})) (+) SetToBag({call})
          /\ state[s] = "Leader" /\ UNCHANGED <<currentTerm, ballots>>
      BY <2>6 DEF AppendFailed, stillLeading
    <3>2. call.from = s /\ call.to = c.to /\ call.term = currentTerm[s]
      BY DEF AppendCall
    <3>3. Elected(s, currentTerm[s])'
      BY <1>1, <2>1, <3>1
    <3> DEFINE rest == appendCalls (-) SetToBag({c})
    <3>4. BagToSet(rest) \subseteq BagToSet(appendCalls)
      BY DifferenceElements
    <3>5. appendCalls' = rest (+) SetToBag({call})
      BY <3>1
    <3> HIDE DEF rest
    <3>6. BagToSet(appendCalls') \subseteq BagToSet(appendCalls) \cup {call}
      <4>1. BagToSet(rest (+) SetToBag({call})) = BagToSet(rest) \cup BagToSet(SetToBag({call}))
        BY SumElements
      <4>2. BagToSet(SetToBag({call})) = {call}
        BY SetToBagElements
      <4> QED
        BY <3>4, <3>5, <4>1, <4>2
    <3>7. Elected(s, call.term)'
      BY <3>1, <3>2, <3>3
    <3> QED
      BY <2>1, <3>1, <3>2, <3>6, <3>7, CallersFrame
  <2> QED
    BY <2>2, <2>3, <2>4, <2>5, <2>6
<1>4. CASE PeerStep
  <2> PICK s \in Server :
          \/ Campaign(s) \/ LeaderTick(s) \/ HeartbeatTick(s)
          \/ DeferredPersist(s) \/ Apply(s)
          \/ \E cmd \in Command : Start(s, cmd)
    BY <1>4 DEF PeerStep
  <2>1. CASE Campaign(s)
    BY <2>1, CallersFrame DEF Campaign
  <2>2. CASE LeaderTick(s) \/ DeferredPersist(s) \/ Apply(s)
    BY <2>2, CallersFrame DEF LeaderTick, DeferredPersist, Apply
  <2>3. CASE HeartbeatTick(s)
    <3>1. /\ appendCalls' = appendCalls (+) sendHeartbeats(s, log[s], nextIndex[s])
          /\ state[s] = "Leader" /\ UNCHANGED <<currentTerm, ballots>>
      BY <2>3 DEF HeartbeatTick
    <3> QED
      BY <1>1, <3>1, CallersBroadcast
  <2>4. CASE \E cmd \in Command : Start(s, cmd)
    <3> PICK cmd \in Command : Start(s, cmd)
      BY <2>4
    <3>1. /\ \E lg : appendCalls' = appendCalls (+) sendHeartbeats(s, lg, nextIndex[s])
          /\ state[s] = "Leader" /\ UNCHANGED <<currentTerm, ballots>>
      BY DEF Start
    <3> QED
      BY <1>1, <3>1, CallersBroadcast
  <2> QED
    BY <2>1, <2>2, <2>3, <2>4
<1> QED
  BY <1>2, <1>3, <1>4 DEF Next
-----------------------------------------------------------------------------
(* The inductive invariant holds when Make returns.                        *)
LEMMA ElectionInit ==
    ASSUME Init
    PROVE  ElectionInv
<1>1. BagToSet(appendCalls) = {}
  BY SetToBagElements DEF Init, EmptyBag
<1>2. PeerInv
  BY DEF Init, PeerInv, VotesForSelf, VoteOnRecord, BallotsPast, OneBallot,
         CountedOnRecord, LeadersElected
<1> QED
  BY <1>1, <1>2, InitType DEF Init, ElectionInv, GrantsOnRecord, CallersElected

(* Every step without a crash keeps the inductive invariant.               *)
LEMMA ElectionStep ==
    ASSUME ElectionInv, [Next]_vars
    PROVE  ElectionInv'
<1>1. TypeInv'
  BY TypeStep DEF ElectionInv, CrashNext
<1>2. CASE Next
  <2>1. TypeOK /\ PeerInv /\ GrantsOnRecord /\ CallersElected
    BY DEF ElectionInv, TypeInv
  <2>2. PeerInv' /\ GrantsOnRecord'
    BY <1>2, <2>1, PeerInvStep, GrantsStep
  <2>3. CallersElected'
    BY <1>2, <2>1, <2>2, CallersStep
  <2> QED
    BY <1>1, <2>2, <2>3 DEF ElectionInv
<1>3. CASE UNCHANGED vars
  <2>1. UNCHANGED <<currentTerm, votedFor, state, counted, ballots, voteCalls, appendCalls>>
    BY <1>3 DEF vars
  <2> QED
    BY <1>1, <2>1, PeerFrame, GrantsFrame, CallersFrame DEF ElectionInv
<1> QED
  BY <1>2, <1>3

(* So it holds in every behaviour without crashes.                         *)
LEMMA ElectionInvariant == Spec => []ElectionInv
<1>1. Init => ElectionInv
  BY ElectionInit
<1>2. ElectionInv /\ [Next]_vars => ElectionInv'
  BY ElectionStep
<1> QED
  BY <1>1, <1>2, PTL DEF Spec

(* In every behaviour without crashes, of any number of peers, RequestVote *)
(* gives a peer's vote in a term to one candidate only.                    *)
THEOREM VotesUnique == Spec => []OneVotePerTerm
<1>1. ElectionInv => OneVotePerTerm
  <2> SUFFICES ASSUME ElectionInv, NEW b1 \in ballots, NEW b2 \in ballots,
                      b1[1] = b2[1], b1[2] = b2[2]
               PROVE  b1[3] = b2[3]
    BY DEF OneVotePerTerm
  <2>1. ballots \subseteq Server \X Nat \X Server
    BY DEF ElectionInv, TypeInv, TypeOK
  <2>2. /\ b1[1] \in Server /\ b1[2] \in Nat /\ b1[3] \in Server /\ b2[3] \in Server
        /\ b1 = <<b1[1], b1[2], b1[3]>> /\ b2 = <<b2[1], b2[2], b2[3]>>
    BY <2>1
  <2>3. <<b1[1], b1[2], b1[3]>> \in ballots /\ <<b1[1], b1[2], b2[3]>> \in ballots
    BY <2>2
  <2> QED
    BY <2>2, <2>3 DEF ElectionInv, PeerInv, OneBallot
<1> QED
  BY <1>1, ElectionInvariant, PTL

(* In every behaviour without crashes, of any number of peers, at most one *)
(* peer leads a term: conductElection counts only votes on record for its  *)
(* own term, and two majorities share a voter.                             *)
THEOREM LeadersUnique == Spec => []ElectionSafety
<1>1. ElectionInv => ElectionSafety
  <2> SUFFICES ASSUME ElectionInv, NEW s \in Server, NEW t \in Server,
                      state[s] = "Leader", state[t] = "Leader",
                      currentTerm[s] = currentTerm[t]
               PROVE  s = t
    BY DEF ElectionSafety
  <2>1. currentTerm[s] \in Nat
    BY DEF ElectionInv, TypeInv, TypeOK
  <2>2. Elected(s, currentTerm[s]) /\ Elected(t, currentTerm[s])
    BY DEF ElectionInv, PeerInv, LeadersElected
  <2> QED
    BY <2>1, <2>2, ElectedUnique DEF ElectionInv, PeerInv
<1> QED
  BY <1>1, ElectionInvariant, PTL
-----------------------------------------------------------------------------
(* Steps that leave a leader's log alone, or make it follow a newer term.  *)
LeaderKeepsLog ==
    \A s \in Server : state[s] = "Leader" /\ currentTerm'[s] = currentTerm[s]
        => /\ state'[s] = "Leader"
           /\ \A i \in 1..Len(log[s]) : i <= Len(log'[s]) /\ log'[s][i] = log[s][i]

(* Steps that change no log and unmake no leader of the same term.         *)
LEMMA LeaderFrame ==
    ASSUME TypeOK, log' = log,
           \A s \in Server : state[s] = "Leader" /\ currentTerm'[s] = currentTerm[s]
               => state'[s] = "Leader"
    PROVE  LeaderKeepsLog
<1>1. \A s \in Server : log[s] \in Seq(Entry)
  BY DEF TypeOK
<1>2. \A s \in Server : \A i \in 1..Len(log[s]) : i <= Len(log[s])
  BY <1>1
<1> QED
  BY <1>2 DEF LeaderKeepsLog

(* An AppendEntries that reaches a leader is of a newer term: one of its   *)
(* own term would be from another peer elected in it.                      *)
LEMMA LeaderAppendEntries ==
    ASSUME ElectionInv, NEW c \in BagToSet(appendCalls), AppendEntries(c)
    PROVE  LeaderKeepsLog
<1> DEFINE f == c.to
<1>1. /\ c.from \in Server /\ f \in Server /\ c.term \in Nat
      /\ currentTerm \in [Server -> Nat] /\ log \in [Server -> Seq(Entry)]
      /\ state \in [Server -> {"Follower", "Candidate", "Leader"}]
  BY DEF ElectionInv, TypeInv, TypeOK, AppendCallType
<1>2. c.from # f /\ Elected(c.from, c.term)
  BY DEF ElectionInv, CallersElected
<1>3. /\ currentTerm' = [currentTerm EXCEPT ![f] = c.term]
      /\ state' = [state EXCEPT ![f] = "Follower"]
      /\ \E merged : log' = [log EXCEPT ![f] = merged]
  BY DEF AppendEntries
<1>4. state[f] = "Leader" => currentTerm[f] # c.term
  <2> SUFFICES ASSUME state[f] = "Leader", currentTerm[f] = c.term
               PROVE  FALSE
    OBVIOUS
  <2>1. Elected(f, c.term)
    BY <1>1 DEF ElectionInv, PeerInv, LeadersElected
  <2> QED
    BY <1>1, <1>2, <2>1, ElectedUnique DEF ElectionInv, PeerInv
<1> SUFFICES ASSUME NEW s \in Server, state[s] = "Leader", currentTerm'[s] = currentTerm[s]
             PROVE  /\ state'[s] = "Leader"
                    /\ \A i \in 1..Len(log[s]) : i <= Len(log'[s]) /\ log'[s][i] = log[s][i]
  BY DEF LeaderKeepsLog
<1>5. s # f
  BY <1>1, <1>3, <1>4
<1>6. state'[s] = "Leader" /\ log'[s] = log[s] /\ log[s] \in Seq(Entry)
  BY <1>1, <1>3, <1>5
<1> QED
  BY <1>6

(* Appending an entry keeps those before it.                               *)
LEMMA AppendKeeps ==
    ASSUME NEW S, NEW q \in Seq(S), NEW e \in S, NEW i \in 1..Len(q)
    PROVE  i <= Len(Append(q, e)) /\ Append(q, e)[i] = q[i]
<1>1. Len(q) \in Nat /\ Len(Append(q, e)) = Len(q) + 1
  OBVIOUS
<1>2. Append(q, e)[i] = q[i]
  OBVIOUS
<1> QED
  BY <1>1, <1>2

(* Start only appends, and to no other log.                                *)
LEMMA LeaderStart ==
    ASSUME TypeOK, NEW s \in Server, NEW cmd \in Command, Start(s, cmd)
    PROVE  LeaderKeepsLog
<1> DEFINE entry == [term |-> currentTerm[s], cmd |-> cmd]
<1>1. log' = [log EXCEPT ![s] = Append(log[s], entry)] /\ state' = state
  BY DEF Start
<1>2. entry \in Entry
  BY DEF Entry, TypeOK
<1>3. log \in [Server -> Seq(Entry)]
  BY DEF TypeOK
<1> HIDE DEF entry
<1>4. ASSUME NEW r \in Server, NEW i \in 1..Len(log[r])
      PROVE  i <= Len(log'[r]) /\ log'[r][i] = log[r][i]
  <2> PICK old \in Seq(Entry) : old = log[r]
    BY <1>3
  <2> PICK new : new = log'[r]
    OBVIOUS
  <2>1. new = old \/ new = Append(old, entry)
    BY <1>1, <1>3
  <2>2. i \in 1..Len(old)
    BY <1>4
  <2>3. i <= Len(old) /\ i <= Len(Append(old, entry)) /\ Append(old, entry)[i] = old[i]
    BY <1>2, <2>2, AppendKeeps
  <2> QED
    BY <2>1, <2>3
<1> QED
  BY <1>1, <1>4 DEF LeaderKeepsLog

(* Every step keeps the log of a leader that stays in its term.            *)
LEMMA LeaderStep ==
    ASSUME ElectionInv, Next
    PROVE  LeaderKeepsLog
<1>1. /\ TypeOK /\ currentTerm \in [Server -> Nat]
      /\ state \in [Server -> {"Follower", "Candidate", "Leader"}]
      /\ \A s \in Server : log[s] \in Seq(Entry)
  BY DEF ElectionInv, TypeInv, TypeOK
(* A peer that changes its term, and leads before or not.                  *)
<1>2. ASSUME NEW s \in Server, NEW n \in Nat, n > currentTerm[s], log' = log,
             currentTerm' = [currentTerm EXCEPT ![s] = n],
             \A r \in Server \ {s} : state'[r] = state[r]
      PROVE  LeaderKeepsLog
  <2>1. currentTerm'[s] # currentTerm[s]
    BY <1>1, <1>2
  <2> QED
    BY <1>1, <1>2, <2>1, LeaderFrame
<1>3. CASE VoteStep
  <2> PICK c \in voteCalls :
          RequestVote(c) \/ StepDownOnVote(c) \/ CountVote(c) \/ DropVoteCall(c)
    BY <1>3 DEF VoteStep
  <2>1. /\ c.from \in Server /\ c.to \in Server /\ c.term \in Nat /\ c.rterm \in Nat
        /\ currentTerm[c.to] \in Nat
    BY <1>1 DEF TypeOK, VoteCall
  <2>2. CASE RequestVote(c)
    <3>1. CASE c.term > currentTerm[c.to]
      <4>1. /\ currentTerm' = [currentTerm EXCEPT ![c.to] = c.term]
            /\ state' = [state EXCEPT ![c.to] = "Follower"] /\ log' = log
        BY <2>2, <3>1 DEF RequestVote
      <4>2. \A r \in Server \ {c.to} : state'[r] = state[r]
        BY <1>1, <4>1
      <4> QED
        BY <1>2, <2>1, <3>1, <4>1, <4>2
    <3>2. CASE ~(c.term > currentTerm[c.to])
      <4>1. state' = state /\ log' = log
        BY <2>2, <3>2 DEF RequestVote
      <4> QED
        BY <1>1, <4>1, LeaderFrame
    <3> QED
      BY <3>1, <3>2
  <2>3. CASE StepDownOnVote(c)
    <3>1. /\ currentTerm' = [currentTerm EXCEPT ![c.from] = c.rterm]
          /\ state' = [state EXCEPT ![c.from] = "Follower"] /\ log' = log
          /\ c.rterm > currentTerm[c.from]
      BY <2>3 DEF StepDownOnVote
    <3>2. \A r \in Server \ {c.from} : state'[r] = state[r]
      BY <1>1, <3>1
    <3> QED
      BY <1>2, <2>1, <3>1, <3>2
  <2>4. CASE CountVote(c)
    <3>1. log' = log /\ \A r \in Server : state'[r] = state[r] \/ state'[r] = "Leader"
      BY <1>1, <2>4 DEF CountVote
    <3> QED
      BY <1>1, <3>1, LeaderFrame
  <2>5. CASE DropVoteCall(c)
    BY <1>1, <2>5, LeaderFrame DEF DropVoteCall
  <2> QED
    BY <2>2, <2>3, <2>4, <2>5
<1>4. CASE AppendStep
  <2> PICK c \in BagToSet(appendCalls) :
          \/ RefuseAppend(c) \/ AppendEntries(c)
          \/ StaleAppendReply(c) \/ StepDownOnAppend(c)
          \/ AppendSucceeded(c) \/ AppendFailed(c) \/ LoseAppendCall(c)
    BY <1>4 DEF AppendStep
  <2>1. CASE StepDownOnAppend(c)
    <3>1. /\ currentTerm' = [currentTerm EXCEPT ![c.from] = c.rterm]
          /\ state' = [state EXCEPT ![c.from] = "Follower"] /\ log' = log
          /\ c.rterm > currentTerm[c.from]
      BY <2>1 DEF StepDownOnAppend
    <3>2. c.from \in Server /\ c.rterm \in Nat
      BY <1>1 DEF TypeOK, AppendCallType
    <3>3. \A r \in Server \ {c.from} : state'[r] = state[r]
      BY <1>1, <3>1
    <3> QED
      BY <1>2, <3>1, <3>2, <3>3
  <2>2. CASE RefuseAppend(c) \/ StaleAppendReply(c) \/ LoseAppendCall(c)
    BY <1>1, <2>2, LeaderFrame DEF RefuseAppend, StaleAppendReply, LoseAppendCall
  <2>3. CASE AppendSucceeded(c) \/ AppendFailed(c)
    BY <1>1, <2>3, LeaderFrame DEF AppendSucceeded, AppendFailed
  <2> QED
    BY <2>1, <2>2, <2>3, LeaderAppendEntries
<1>5. CASE PeerStep
  <2> PICK s \in Server :
          \/ Campaign(s) \/ LeaderTick(s) \/ HeartbeatTick(s)
          \/ DeferredPersist(s) \/ Apply(s)
          \/ \E cmd \in Command : Start(s, cmd)
    BY <1>5 DEF PeerStep
  <2>1. CASE Campaign(s)
    <3>1. log' = log /\ \A r \in Server : state[r] = "Leader" => state'[r] = state[r]
      BY <1>1, <2>1 DEF Campaign
    <3> QED
      BY <1>1, <3>1, LeaderFrame
  <2>2. CASE LeaderTick(s) \/ HeartbeatTick(s)
    BY <1>1, <2>2, LeaderFrame DEF LeaderTick, HeartbeatTick
  <2>3. CASE DeferredPersist(s) \/ Apply(s)
    BY <1>1, <2>3, LeaderFrame DEF DeferredPersist, Apply
  <2>4. ASSUME NEW cmd \in Command, Start(s, cmd)
        PROVE  LeaderKeepsLog
    BY <1>1, <2>4, LeaderStart
  <2> QED
    BY <2>1, <2>2, <2>3, <2>4
<1> QED
  BY <1>3, <1>4, <1>5 DEF Next

(* In every behaviour without crashes, of any number of peers, a leader's  *)
(* log only grows while it leads: AppendEntries never merges into it.      *)
THEOREM LeadersAppendOnly == Spec => LeaderAppendOnly
<1>1. ElectionInv /\ [Next]_vars => [LeaderKeepsLog]_vars
  BY LeaderStep
<1> QED
  BY <1>1, ElectionInvariant, PTL DEF Spec, LeaderAppendOnly, LeaderKeepsLog
=============================================================================
