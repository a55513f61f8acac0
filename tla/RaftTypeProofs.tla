--------------------------- MODULE RaftTypeProofs ---------------------------
(***************************************************************************)
(* The variables of Raft keep their types, for any set of peers, any       *)
(* commands and any bounds, through crashes and restarts.                  *)
(***************************************************************************)
EXTENDS Raft, TLAPS, FiniteSetTheorems, WellFoundedInduction

-----------------------------------------------------------------------------
(* Types.  A leader's nextIndex is positive, so that prevIndex is a        *)
(* natural number.                                                         *)
LeaderNextPositive ==
    \A s, t \in Server : state[s] = "Leader" => nextIndex[s][t] >= 1

TypeInv == TypeOK /\ LeaderNextPositive

USE DEF serverVars, logVars, leaderVars, applyVars, diskVars

(* The elements of bags, by how the bag was made.                          *)
LEMMA SetToBagElements ==
    ASSUME NEW S
    PROVE  BagToSet(SetToBag(S)) = S
  BY DEF BagToSet, SetToBag

(* Adding bags joins their elements.                                       *)
LEMMA SumElements ==
    ASSUME NEW B, NEW C
    PROVE  BagToSet(B (+) C) = BagToSet(B) \cup BagToSet(C)
  BY DEF BagToSet, (+)

(* Removing a bag adds no element.                                         *)
LEMMA DifferenceElements ==
    ASSUME NEW B, NEW C
    PROVE  BagToSet(B (-) C) \subseteq BagToSet(B)
  BY DEF BagToSet, (-)

(* Updating one index a leader keeps for one peer.                         *)
LEMMA IndexUpdate ==
    ASSUME NEW m \in [Server -> [Server -> Nat]], NEW s \in Server, NEW f \in Server,
           NEW n \in Nat
    PROVE  /\ [m EXCEPT ![s][f] = n] \in [Server -> [Server -> Nat]]
           /\ \A r, t \in Server :
                  [m EXCEPT ![s][f] = n][r][t] = IF r = s /\ t = f THEN n ELSE m[r][t]
<1>1. [m[s] EXCEPT ![f] = n] \in [Server -> Nat]
  OBVIOUS
<1>2. \A t \in Server : [m[s] EXCEPT ![f] = n][t] = IF t = f THEN n ELSE m[s][t]
  OBVIOUS
<1> QED
  BY <1>1, <1>2

(* The term at an index of a log is a number.                              *)
LEMMA TermAtType ==
    ASSUME NEW lg \in Seq(Entry), NEW i \in Int
    PROVE  TermAt(lg, i) \in Nat
<1>1. CASE i \in 1..Len(lg)
  <2>1. lg[i] \in Entry
    BY <1>1
  <2> QED
    BY <1>1, <2>1 DEF TermAt, Entry
<1>2. CASE i \notin 1..Len(lg)
  BY <1>2 DEF TermAt
<1> QED
  BY <1>1, <1>2

(* A nonempty set of numbers has a least one.                              *)
LEMMA LeastNumber ==
    ASSUME NEW T \in SUBSET Nat, T # {}
    PROVE  \E x \in T : \A y \in T : x <= y
<1> DEFINE R == OpToRel(<, Nat)
<1>1. IsWellFoundedOn(R, Nat)
  BY NatLessThanWellFounded
<1>2. \A x, y \in Nat : x < y => <<x, y>> \in R
  BY DEF OpToRel
<1> HIDE DEF R
<1>3. PICK x \in T : \A y \in T : <<y, x>> \notin R
  <2>1. T \subseteq Nat /\ T # {}
    OBVIOUS
  <2> QED
    BY <1>1, <2>1, WFMin
<1>4. \A y \in T : ~ (y < x)
  BY <1>2, <1>3
<1>5. \A y \in T : x <= y
  BY <1>4
<1> QED
  BY <1>5

(* Merging a request's entries after an index of the log yields a log.     *)
LEMMA MergeType ==
    ASSUME NEW lg \in Seq(Entry), NEW es \in Seq(Entry), NEW prev \in Nat,
           prev <= Len(lg)
    PROVE  Merge(lg, prev, es) \in Seq(Entry)
<1> DEFINE differs == {i \in 1..Len(es) :
                          \/ prev + i > Len(lg)
                          \/ lg[prev + i].term # es[i].term}
           first == CHOOSE i \in differs : \A j \in differs : i <= j
<1>1. /\ Merge(lg, prev, es) =
            IF differs = {} THEN lg
            ELSE SubSeq(lg, 1, prev + first - 1) \o SubSeq(es, first, Len(es))
      /\ differs \subseteq 1..Len(es)
      /\ \A i \in 1..Len(es) : i \notin differs => prev + i <= Len(lg)
  BY DEF Merge
<1> HIDE DEF differs
<1>2. CASE differs = {}
  BY <1>1, <1>2
<1>3. CASE differs # {}
  <2>1. differs \in SUBSET Nat
    BY <1>1
  <2>2. \E i \in differs : \A j \in differs : i <= j
    BY <1>3, <2>1, LeastNumber
  <2>3. first \in differs /\ \A j \in differs : first <= j
    BY <2>2
  <2> HIDE DEF first
  <2>4. first \in 1..Len(es)
    BY <1>1, <2>3
  <2>5. prev + first - 1 <= Len(lg)
    <3>1. CASE first = 1
      BY <3>1
    <3>2. CASE first # 1
      <4>1. first - 1 \in 1..Len(es) /\ first - 1 \notin differs
        BY <2>3, <2>4, <3>2
      <4> QED
        BY <1>1, <2>4, <4>1
    <3> QED
      BY <3>1, <3>2
  <2>6. SubSeq(lg, 1, prev + first - 1) \in Seq(Entry)
    BY <2>4, <2>5
  <2>7. SubSeq(es, first, Len(es)) \in Seq(Entry)
    BY <2>4
  <2> QED
    BY <1>1, <1>3, <2>6, <2>7
<1> QED
  BY <1>2, <1>3

(* What persist() saves and what votes compare have their types.           *)
LEMMA DurableType ==
    ASSUME TypeOK, NEW s \in Server
    PROVE  Durable(s) \in SavedType
  BY DEF TypeOK, Durable, SavedType

(* What a vote request says of the log, lastLogIndex and lastLogTerm.      *)
LEMMA LastLogType ==
    ASSUME TypeOK, NEW s \in Server
    PROVE  lastLogIndex(s) \in Nat /\ lastLogTerm(s) \in Nat
<1>1. log[s] \in Seq(Entry)
  BY DEF TypeOK
<1>2. Len(log[s]) \in Nat
  BY <1>1
<1> QED
  BY <1>1, <1>2, TermAtType DEF lastLogIndex, lastLogTerm

(* Make starts a peer with its types.                                      *)
LEMMA InitType ==
    ASSUME Init
    PROVE  TypeInv
<1>1. <<>> \in Seq(Entry)
  OBVIOUS
<1>2. BagToSet(appendCalls) = {}
  BY SetToBagElements DEF Init, EmptyBag
<1>3. disk \in [Server -> SavedType]
  BY <1>1 DEF Init, Durable, SavedType
<1> QED
  BY <1>1, <1>2, <1>3 DEF Init, TypeInv, TypeOK, LeaderNextPositive

(* The calls a leader broadcasts have their type.                          *)
LEMMA AppendCallHasType ==
    ASSUME TypeOK, NEW s \in Server, NEW t \in Server, NEW lg \in Seq(Entry),
           NEW next \in Nat, next >= 1
    PROVE  AppendCall(s, t, lg, next) \in AppendCallType
<1>1. TermAt(lg, next - 1) \in Nat
  BY TermAtType
<1>2. SubSeq(lg, next, Len(lg)) \in Seq(Entry)
  OBVIOUS
<1>3. currentTerm[s] \in Nat /\ commitIndex[s] \in Nat /\ next - 1 \in Nat
  BY DEF TypeOK
<1> QED
  BY <1>1, <1>2, <1>3 DEF AppendCall, AppendCallType

(* So has the whole of sendHeartbeats.                                     *)
LEMMA BroadcastType ==
    ASSUME TypeOK, NEW s \in Server, NEW lg \in Seq(Entry),
           NEW next \in [Server -> Nat], \A t \in Server : next[t] >= 1
    PROVE  BagToSet(appendCalls (+) sendHeartbeats(s, lg, next)) \subseteq AppendCallType
<1>1. \A t \in Server : AppendCall(s, t, lg, next[t]) \in AppendCallType
  BY AppendCallHasType
<1>2. {AppendCall(s, t, lg, next[t]) : t \in Server \ {s}} \subseteq AppendCallType
  BY <1>1
<1>3. BagToSet(sendHeartbeats(s, lg, next)) \subseteq AppendCallType
  BY <1>2, SetToBagElements DEF sendHeartbeats
<1> QED
  BY <1>3, SumElements DEF TypeOK

(* An answered or ended call leaves the others alone.                      *)
LEMMA AnswerType ==
    ASSUME TypeOK, NEW c \in BagToSet(appendCalls), NEW rterm \in Nat,
           NEW success \in BOOLEAN
    PROVE  BagToSet(AppendAnswer(c, rterm, success)) \subseteq AppendCallType
<1>1. c \in AppendCallType
  BY DEF TypeOK
<1> DEFINE reply == [c EXCEPT !.phase = "reply", !.rterm = rterm, !.success = success]
           rest == appendCalls (-) SetToBag({c})
           answer == IF c.phase = "orphan" THEN EmptyBag ELSE SetToBag({reply})
<1>2. reply \in AppendCallType
  BY <1>1 DEF AppendCallType
<1>3. BagToSet(rest) \subseteq AppendCallType
  BY DifferenceElements DEF TypeOK
<1>4. BagToSet(answer) \subseteq AppendCallType
  <2> HIDE DEF reply
  <2>1. BagToSet(EmptyBag) = {} /\ BagToSet(SetToBag({reply})) = {reply}
    BY SetToBagElements DEF EmptyBag
  <2> QED
    BY <1>2, <2>1
<1>5. AppendAnswer(c, rterm, success) = rest (+) answer
  BY DEF AppendAnswer
<1> HIDE DEF rest, answer
<1> QED
  BY <1>3, <1>4, <1>5, SumElements
-----------------------------------------------------------------------------
(* ticker: a campaign keeps the types.                                     *)
LEMMA CampaignType ==
    ASSUME TypeInv, NEW s \in Server, Campaign(s)
    PROVE  TypeInv'
<1> USE DEF TypeInv
<1>1. currentTerm[s] + 1 \in Nat
  BY DEF TypeOK
<1>2. voteCalls' \subseteq VoteCall
  <2>1. \A t \in Server : VoteRequest(s, t) \in VoteCall
    BY <1>1, LastLogType DEF VoteRequest, VoteCall
  <2> QED
    BY <2>1 DEF Campaign, TypeOK
<1>3. disk' \in [Server -> SavedType]
  BY DurableType DEF Campaign, persist, TypeOK
<1>4. ballots' \subseteq Server \X Nat \X Server
  BY <1>1 DEF Campaign, TypeOK
<1>5. LeaderNextPositive'
  BY DEF Campaign, TypeOK, LeaderNextPositive
<1> QED
  BY <1>2, <1>3, <1>4, <1>5 DEF Campaign, TypeOK

(* The RequestVote handler keeps the types.                                *)
LEMMA RequestVoteType ==
    ASSUME TypeInv, NEW c \in voteCalls, RequestVote(c)
    PROVE  TypeInv'
<1> USE DEF TypeInv
<1>1. c \in VoteCall /\ c.from \in Server /\ c.to \in Server /\ c.term \in Nat
  BY DEF TypeOK, VoteCall
<1>2. currentTerm' \in [Server -> Nat]
  BY <1>1 DEF RequestVote, TypeOK
<1>3. votedFor' \in [Server -> Server \cup {None}]
  BY <1>1 DEF RequestVote, TypeOK
<1>4. state' \in [Server -> {"Follower", "Candidate", "Leader"}]
  BY <1>1 DEF RequestVote, TypeOK
<1>5. electionTimer' \in [Server -> BOOLEAN]
  BY <1>1 DEF RequestVote, TypeOK
<1>6. ballots' \subseteq Server \X Nat \X Server
  <2>1. <<c.to, currentTerm'[c.to], c.from>> \in Server \X Nat \X Server
    BY <1>1, <1>2
  <2>2. ballots' \subseteq ballots \cup {<<c.to, currentTerm'[c.to], c.from>>}
    BY DEF RequestVote
  <2> QED
    BY <2>1, <2>2 DEF TypeOK
<1>7. voteCalls' \subseteq VoteCall
  <2>1. \A n \in Nat, g \in BOOLEAN :
            [c EXCEPT !.phase = "reply", !.rterm = n, !.granted = g] \in VoteCall
    BY <1>1 DEF VoteCall
  <2>2. \A n \in Nat, g \in BOOLEAN : VoteAnswer(c, n, g) \subseteq VoteCall
    BY <2>1 DEF VoteAnswer, TypeOK
  <2>3. currentTerm[c.to] \in Nat
    BY <1>1 DEF TypeOK
  <2> QED
    BY <2>2, <2>3 DEF RequestVote, canVote, upToDate
<1>8. LeaderNextPositive'
  BY <1>1 DEF RequestVote, TypeOK, LeaderNextPositive
<1> QED
  BY <1>2, <1>3, <1>4, <1>5, <1>6, <1>7, <1>8 DEF RequestVote, TypeOK

(* conductElection: a reply of a newer term keeps the types.               *)
LEMMA StepDownOnVoteType ==
    ASSUME TypeInv, NEW c \in voteCalls, StepDownOnVote(c)
    PROVE  TypeInv'
<1> USE DEF TypeInv
<1>1. c.from \in Server /\ c.rterm \in Nat
  BY DEF TypeOK, VoteCall
<1>2. disk' \in [Server -> SavedType]
  BY <1>1, DurableType DEF StepDownOnVote, persist, TypeOK
<1>3. LeaderNextPositive'
  BY <1>1 DEF StepDownOnVote, TypeOK, LeaderNextPositive
<1> QED
  BY <1>1, <1>2, <1>3 DEF StepDownOnVote, TypeOK

(* conductElection: a new leader starts with positive nextIndex.           *)
LEMMA CountVoteType ==
    ASSUME TypeInv, NEW c \in voteCalls, CountVote(c)
    PROVE  TypeInv'
<1> USE DEF TypeInv
<1> DEFINE s == c.from
           next == [t \in Server |-> firstNext(s)]
<1>1. s \in Server /\ c.to \in Server
  BY DEF TypeOK, VoteCall
<1>2. next \in [Server -> Nat] /\ \A t \in Server : next[t] >= 1
  <2>1. commitIndex[s] \in Nat
    BY <1>1 DEF TypeOK
  <2>2. firstNext(s) \in Nat /\ firstNext(s) >= 1
    BY <2>1 DEF firstNext
  <2> QED
    BY <2>2
<1>3. log[s] \in Seq(Entry)
  BY <1>1 DEF TypeOK
<1>4. BagToSet(appendCalls (+) sendHeartbeats(s, log[s], next)) \subseteq AppendCallType
  BY <1>1, <1>2, <1>3, BroadcastType
<1>5. BagToSet(appendCalls') \subseteq AppendCallType
  BY <1>4 DEF CountVote, TypeOK
<1>6. nextIndex' \in [Server -> [Server -> Nat]]
  BY <1>1, <1>2 DEF CountVote, TypeOK
<1>7. state' \in [Server -> {"Follower", "Candidate", "Leader"}]
  BY <1>1 DEF CountVote, TypeOK
<1>8. LeaderNextPositive'
  <2>1. CASE IsMajority(counted[s] \cup {c.to})
    <3>1. nextIndex' = [nextIndex EXCEPT ![s] = next]
          /\ state' = [state EXCEPT ![s] = "Leader"]
      BY <2>1 DEF CountVote
    <3> QED
      BY <1>1, <1>2, <3>1 DEF LeaderNextPositive, TypeOK
  <2>2. CASE ~IsMajority(counted[s] \cup {c.to})
    BY <2>2 DEF CountVote, LeaderNextPositive
  <2> QED
    BY <2>1, <2>2
<1>9. counted' \in [Server -> SUBSET Server] /\ voteCalls' \subseteq VoteCall
  BY <1>1 DEF CountVote, TypeOK
<1> QED
  BY <1>5, <1>6, <1>7, <1>8, <1>9 DEF CountVote, TypeOK

(* Start: what is appended is an entry, what is sent a call.               *)
LEMMA StartType ==
    ASSUME TypeInv, NEW s \in Server, NEW cmd \in Command, Start(s, cmd)
    PROVE  TypeInv'
<1> USE DEF TypeInv
<1> DEFINE newLog == Append(log[s], [term |-> currentTerm[s], cmd |-> cmd])
<1>1. newLog \in Seq(Entry)
  <2>1. log[s] \in Seq(Entry) /\ [term |-> currentTerm[s], cmd |-> cmd] \in Entry
    BY DEF TypeOK, Entry
  <2> QED
    BY <2>1
<1>2. disk' \in [Server -> SavedType]
  BY DurableType DEF Start, persist, TypeOK
<1>3. nextIndex[s] \in [Server -> Nat] /\ \A t \in Server : nextIndex[s][t] >= 1
  BY DEF Start, LeaderNextPositive, TypeOK
<1> HIDE DEF newLog
<1>4. BagToSet(appendCalls (+) sendHeartbeats(s, newLog, nextIndex[s])) \subseteq AppendCallType
  BY <1>1, <1>3, BroadcastType
<1>5. log' = [log EXCEPT ![s] = newLog]
      /\ appendCalls' = appendCalls (+) sendHeartbeats(s, newLog, nextIndex[s])
  BY DEF Start, newLog
<1>6. LeaderNextPositive'
  BY DEF Start, LeaderNextPositive
<1> QED
  BY <1>1, <1>2, <1>4, <1>5, <1>6 DEF Start, TypeOK

(* ticker: a heartbeat keeps the types.                                    *)
LEMMA HeartbeatTickType ==
    ASSUME TypeInv, NEW s \in Server, HeartbeatTick(s)
    PROVE  TypeInv'
<1> USE DEF TypeInv
<1>1. nextIndex[s] \in [Server -> Nat] /\ \A t \in Server : nextIndex[s][t] >= 1
  BY DEF HeartbeatTick, LeaderNextPositive, TypeOK
<1>2. log[s] \in Seq(Entry)
  BY DEF TypeOK
<1>3. BagToSet(appendCalls') \subseteq AppendCallType
  BY <1>1, <1>2, BroadcastType DEF HeartbeatTick
<1> QED
  BY <1>3 DEF HeartbeatTick, TypeOK, LeaderNextPositive

(* AppendEntries of an older term keeps the types.                         *)
LEMMA RefuseAppendType ==
    ASSUME TypeInv, NEW c \in BagToSet(appendCalls), RefuseAppend(c)
    PROVE  TypeInv'
<1> USE DEF TypeInv
<1>1. c.to \in Server /\ currentTerm[c.to] \in Nat
  BY DEF TypeOK, AppendCallType
<1>2. BagToSet(appendCalls') \subseteq AppendCallType
  BY <1>1, AnswerType DEF RefuseAppend
<1>3. disk' \in [Server -> SavedType]
  BY <1>1, DurableType DEF RefuseAppend, persist, TypeOK
<1> QED
  BY <1>2, <1>3 DEF RefuseAppend, TypeOK, LeaderNextPositive

(* AppendEntries: the merged log is a log, commitIndex a number.           *)
LEMMA AppendEntriesType ==
    ASSUME TypeInv, NEW c \in BagToSet(appendCalls), AppendEntries(c)
    PROVE  TypeInv'
<1> USE DEF TypeInv
<1> DEFINE f == c.to
           consistent == prevMatches(log[f], c)
           merged == IF consistent THEN Merge(log[f], c.prevIndex, c.entries) ELSE log[f]
<1>1. /\ f \in Server /\ c.term \in Nat /\ c.prevIndex \in Nat /\ c.commit \in Nat
      /\ c.entries \in Seq(Entry)
  BY DEF TypeOK, AppendCallType
<1>2. merged \in Seq(Entry)
  <2>1. log[f] \in Seq(Entry)
    BY <1>1 DEF TypeOK
  <2>2. CASE consistent
    <3>1. c.prevIndex <= Len(log[f])
      BY <2>2 DEF prevMatches
    <3> QED
      BY <1>1, <2>1, <2>2, <3>1, MergeType
  <2> QED
    BY <2>1, <2>2
<1>3. consistent \in BOOLEAN
  BY DEF prevMatches
<1>4. /\ log' = [log EXCEPT ![f] = merged]
      /\ commitIndex' = [commitIndex EXCEPT
             ![f] = IF consistent THEN learnCommit(commitIndex[f], c, Len(merged))
                    ELSE commitIndex[f]]
      /\ appendCalls' = AppendAnswer(c, c.term, consistent)
  BY DEF AppendEntries
<1> HIDE DEF merged, consistent
<1>5. currentTerm' \in [Server -> Nat] /\ votedFor' \in [Server -> Server \cup {None}]
  BY <1>1 DEF AppendEntries, TypeOK
<1>6. log' \in [Server -> Seq(Entry)]
  BY <1>1, <1>2, <1>4 DEF TypeOK
<1>7. commitIndex' \in [Server -> Nat]
  <2>1. learnCommit(commitIndex[f], c, Len(merged)) \in Nat
    BY <1>1, <1>2 DEF learnCommit, TypeOK
  <2> QED
    BY <1>1, <1>4, <2>1 DEF TypeOK
<1>8. BagToSet(appendCalls') \subseteq AppendCallType
  BY <1>1, <1>3, <1>4, AnswerType
<1>9. disk' \in [Server -> SavedType]
  <2>1. Durable(f)' \in SavedType
    BY <1>1, <1>5, <1>6 DEF Durable, SavedType
  <2> QED
    BY <2>1 DEF AppendEntries, persistAtEnd, TypeOK
<1>10. state' \in [Server -> {"Follower", "Candidate", "Leader"}]
       /\ electionTimer' \in [Server -> BOOLEAN]
  BY <1>1 DEF AppendEntries, TypeOK
<1>11. LeaderNextPositive'
  BY <1>1 DEF AppendEntries, TypeOK, LeaderNextPositive
<1> QED
  BY <1>5, <1>6, <1>7, <1>8, <1>9, <1>10, <1>11 DEF AppendEntries, TypeOK

(* The four ends of an AppendEntries call that got its reply.              *)
LEMMA ReplyType ==
    ASSUME TypeInv, NEW c \in BagToSet(appendCalls), replyArrived(c)
    PROVE  /\ c.from \in Server /\ c.to \in Server /\ c.rterm \in Nat
           /\ c.prevIndex + Len(c.entries) \in Nat
           /\ persistDue' \in [Server -> Nat]
           /\ BagToSet(appendCalls (-) SetToBag({c})) \subseteq AppendCallType
<1>1. /\ c.from \in Server /\ c.to \in Server /\ c.rterm \in Nat
      /\ c.prevIndex \in Nat /\ c.entries \in Seq(Entry)
  BY DEF TypeInv, TypeOK, AppendCallType
<1>2. c.prevIndex + Len(c.entries) \in Nat
  BY <1>1
<1>3. persistDue' \in [Server -> Nat]
  <2>1. persistDue \in [Server -> Nat]
    BY DEF TypeInv, TypeOK
  <2>2. persistDue[c.from] + 1 \in Nat
    BY <1>1, <2>1
  <2> QED
    BY <2>1, <2>2 DEF replyArrived
<1>4. BagToSet(appendCalls (-) SetToBag({c})) \subseteq AppendCallType
  BY DifferenceElements DEF TypeInv, TypeOK
<1> QED
  BY <1>1, <1>2, <1>3, <1>4

(* A reply to a past leadership keeps the types.                           *)
LEMMA StaleAppendReplyType ==
    ASSUME TypeInv, NEW c \in BagToSet(appendCalls), StaleAppendReply(c)
    PROVE  TypeInv'
<1>1. replyArrived(c)
  BY DEF StaleAppendReply
<1> QED
  BY <1>1, ReplyType DEF StaleAppendReply, TypeInv, TypeOK, LeaderNextPositive

(* A reply of a newer term keeps the types.                                *)
LEMMA StepDownOnAppendType ==
    ASSUME TypeInv, NEW c \in BagToSet(appendCalls), StepDownOnAppend(c)
    PROVE  TypeInv'
<1> USE DEF TypeInv
<1>1. replyArrived(c)
  BY DEF StepDownOnAppend
<1>2. c.from \in Server /\ c.rterm \in Nat
  BY <1>1, ReplyType
<1>3. disk' \in [Server -> SavedType]
  BY <1>2, DurableType DEF StepDownOnAppend, persist, TypeOK
<1>4. LeaderNextPositive'
  BY <1>2 DEF StepDownOnAppend, TypeOK, LeaderNextPositive
<1>5. persistDue' \in [Server -> Nat] /\ BagToSet(appendCalls') \subseteq AppendCallType
  BY <1>1, ReplyType DEF StepDownOnAppend
<1> QED
  BY <1>2, <1>3, <1>4, <1>5 DEF StepDownOnAppend, TypeOK

(* An acknowledged call moves nextIndex to a positive number.              *)
LEMMA AppendSucceededType ==
    ASSUME TypeInv, NEW c \in BagToSet(appendCalls), AppendSucceeded(c)
    PROVE  TypeInv'
<1> USE DEF TypeInv
<1> DEFINE s == c.from
           f == c.to
           unmoved == nextIndex[s][f] + Len(c.entries) = expectedNextIndex(c)
           match == IF unmoved THEN expectedNextIndex(c) - 1 ELSE matchIndex[s][f]
<1>1. replyArrived(c)
  BY DEF AppendSucceeded
<1>2. s \in Server /\ f \in Server /\ c.prevIndex \in Nat /\ Len(c.entries) \in Nat
  <2>1. c.entries \in Seq(Entry) /\ c.prevIndex \in Nat
    BY DEF TypeOK, AppendCallType
  <2>2. Len(c.entries) \in Nat
    BY <2>1
  <2> QED
    BY <1>1, <2>1, <2>2, ReplyType
<1>3. match \in Nat
  <2>1. matchIndex[s][f] \in Nat
    BY <1>2 DEF TypeOK
  <2> QED
    BY <1>2, <2>1 DEF expectedNextIndex
<1>4. /\ nextIndex' = [nextIndex EXCEPT ![s][f] = match + 1] \/ nextIndex' = nextIndex
      /\ matchIndex' = [matchIndex EXCEPT ![s][f] = match]
      /\ commitIndex' = [commitIndex EXCEPT ![s] = match] \/ commitIndex' = commitIndex
  BY DEF AppendSucceeded
<1> HIDE DEF unmoved, match, s, f
<1>5. /\ nextIndex \in [Server -> [Server -> Nat]]
      /\ matchIndex \in [Server -> [Server -> Nat]]
      /\ commitIndex \in [Server -> Nat]
      /\ match + 1 \in Nat /\ match + 1 >= 1
  BY <1>3 DEF TypeOK
<1>6. /\ nextIndex' \in [Server -> [Server -> Nat]]
      /\ matchIndex' \in [Server -> [Server -> Nat]]
      /\ commitIndex' \in [Server -> Nat]
  <2>1. [nextIndex EXCEPT ![s][f] = match + 1] \in [Server -> [Server -> Nat]]
    BY <1>2, <1>5, IndexUpdate
  <2>2. [matchIndex EXCEPT ![s][f] = match] \in [Server -> [Server -> Nat]]
    BY <1>2, <1>3, <1>5, IndexUpdate
  <2>3. [commitIndex EXCEPT ![s] = match] \in [Server -> Nat]
    BY <1>2, <1>3, <1>5
  <2> QED
    BY <1>4, <1>5, <2>1, <2>2, <2>3, Zenon
<1>7. LeaderNextPositive'
  <2>1. \A r, t \in Server : nextIndex'[r][t] = nextIndex[r][t] \/ nextIndex'[r][t] = match + 1
    <3>1. \A r, t \in Server :
              LET moved == [nextIndex EXCEPT ![s][f] = match + 1]
              IN  moved[r][t] = nextIndex[r][t] \/ moved[r][t] = match + 1
      BY <1>2, <1>5, IndexUpdate
    <3> QED
      BY <1>4, <3>1
  <2>2. state' = state
    BY DEF AppendSucceeded
  <2> QED
    BY <1>5, <2>1, <2>2 DEF LeaderNextPositive
<1>8. persistDue' \in [Server -> Nat] /\ BagToSet(appendCalls') \subseteq AppendCallType
  BY <1>1, ReplyType DEF AppendSucceeded
<1> QED
  BY <1>6, <1>7, <1>8 DEF AppendSucceeded, TypeOK

(* A failed call sets nextIndex back to 1 and sends a call of its type.    *)
LEMMA AppendFailedType ==
    ASSUME TypeInv, NEW c \in BagToSet(appendCalls), AppendFailed(c)
    PROVE  TypeInv'
<1> USE DEF TypeInv
<1> DEFINE s == c.from
           f == c.to
<1>1. replyArrived(c)
  BY DEF AppendFailed
<1>2. s \in Server /\ f \in Server
  BY <1>1, ReplyType
<1>3. log[s] \in Seq(Entry)
  BY <1>2 DEF TypeOK
<1>4. AppendCall(s, f, log[s], 1) \in AppendCallType
  BY <1>2, <1>3, AppendCallHasType
<1>5. /\ nextIndex' = [nextIndex EXCEPT ![s][f] = 1]
      /\ appendCalls' = (appendCalls (-) SetToBag({c}))
                             (+) SetToBag({AppendCall(s, f, log[s], 1)})
  BY DEF AppendFailed, backOff
<1>6. BagToSet(appendCalls') \subseteq AppendCallType
  <2>1. BagToSet(appendCalls') = BagToSet(appendCalls (-) SetToBag({c}))
                                     \cup {AppendCall(s, f, log[s], 1)}
    BY <1>5, SumElements, SetToBagElements
  <2> QED
    BY <1>1, <1>4, <2>1, ReplyType
<1>7. nextIndex' \in [Server -> [Server -> Nat]] /\ LeaderNextPositive'
  <2>1. nextIndex \in [Server -> [Server -> Nat]] /\ state' = state
    BY DEF AppendFailed, TypeOK
  <2> HIDE DEF s, f
  <2> DEFINE reset == [nextIndex EXCEPT ![s][f] = 1]
  <2>2. /\ reset \in [Server -> [Server -> Nat]]
        /\ \A r, t \in Server : reset[r][t] = IF r = s /\ t = f THEN 1 ELSE nextIndex[r][t]
    BY <1>2, <2>1, IndexUpdate
  <2>3. nextIndex' = reset
    BY <1>5
  <2> HIDE DEF reset
  <2>4. \A r, t \in Server : nextIndex'[r][t] = nextIndex[r][t] \/ nextIndex'[r][t] = 1
    BY <2>2, <2>3
  <2>5. LeaderNextPositive'
    BY <2>1, <2>4 DEF LeaderNextPositive
  <2> QED
    BY <2>2, <2>3, <2>5
<1>8. persistDue' \in [Server -> Nat]
  BY <1>1, ReplyType
<1> QED
  BY <1>6, <1>7, <1>8 DEF AppendFailed, TypeOK

(* The steps that neither send nor count.                                  *)
LEMMA QuietType ==
    ASSUME TypeInv, NEW s \in Server,
           LeaderTick(s) \/ DeferredPersist(s) \/ Apply(s)
    PROVE  TypeInv'
<1> USE DEF TypeInv
<1>1. CASE LeaderTick(s)
  BY <1>1 DEF LeaderTick, TypeOK, LeaderNextPositive
<1>2. CASE DeferredPersist(s)
  <2>1. disk' \in [Server -> SavedType]
    BY <1>2, DurableType DEF DeferredPersist, persist, TypeOK
  <2>2. persistDue' \in [Server -> Nat]
    BY <1>2 DEF DeferredPersist, TypeOK
  <2> QED
    BY <1>2, <2>1, <2>2 DEF DeferredPersist, TypeOK, LeaderNextPositive
<1>3. CASE Apply(s)
  <2>1. \A d \in delivered' : d[1] \in Nat
    <3>1. lastApplied[s] \in Nat /\ commitIndex[s] \in Nat
      BY DEF TypeOK
    <3>2. \A i \in lastApplied[s] + 1 .. commitIndex[s] : i \in Nat
      BY <3>1
    <3>3. \A d \in delivered' : d \in delivered
              \/ \E i \in lastApplied[s] + 1 .. commitIndex[s] : d = <<i, log[s][i]>>
      BY <1>3 DEF Apply
    <3>4. \A d \in delivered : d[1] \in Nat
      BY DEF TypeOK
    <3> QED
      BY <3>2, <3>3, <3>4
  <2>2. lastApplied' \in [Server -> Nat]
    BY <1>3 DEF Apply, TypeOK
  <2> QED
    BY <1>3, <2>1, <2>2 DEF Apply, TypeOK, LeaderNextPositive
<1> QED
  BY <1>1, <1>2, <1>3

(* A lost call keeps the types.                                            *)
LEMMA LostCallType ==
    ASSUME TypeInv,
           \/ \E c \in voteCalls : DropVoteCall(c)
           \/ \E c \in BagToSet(appendCalls) : LoseAppendCall(c)
    PROVE  TypeInv'
<1> USE DEF TypeInv
<1>1. ASSUME NEW c \in voteCalls, DropVoteCall(c)
      PROVE  TypeInv'
  BY <1>1 DEF DropVoteCall, TypeOK, LeaderNextPositive
<1>2. ASSUME NEW c \in BagToSet(appendCalls), LoseAppendCall(c)
      PROVE  TypeInv'
  <2>1. c.from \in Server
    BY DEF TypeOK, AppendCallType
  <2>2. disk' \in [Server -> SavedType]
    <3>1. Durable(c.from) \in SavedType
      BY <2>1, DurableType
    <3>2. disk' = disk \/ disk' = [disk EXCEPT ![c.from] = Durable(c.from)]
      BY <1>2 DEF LoseAppendCall, persist
    <3> QED
      BY <2>1, <3>1, <3>2 DEF TypeOK
  <2>3. BagToSet(appendCalls') \subseteq AppendCallType
    BY <1>2, DifferenceElements DEF LoseAppendCall, TypeOK
  <2> QED
    BY <1>2, <2>2, <2>3 DEF LoseAppendCall, TypeOK, LeaderNextPositive
<1> QED
  BY <1>1, <1>2

(* A restarted peer has the types of what its Persister held.              *)
LEMMA CrashRestartType ==
    ASSUME TypeInv, NEW s \in Server, CrashRestart(s)
    PROVE  TypeInv'
<1> USE DEF TypeInv
<1>1. disk[s] \in SavedType
  BY DEF TypeOK
<1>2. currentTerm' \in [Server -> Nat] /\ votedFor' \in [Server -> Server \cup {None}]
      /\ log' \in [Server -> Seq(Entry)]
  BY <1>1 DEF CrashRestart, readPersist, SavedType, TypeOK
<1>3. voteCalls' \subseteq VoteCall
  <2>1. \A c \in VoteCall : Orphan(c) \in VoteCall
    BY DEF Orphan, VoteCall
  <2> QED
    BY <2>1 DEF CrashRestart, TypeOK
<1>4. BagToSet(appendCalls') \subseteq AppendCallType
  <2>1. \A c \in AppendCallType : Orphan(c) \in AppendCallType
    BY DEF Orphan, AppendCallType
  <2> QED
    BY <2>1 DEF CrashRestart, TypeOK, BagToSet
<1>5. [t \in Server |-> 0] \in [Server -> Nat]
  OBVIOUS
<1>6. nextIndex' \in [Server -> [Server -> Nat]] /\ matchIndex' \in [Server -> [Server -> Nat]]
  BY <1>5 DEF CrashRestart, TypeOK
<1>7. LeaderNextPositive'
  BY DEF CrashRestart, LeaderNextPositive, TypeOK
<1>8. /\ state' = [state EXCEPT ![s] = "Follower"]
      /\ commitIndex' = [commitIndex EXCEPT ![s] = 0]
      /\ lastApplied' = [lastApplied EXCEPT ![s] = 0]
      /\ counted' = [counted EXCEPT ![s] = {}]
      /\ electionTimer' = [electionTimer EXCEPT ![s] = TRUE]
      /\ persistDue' = [persistDue EXCEPT ![s] = 0]
      /\ crashes' = crashes + 1 /\ disk' = disk /\ ballots' = ballots
      /\ delivered' = delivered
  BY Zenon DEF CrashRestart
<1>9. /\ state' \in [Server -> {"Follower", "Candidate", "Leader"}]
      /\ commitIndex' \in [Server -> Nat] /\ lastApplied' \in [Server -> Nat]
      /\ counted' \in [Server -> SUBSET Server]
      /\ electionTimer' \in [Server -> BOOLEAN]
      /\ persistDue' \in [Server -> Nat] /\ crashes' \in Nat
  BY <1>8 DEF TypeOK
<1> QED
  BY <1>2, <1>3, <1>4, <1>6, <1>7, <1>8, <1>9 DEF TypeOK

(* Every step, with and without crashes, keeps the types.                  *)
LEMMA TypeStep ==
    ASSUME TypeInv, [CrashNext]_vars
    PROVE  TypeInv'
<1>1. CASE VoteStep
  BY <1>1, RequestVoteType, StepDownOnVoteType, CountVoteType, LostCallType DEF VoteStep
<1>2. CASE AppendStep
  BY <1>2, RefuseAppendType, AppendEntriesType, StaleAppendReplyType,
     StepDownOnAppendType, AppendSucceededType, AppendFailedType, LostCallType
     DEF AppendStep
<1>3. CASE PeerStep
  BY <1>3, CampaignType, HeartbeatTickType, StartType, QuietType DEF PeerStep
<1>4. ASSUME NEW s \in Server, CrashRestart(s)
      PROVE  TypeInv'
  BY <1>4, CrashRestartType
<1>5. CASE UNCHANGED vars
  BY <1>5 DEF vars, TypeInv, TypeOK, LeaderNextPositive
<1> QED
  BY <1>1, <1>2, <1>3, <1>4, <1>5 DEF CrashNext, Next

(* The variables have their types in every behaviour of any number of      *)
(* peers, crashes included; a leader's PrevLogIndex is never negative.     *)
THEOREM TypeCorrect == CrashSpec => []TypeOK
<1>1. Init => TypeInv
  BY InitType
<1>2. TypeInv /\ [CrashNext]_vars => TypeInv'
  BY TypeStep
<1>3. TypeInv => TypeOK
  BY DEF TypeInv
<1> QED
  BY <1>1, <1>2, <1>3, PTL DEF CrashSpec

(* The types hold in every behaviour, crashes included.                    *)
LEMMA TypeInvariant == Spec => []TypeInv
<1>1. Init => TypeInv
  BY InitType
<1>2. TypeInv /\ [Next]_vars => TypeInv'
  BY TypeStep DEF CrashNext
<1> QED
  BY <1>1, <1>2, PTL DEF Spec
=============================================================================
