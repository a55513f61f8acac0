-------------------------------- MODULE Raft --------------------------------
(***************************************************************************)
(* The Raft peers of lab3/lab3/raft/raft.go, talking over the lossy        *)
(* network of lab3/lab3/labrpc/labrpc.go.                                  *)
(*                                                                         *)
(* Every critical section under rf.mu is one action.  An RPC is a record   *)
(* of its arguments that moves through phases: "request" (on its way to    *)
(* the server), "reply" (the handler ran, the answer is on its way back)   *)
(* and, after the caller crashed, "orphan" (the request may still arrive,  *)
(* nobody waits for the answer).  The network loses, delays and reorders   *)
(* but never duplicates, so a vote call is a member of a set (one call for *)
(* each peer and election) and append calls, of which a leader may have    *)
(* several equal ones under way, form a bag.                               *)
(*                                                                         *)
(* log[s] leaves out the dummy entry rf.log[0], whose Index and Term are   *)
(* 0; an entry's Index field is its position.  The heartbeat timer is      *)
(* re-armed by every leader step that consumes it and firing is a no-op    *)
(* on any other peer, so it has no variable.                               *)
(***************************************************************************)
EXTENDS Integers, FiniteSets, Sequences, Bags

CONSTANTS
    Server,      \* the peers
    Command,     \* the commands clients hand to Start
    None,        \* votedFor = -1
    MaxTerm,     \* bound: no peer campaigns beyond this term
    MaxLog,      \* bound: Start appends up to this index
    MaxCalls,    \* bound: append calls of one leadership under way
    MaxDue,      \* bound: goroutines of a leader that owe a persist() as it sends
    MaxCrashes   \* bound: crashes in one behaviour

ASSUME ServersFinite == IsFiniteSet(Server) /\ None \notin Server
ASSUME BoundsNat == {MaxTerm, MaxLog, MaxCalls, MaxDue, MaxCrashes} \subseteq Nat

VARIABLES
    currentTerm, votedFor, log, state,      \* Raft.currentTerm, .votedFor, .log, .state
    commitIndex, lastApplied,               \* Raft.commitIndex, .lastApplied
    nextIndex, matchIndex,                  \* Raft.nextIndex, .matchIndex
    counted,         \* peers whose vote totalVotes includes, in the running election
    electionTimer,   \* TRUE iff electionTime is armed
    disk,            \* what each Persister holds
    persistDue,      \* handleAppendEntries goroutines that still owe their persist()
    voteCalls,       \* RequestVote RPCs under way
    appendCalls,     \* AppendEntries RPCs under way
    crashes,         \* crashes so far
    ballots,         \* history: every vote cast, as <<voter, term, candidate>>
    delivered        \* history: every <<index, entry>> sent to an applyCh

serverVars == <<currentTerm, votedFor, state, electionTimer>>
logVars    == <<log, commitIndex>>
leaderVars == <<nextIndex, matchIndex>>
applyVars  == <<lastApplied, delivered>>
diskVars   == <<disk, persistDue, crashes>>
vars == <<serverVars, logVars, leaderVars, applyVars, diskVars, counted,
          voteCalls, appendCalls, ballots>>

Entry == [term : Nat, cmd : Command]

(* A set of peers that is a majority: numAgreesToCommit or totalVotes      *)
(* above len(rf.peers)/2.                                                  *)
IsMajority(S) == 2 * Cardinality(S) > Cardinality(Server)

(* rf.log[i].Term, index 0 being the dummy entry.  An index past the log   *)
(* panics in Go: LeaderIndicesInLog excludes it for nextIndex, and for     *)
(* matchIndex AppendSucceeded has no step there.                           *)
TermAt(lg, i) == IF i \in 1..Len(lg) THEN lg[i].term ELSE 0

(* Mutant: -1 for a log without entries.                                   *)
lastLogTermMinusOne(s) == IF log[s] = <<>> THEN -1 ELSE TermAt(log[s], Len(log[s]))
lastLogTerm(s) == TermAt(log[s], Len(log[s]))
lastLogIndex(s) == Len(log[s])

(* What persist() encodes.                                                 *)
Durable(s) == [currentTerm |-> currentTerm[s], votedFor |-> votedFor[s],
               log |-> log[s]]
persist(s) == disk' = [disk EXCEPT ![s] = Durable(s)]

(* The same, deferred to the end of the handler.  Mutant: it runs at once. *)
persistAtOnce(s) == persist(s)
persistAtEnd(s) == disk' = [disk EXCEPT ![s] = Durable(s)']

(* Mutant: the term is not restored.                                       *)
readPersistNoTerm(s) == [disk[s] EXCEPT !.currentTerm = 0]
readPersist(s) == disk[s]

Init ==
    /\ currentTerm = [s \in Server |-> 0]
    /\ votedFor = [s \in Server |-> None]
    /\ log = [s \in Server |-> <<>>]
    /\ state = [s \in Server |-> "Follower"]
    /\ commitIndex = [s \in Server |-> 0]
    /\ lastApplied = [s \in Server |-> 0]
    /\ nextIndex = [s \in Server |-> [t \in Server |-> 0]]
    /\ matchIndex = [s \in Server |-> [t \in Server |-> 0]]
    /\ counted = [s \in Server |-> {}]
    /\ electionTimer = [s \in Server |-> TRUE]
    /\ disk = [s \in Server |-> Durable(s)]
    /\ persistDue = [s \in Server |-> 0]
    /\ voteCalls = {}
    /\ appendCalls = EmptyBag
    /\ crashes = 0
    /\ ballots = {}
    /\ delivered = {}
-----------------------------------------------------------------------------
(* Leader election.                                                        *)

VoteRequest(s, t) ==
    [from |-> s, to |-> t, term |-> currentTerm[s] + 1,
     lastIndex |-> lastLogIndex(s), lastTerm |-> lastLogTerm(s),
     phase |-> "request", rterm |-> 0, granted |-> FALSE]

(* ticker, election timer, peer not leader: save, then open a new term and *)
(* ask every other peer for its vote.                                      *)
Campaign(s) ==
    /\ electionTimer[s]
    /\ state[s] # "Leader"
    /\ currentTerm[s] < MaxTerm
    /\ persist(s)
    /\ currentTerm' = [currentTerm EXCEPT ![s] = @ + 1]
    /\ state' = [state EXCEPT ![s] = "Candidate"]
    /\ votedFor' = [votedFor EXCEPT ![s] = s]
    /\ counted' = [counted EXCEPT ![s] = {s}]
    /\ ballots' = ballots \cup {<<s, currentTerm[s] + 1, s>>}
    /\ voteCalls' = voteCalls \cup {VoteRequest(s, t) : t \in Server \ {s}}
    /\ UNCHANGED <<electionTimer, logVars, leaderVars, applyVars, persistDue,
                   crashes, appendCalls>>

(* ticker, election timer, peer is leader: the tick is consumed and the    *)
(* timer not reset.                                                        *)
LeaderTick(s) ==
    /\ electionTimer[s]
    /\ state[s] = "Leader"
    /\ electionTimer' = [electionTimer EXCEPT ![s] = FALSE]
    /\ UNCHANGED <<currentTerm, votedFor, state, logVars, leaderVars, applyVars,
                   diskVars, counted, voteCalls, appendCalls, ballots>>

(* A call leaves the "request" phase: the answer travels back, unless the  *)
(* caller is gone.                                                         *)
VoteAnswer(c, rterm, granted) ==
    (voteCalls \ {c}) \cup
        IF c.phase = "orphan" THEN {}
        ELSE {[c EXCEPT !.phase = "reply", !.rterm = rterm, !.granted = granted]}

(* The conditions under which peer v votes for c.from.  Mutants: a peer    *)
(* votes again; it compares only the lengths of the logs.                  *)
canVoteAgain(vote, candidate) == TRUE
canVote(vote, candidate) == vote \in {None, candidate}
upToDateByLength(v, c) == lastLogIndex(v) <= c.lastIndex
upToDate(v, c) == \/ c.lastTerm > lastLogTerm(v)
                  \/ c.lastTerm = lastLogTerm(v) /\ lastLogIndex(v) <= c.lastIndex

(* Handler RequestVote at peer c.to.  The reply carries the term from      *)
(* before the update, and a request of an older term is not refused.       *)
RequestVote(c) ==
    LET v == c.to
        newer == c.term > currentTerm[v]
        vote == IF newer THEN None ELSE votedFor[v]
        grant == upToDate(v, c) /\ canVote(vote, c.from)
    IN  /\ c.phase \in {"request", "orphan"}
        /\ currentTerm' = IF newer THEN [currentTerm EXCEPT ![v] = c.term]
                          ELSE currentTerm
        /\ state' = IF newer THEN [state EXCEPT ![v] = "Follower"] ELSE state
        /\ votedFor' = [votedFor EXCEPT ![v] = IF grant THEN c.from ELSE vote]
        /\ electionTimer' = IF grant THEN [electionTimer EXCEPT ![v] = TRUE]
                            ELSE electionTimer
        /\ ballots' = IF grant THEN ballots \cup {<<v, currentTerm'[v], c.from>>}
                      ELSE ballots
        /\ voteCalls' = VoteAnswer(c, currentTerm[v], grant)
        /\ UNCHANGED <<logVars, leaderVars, applyVars, diskVars, counted, appendCalls>>

(* sendHeartbeats: one AppendEntries call for each other peer, with all of *)
(* the log from its nextIndex on.                                          *)
AppendCall(s, t, lg, next) ==
    [from |-> s, to |-> t, term |-> currentTerm[s], prevIndex |-> next - 1,
     prevTerm |-> TermAt(lg, next - 1), entries |-> SubSeq(lg, next, Len(lg)),
     commit |-> commitIndex[s], phase |-> "request", rterm |-> 0, success |-> FALSE]
sendHeartbeats(s, lg, next) ==
    SetToBag({AppendCall(s, t, lg, next[t]) : t \in Server \ {s}})

(* Mutant: a late vote counts in a later election.                         *)
electsInAnyTerm(c) == state[c.from] = "Candidate"
stillElecting(c) == state[c.from] = "Candidate" /\ currentTerm[c.from] = c.term

(* Where a new leader's nextIndex starts.  Mutant: one too far.            *)
firstNextTooFar(s) == commitIndex[s] + 2
firstNext(s) == commitIndex[s] + 1

(* conductElection, a reply to a peer that still runs that election:       *)
(* - it shows a newer term: save, then step down;                          *)
StepDownOnVote(c) ==
    LET s == c.from
    IN  /\ c.phase = "reply"
        /\ stillElecting(c)
        /\ c.rterm > currentTerm[s]
        /\ persist(s)
        /\ state' = [state EXCEPT ![s] = "Follower"]
        /\ currentTerm' = [currentTerm EXCEPT ![s] = c.rterm]
        /\ votedFor' = [votedFor EXCEPT ![s] = None]
        /\ electionTimer' = [electionTimer EXCEPT ![s] = TRUE]
        /\ voteCalls' = voteCalls \ {c}
        /\ UNCHANGED <<logVars, leaderVars, applyVars, persistDue, crashes,
                       counted, appendCalls, ballots>>

(* - it grants the vote: count it, and become leader on a majority.        *)
CountVote(c) ==
    LET s == c.from
        votes == counted[s] \cup {c.to}
        next == [t \in Server |-> firstNext(s)]
    IN  /\ c.phase = "reply"
        /\ stillElecting(c)
        /\ c.rterm <= currentTerm[s]
        /\ c.granted
        /\ counted' = [counted EXCEPT ![s] = votes]
        /\ \/ /\ IsMajority(votes)
              /\ nextIndex' = [nextIndex EXCEPT ![s] = next]
              /\ state' = [state EXCEPT ![s] = "Leader"]
              /\ appendCalls' = appendCalls (+) sendHeartbeats(s, log[s], next)
           \/ /\ ~IsMajority(votes)
              /\ UNCHANGED <<nextIndex, state, appendCalls>>
        /\ voteCalls' = voteCalls \ {c}
        /\ UNCHANGED <<currentTerm, votedFor, electionTimer, logVars, matchIndex,
                       applyVars, diskVars, ballots>>

(* Any other end of a vote call changes nothing at the caller: request or  *)
(* reply lost, vote refused, or the election of the call is over.          *)
DropVoteCall(c) ==
    /\ voteCalls' = voteCalls \ {c}
    /\ UNCHANGED <<serverVars, logVars, leaderVars, applyVars, diskVars,
                   counted, appendCalls, ballots>>
-----------------------------------------------------------------------------
(* Log replication.                                                        *)

(* The bounds on broadcasts: the append calls of this leadership under way *)
(* stay at most MaxCalls, and at most MaxDue goroutines are yet to save.   *)
roomForCalls(s) ==
    LET mine == {c \in BagToSet(appendCalls) : c.from = s /\ c.term = currentTerm[s]}
    IN  /\ BagCardinality([c \in mine |-> appendCalls[c]]) + Cardinality(Server) - 1
               <= MaxCalls
        /\ persistDue[s] <= MaxDue

(* ticker, heartbeat timer, peer is leader.                                *)
HeartbeatTick(s) ==
    LET calls == sendHeartbeats(s, log[s], nextIndex[s])
    IN  /\ state[s] = "Leader"
        /\ roomForCalls(s)
        /\ appendCalls' = appendCalls (+) calls
        /\ UNCHANGED <<serverVars, logVars, leaderVars, applyVars, diskVars,
                       counted, voteCalls, ballots>>

(* Start on a leader: save, then append the command and replicate.         *)
Start(s, cmd) ==
    LET newLog == Append(log[s], [term |-> currentTerm[s], cmd |-> cmd])
    IN  /\ state[s] = "Leader"
        /\ Len(log[s]) < MaxLog
        /\ roomForCalls(s)
        /\ persist(s)
        /\ log' = [log EXCEPT ![s] = newLog]
        /\ appendCalls' = appendCalls (+) sendHeartbeats(s, newLog, nextIndex[s])
        /\ UNCHANGED <<serverVars, commitIndex, leaderVars, applyVars, persistDue,
                       crashes, counted, voteCalls, ballots>>

(* The loop of AppendEntries over request.Entries: from the first entry    *)
(* that is missing or differs in term on, the request replaces the log.    *)
(* Mutant: what follows prev is always replaced.                           *)
MergeTruncating(lg, prev, es) == SubSeq(lg, 1, prev) \o es
Merge(lg, prev, es) ==
    LET differs == {i \in 1..Len(es) :
                        \/ prev + i > Len(lg)
                        \/ lg[prev + i].term # es[i].term}
        first == CHOOSE i \in differs : \A j \in differs : i <= j
    IN  IF differs = {} THEN lg
        ELSE SubSeq(lg, 1, prev + first - 1) \o SubSeq(es, first, Len(es))

(* c leaves the "request" phase with this answer.                          *)
AppendAnswer(c, rterm, success) ==
    (appendCalls (-) SetToBag({c})) (+)
        IF c.phase = "orphan" THEN EmptyBag
        ELSE SetToBag({[c EXCEPT !.phase = "reply", !.rterm = rterm,
                                 !.success = success]})

(* Handler AppendEntries at peer c.to, request of an older term.           *)
RefuseAppend(c) ==
    LET f == c.to
    IN  /\ c.phase \in {"request", "orphan"}
        /\ c.term < currentTerm[f]
        /\ appendCalls' = AppendAnswer(c, currentTerm[f], FALSE)
        /\ persist(f)
        /\ UNCHANGED <<serverVars, logVars, leaderVars, applyVars, persistDue,
                       crashes, counted, voteCalls, ballots>>

(* The consistency check.  Mutant: the term is not compared.               *)
prevInLog(lg, c) == c.prevIndex <= Len(lg)
prevMatches(lg, c) == c.prevIndex <= Len(lg) /\ TermAt(lg, c.prevIndex) = c.prevTerm

(* The follower's commitIndex, its log now of length n.  Mutant: it takes  *)
(* over an older LeaderCommit.                                             *)
anyCommit(own, c, n) == IF c.commit < n THEN c.commit ELSE n
learnCommit(own, c, n) ==
    IF c.commit <= own THEN own ELSE IF c.commit < n THEN c.commit ELSE n

(* Handler AppendEntries at peer c.to, request of its or a newer term:     *)
(* follow the sender, then check the previous entry, merge the log,        *)
(* advance commitIndex; the deferred persist() saves the outcome.          *)
AppendEntries(c) ==
    LET f == c.to
        newer == c.term > currentTerm[f]
        consistent == prevMatches(log[f], c)
        merged == IF consistent THEN Merge(log[f], c.prevIndex, c.entries) ELSE log[f]
    IN  /\ c.phase \in {"request", "orphan"}
        /\ c.term >= currentTerm[f]
        /\ currentTerm' = [currentTerm EXCEPT ![f] = c.term]
        /\ votedFor' = IF newer THEN [votedFor EXCEPT ![f] = None] ELSE votedFor
        /\ state' = [state EXCEPT ![f] = "Follower"]
        /\ electionTimer' = [electionTimer EXCEPT ![f] = TRUE]
        /\ log' = [log EXCEPT ![f] = merged]
        /\ commitIndex' = [commitIndex EXCEPT
               ![f] = IF consistent THEN learnCommit(@, c, Len(merged)) ELSE @]
        /\ appendCalls' = AppendAnswer(c, c.term, consistent)
        /\ persistAtEnd(f)
        /\ UNCHANGED <<leaderVars, applyVars, persistDue, crashes, counted,
                       voteCalls, ballots>>

(* respAppendEntries, for a call whose reply arrived.  In every case the   *)
(* goroutine gives up the lock before the persist() handleAppendEntries    *)
(* deferred, which it therefore still owes.                                *)
replyArrived(c) ==
    /\ c.phase = "reply"
    /\ persistDue' = [persistDue EXCEPT ![c.from] = @ + 1]
stillLeading(c) == state[c.from] = "Leader" /\ currentTerm[c.from] = c.term

(* - the caller is no longer leader of the term of the call;               *)
StaleAppendReply(c) ==
    /\ replyArrived(c)
    /\ ~stillLeading(c)
    /\ appendCalls' = appendCalls (-) SetToBag({c})
    /\ UNCHANGED <<serverVars, logVars, leaderVars, applyVars, disk, crashes,
                   counted, voteCalls, ballots>>

(* - the reply shows a newer term: save, then step down;                   *)
StepDownOnAppend(c) ==
    LET s == c.from
    IN  /\ replyArrived(c)
        /\ stillLeading(c)
        /\ c.rterm > currentTerm[s]
        /\ persist(s)
        /\ state' = [state EXCEPT ![s] = "Follower"]
        /\ votedFor' = [votedFor EXCEPT ![s] = None]
        /\ currentTerm' = [currentTerm EXCEPT ![s] = c.rterm]
        /\ electionTimer' = [electionTimer EXCEPT ![s] = TRUE]
        /\ appendCalls' = appendCalls (-) SetToBag({c})
        /\ UNCHANGED <<logVars, leaderVars, applyVars, crashes, counted,
                       voteCalls, ballots>>

(* The commit rule, for an index that the peers in agree are recorded to   *)
(* hold.  Mutant: an entry of an earlier term may be committed by counting.*)
committableAnyTerm(s, agree, i) == IsMajority(agree) /\ i > 0
committable(s, agree, i) == IsMajority(agree) /\ TermAt(log[s], i) = currentTerm[s]

(* - success: if nextIndex is still what the call was built from, advance  *)
(*   it and matchIndex; commit what a majority is recorded to hold.  The   *)
(*   matchIndex of an earlier leadership may be past a log that was cut    *)
(*   since: rf.log[match] then panics and the program ends, so no step;    *)
expectedNextIndex(c) == c.prevIndex + 1 + Len(c.entries)
AppendSucceeded(c) ==
    LET s == c.from
        f == c.to
        unmoved == nextIndex[s][f] + Len(c.entries) = expectedNextIndex(c)
        match == IF unmoved THEN expectedNextIndex(c) - 1 ELSE matchIndex[s][f]
        agree == {s, f} \cup {u \in Server : matchIndex[s][u] >= match}
    IN  /\ replyArrived(c)
        /\ stillLeading(c)
        /\ c.rterm <= currentTerm[s]
        /\ c.success
        /\ match <= Len(log[s])
        /\ nextIndex' = IF unmoved THEN [nextIndex EXCEPT ![s][f] = match + 1]
                        ELSE nextIndex
        /\ matchIndex' = [matchIndex EXCEPT ![s][f] = match]
        /\ commitIndex' = IF committable(s, agree, match) /\ match > commitIndex[s]
                          THEN [commitIndex EXCEPT ![s] = match] ELSE commitIndex
        /\ appendCalls' = appendCalls (-) SetToBag({c})
        /\ UNCHANGED <<serverVars, log, applyVars, disk, crashes, counted,
                       voteCalls, ballots>>

(* - failure: start over from the beginning of the log with a new call.    *)
(*   Mutant: from where the failed call started.                           *)
sameIndex(next) == next
backOff(next) == 1
AppendFailed(c) ==
    LET s == c.from
        f == c.to
        next == backOff(nextIndex[s][f])
    IN  /\ replyArrived(c)
        /\ stillLeading(c)
        /\ c.rterm <= currentTerm[s]
        /\ ~c.success
        /\ nextIndex' = [nextIndex EXCEPT ![s][f] = next]
        /\ appendCalls' = (appendCalls (-) SetToBag({c}))
                              (+) SetToBag({AppendCall(s, f, log[s], next)})
        /\ UNCHANGED <<serverVars, logVars, matchIndex, applyVars, disk, crashes,
                       counted, voteCalls, ballots>>

(* handleAppendEntries when Call() returns false, or when it finds that    *)
(* the peer no longer leads that term and sends nothing: only persist().   *)
LoseAppendCall(c) ==
    /\ appendCalls' = appendCalls (-) SetToBag({c})
    /\ IF c.phase = "orphan" THEN UNCHANGED disk ELSE persist(c.from)
    /\ UNCHANGED <<serverVars, logVars, leaderVars, applyVars, persistDue, crashes,
                   counted, voteCalls, ballots>>

(* handleAppendEntries, the deferred persist() after respAppendEntries.    *)
DeferredPersist(s) ==
    /\ persistDue[s] > 0
    /\ persistDue' = [persistDue EXCEPT ![s] = @ - 1]
    /\ persist(s)
    /\ UNCHANGED <<serverVars, logVars, leaderVars, applyVars, crashes, counted,
                   voteCalls, appendCalls, ballots>>

(* applyEntries: hand the service everything committed since last time.    *)
Apply(s) ==
    /\ lastApplied[s] < commitIndex[s]
    /\ lastApplied' = [lastApplied EXCEPT ![s] = commitIndex[s]]
    /\ delivered' = delivered \cup
           {<<i, log[s][i]>> : i \in lastApplied[s] + 1 .. commitIndex[s]}
    /\ UNCHANGED <<serverVars, logVars, leaderVars, diskVars, counted, voteCalls,
                   appendCalls, ballots>>
-----------------------------------------------------------------------------
(* Crash and restart: config.crash1 and start1, Make and readPersist.  The *)
(* goroutines of the old instance are cut off; a request of theirs that is *)
(* already in the network may still be served.                             *)
Orphan(c) == [c EXCEPT !.phase = "orphan"]
CrashRestart(s) ==
    LET inNetwork(c) == c.from = s /\ c.phase = "request"
        mine(c) == c.from = s /\ c.phase # "orphan"
        lost == {c \in BagToSet(appendCalls) : mine(c)}
        orphans == {Orphan(c) : c \in {d \in lost : inNetwork(d)}}
    IN  /\ crashes < MaxCrashes
        /\ crashes' = crashes + 1
        /\ currentTerm' = [currentTerm EXCEPT ![s] = readPersist(s).currentTerm]
        /\ votedFor' = [votedFor EXCEPT ![s] = readPersist(s).votedFor]
        /\ log' = [log EXCEPT ![s] = readPersist(s).log]
        /\ state' = [state EXCEPT ![s] = "Follower"]
        /\ commitIndex' = [commitIndex EXCEPT ![s] = 0]
        /\ lastApplied' = [lastApplied EXCEPT ![s] = 0]
        /\ nextIndex' = [nextIndex EXCEPT ![s] = [t \in Server |-> 0]]
        /\ matchIndex' = [matchIndex EXCEPT ![s] = [t \in Server |-> 0]]
        /\ counted' = [counted EXCEPT ![s] = {}]
        /\ electionTimer' = [electionTimer EXCEPT ![s] = TRUE]
        /\ persistDue' = [persistDue EXCEPT ![s] = 0]
        /\ voteCalls' = {c \in voteCalls : ~mine(c)} \cup
                            {Orphan(c) : c \in {d \in voteCalls : inNetwork(d)}}
        /\ appendCalls' = [c \in (DOMAIN appendCalls \ lost) \cup orphans |->
               (IF c \in DOMAIN appendCalls THEN appendCalls[c] ELSE 0) +
               (LET live == [c EXCEPT !.phase = "request"]
                IN  IF c \in orphans THEN appendCalls[live] ELSE 0)]
        /\ UNCHANGED <<disk, ballots, delivered>>
-----------------------------------------------------------------------------
VoteStep == \E c \in voteCalls :
    RequestVote(c) \/ StepDownOnVote(c) \/ CountVote(c) \/ DropVoteCall(c)

AppendStep == \E c \in BagToSet(appendCalls) :
    \/ RefuseAppend(c) \/ AppendEntries(c)
    \/ StaleAppendReply(c) \/ StepDownOnAppend(c)
    \/ AppendSucceeded(c) \/ AppendFailed(c) \/ LoseAppendCall(c)

PeerStep == \E s \in Server :
    \/ Campaign(s) \/ LeaderTick(s) \/ HeartbeatTick(s)
    \/ DeferredPersist(s) \/ Apply(s)
    \/ \E cmd \in Command : Start(s, cmd)

(* Without crashes: peers run for ever over the lossy network.             *)
Next == VoteStep \/ AppendStep \/ PeerStep
Spec == Init /\ [][Next]_vars

(* Scheduling without crashes: goroutines and timers run (the heartbeat    *)
(* timer of a leader is always armed, see above), and of the calls between *)
(* two peers not all are lost: labrpc drops requests and replies at random *)
(* and delivers the others.  Elections are not fair: their timers may lose *)
(* every race.                                                             *)
Serve(s, t) == \E c \in BagToSet(appendCalls) :
    c.from = s /\ c.to = t /\ (RefuseAppend(c) \/ AppendEntries(c))
Resume(s, t) == \E c \in BagToSet(appendCalls) :
    /\ c.from = s /\ c.to = t
    /\ \/ StaleAppendReply(c) \/ StepDownOnAppend(c)
       \/ AppendSucceeded(c) \/ AppendFailed(c)
LeaderFairness(l) ==
    /\ WF_vars(HeartbeatTick(l))
    /\ \A t \in Server : WF_vars(DeferredPersist(t)) /\ WF_vars(Apply(t))
    /\ \A t \in Server \ {l} : SF_vars(Serve(l, t)) /\ SF_vars(Resume(l, t))

(* With crashes and restarts.                                              *)
CrashNext == Next \/ \E s \in Server : CrashRestart(s)
CrashSpec == Init /\ [][CrashNext]_vars
-----------------------------------------------------------------------------
VoteCall == [from : Server, to : Server, term : Nat, lastIndex : Nat,
             lastTerm : Nat, phase : {"request", "reply", "orphan"}, rterm : Nat,
             granted : BOOLEAN]
AppendCallType ==
    [from : Server, to : Server, term : Nat, prevIndex : Nat, prevTerm : Nat,
     entries : Seq(Entry), commit : Nat, phase : {"request", "reply", "orphan"},
     rterm : Nat, success : BOOLEAN]

SavedType == [currentTerm : Nat, votedFor : Server \cup {None}, log : Seq(Entry)]

(* Every variable has its type.                                            *)
TypeOK ==
    /\ currentTerm \in [Server -> Nat]
    /\ votedFor \in [Server -> Server \cup {None}]
    /\ log \in [Server -> Seq(Entry)]
    /\ state \in [Server -> {"Follower", "Candidate", "Leader"}]
    /\ commitIndex \in [Server -> Nat]
    /\ lastApplied \in [Server -> Nat]
    /\ nextIndex \in [Server -> [Server -> Nat]]
    /\ matchIndex \in [Server -> [Server -> Nat]]
    /\ counted \in [Server -> SUBSET Server]
    /\ electionTimer \in [Server -> BOOLEAN]
    /\ disk \in [Server -> SavedType]
    /\ persistDue \in [Server -> Nat]
    /\ voteCalls \subseteq VoteCall
    /\ BagToSet(appendCalls) \subseteq AppendCallType
    /\ crashes \in Nat
    /\ ballots \subseteq Server \X Nat \X Server
    /\ \A d \in delivered : d[1] \in Nat

(* A peer votes for at most one candidate in a term: RequestVote grants    *)
(* only while votedFor is -1 or the same candidate, even though it serves  *)
(* requests of older terms too.                                            *)
OneVotePerTerm ==
    \A b1, b2 \in ballots : b1[1] = b2[1] /\ b1[2] = b2[2] => b1[3] = b2[3]

(* No two peers are leaders of the same term (checkOneLeader in            *)
(* config.go), whatever votes and replies are lost, late or left over from *)
(* earlier elections.                                                      *)
ElectionSafety ==
    \A s, t \in Server :
        state[s] = "Leader" /\ state[t] = "Leader" /\ currentTerm[s] = currentTerm[t]
            => s = t

(* Logs that agree on the term of an index agree up to it: the consistency *)
(* check and the merge of AppendEntries.                                   *)
LogMatching ==
    \A s, t \in Server : \A i \in 1..Len(log[s]) \cap 1..Len(log[t]) :
        log[s][i].term = log[t][i].term
            => SubSeq(log[s], 1, i) = SubSeq(log[t], 1, i)

(* The peers hand their services the same command at the same index        *)
(* (checkLogs in config.go), in spite of entries left over from earlier    *)
(* terms.  This holds without crashes for logs of one entry.  With three   *)
(* entries it need not: matchIndex survives an election, and a peer that   *)
(* leads again counts what is left in it.                                  *)
StateMachineSafety ==
    \A d, e \in delivered : d[1] = e[1] => d[2] = e[2]

(* A leader of the newest term holds every entry any service was given:    *)
(* the up-to-date check of RequestVote against the commit rule of          *)
(* respAppendEntries.                                                      *)
LeaderCompleteness ==
    \A s \in Server :
        state[s] = "Leader" /\ (\A t \in Server : currentTerm[t] <= currentTerm[s])
            => \A d \in delivered : d[1] <= Len(log[s]) /\ log[s][d[1]] = d[2]

(* What any peer takes as committed is in the logs of a majority: the      *)
(* counting of matchIndex in respAppendEntries, with replies out of order. *)
CommittedOnMajority ==
    \A s \in Server : commitIndex[s] > 0 =>
        LET i == commitIndex[s]
        IN  IsMajority({t \in Server : i <= Len(log[t]) /\ log[t][i] = log[s][i]})

(* sendHeartbeats slices rf.log[nextIndex:] and reads rf.log[nextIndex-1]: *)
(* for a leader both are within the log, although nextIndex moves on       *)
(* replies to calls of long ago.                                           *)
LeaderIndicesInLog ==
    \A s, t \in Server :
        state[s] = "Leader" => nextIndex[s][t] \in 1..Len(log[s]) + 1

(* A peer that is not leader can still call an election: "The ticker go    *)
(* routine starts a new election if this peer hasn't received heartsbeats  *)
(* recently" (raft.go).                                                    *)
NonLeaderTimerArmed ==
    \A s \in Server : state[s] # "Leader" => electionTimer[s]

(* Whatever a crash takes from a peer's log is of a term this peer was     *)
(* elected in, as the entries are that Start appends: what a peer accepts  *)
(* from another leader is saved before its reply leaves, even across       *)
(* restarts.                                                               *)
UnsavedIsOwn ==
    \A s \in Server :
        /\ Len(disk[s].log) <= Len(log[s])
        /\ \A i \in 1..Len(log[s]) :
               IF i <= Len(disk[s].log) THEN log[s][i] = disk[s].log[i]
               ELSE IsMajority({b[1] : b \in {c \in ballots :
                                                c[2] = log[s][i].term /\ c[3] = s}})

(* The stored term never falls, through saves out of date, crashes and     *)
(* restarts.                                                               *)
StoredTermMonotonic ==
    [][\A s \in Server : disk'[s].currentTerm >= disk[s].currentTerm]_vars

(* Once the leader of the last term has an entry of that term in its log,  *)
(* every peer ends up with the leader's log, applied: failed consistency   *)
(* checks, conflicting entries of earlier leaders and lost calls are       *)
(* worked off by retries from index 1 and heartbeats.                      *)
LastLeader(s) == state[s] = "Leader" /\ currentTerm[s] = MaxTerm
LeaderLogReachesAll ==
    (\E s \in Server : LastLeader(s) /\ lastLogTerm(s) = MaxTerm)
        ~> \E s \in Server : /\ LastLeader(s)
                             /\ \A t \in Server : /\ log[t] = log[s]
                                                  /\ lastApplied[t] = Len(log[s])

(* What a peer has committed stays: commitIndex never falls and no merge   *)
(* or truncation touches the log up to it.                                 *)
CommittedPrefixStable ==
    [][\A s \in Server :
         /\ commitIndex'[s] >= commitIndex[s]
         /\ commitIndex[s] <= Len(log'[s])
         /\ \A i \in 1..commitIndex[s] : log'[s][i] = log[s][i]]_vars

(* A leader never overwrites its own log: no AppendEntries of its own term *)
(* or merge reaches it while it leads.                                     *)
LeaderAppendOnly ==
    [][\A s \in Server :
         state[s] = "Leader" /\ currentTerm'[s] = currentTerm[s]
             => /\ state'[s] = "Leader"
                /\ \A i \in 1..Len(log[s]) : i <= Len(log'[s]) /\ log'[s][i] = log[s][i]]_vars
=============================================================================
