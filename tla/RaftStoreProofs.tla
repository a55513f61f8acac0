-------------------------- MODULE RaftStoreProofs ---------------------------
(***************************************************************************)
(* What the Persister of a peer holds, crashes included, for any number of *)
(* peers: persist() runs late in several places of raft.go, but never so   *)
(* late that a restart forgets more than the peer's own commands.          *)
(***************************************************************************)
EXTENDS RaftElectionProofs

(* The inductive invariant.  Of the election only the record of votes      *)
(* survives a crash: peers may vote twice in a term they forgot.           *)
SavedTermBehind == \A s \in Server : disk[s].currentTerm <= currentTerm[s]
UnsavedElected ==
    \A s \in Server :
        /\ Len(disk[s].log) <= Len(log[s])
        /\ \A i \in 1..Len(log[s]) :
               IF i <= Len(disk[s].log) THEN log[s][i] = disk[s].log[i]
               ELSE Elected(s, log[s][i].term)
StoreInv == /\ TypeInv /\ GrantsOnRecord /\ CountedOnRecord /\ LeadersElected
            /\ SavedTermBehind /\ UnsavedElected

StoredGrows == \A s \in Server : disk'[s].currentTerm >= disk[s].currentTerm
Kept == SavedTermBehind' /\ UnsavedElected' /\ StoredGrows

USE DEF serverVars, logVars, leaderVars, applyVars, diskVars

(* What persist() stores, field by field.                                  *)
LEMMA SavedFields ==
    ASSUME TypeOK, NEW s \in Server
    PROVE  /\ disk[s].currentTerm \in Nat /\ disk[s].log \in Seq(Entry)
           /\ currentTerm[s] \in Nat /\ log[s] \in Seq(Entry)
           /\ Durable(s).currentTerm = currentTerm[s] /\ Durable(s).log = log[s]
  BY DEF TypeOK, SavedType, Durable

(* A step that leaves the logs alone, lowers no term and saves what one    *)
(* peer knew before it, or nothing.                                        *)
LEMMA StoreFrame ==
    ASSUME TypeOK, SavedTermBehind, UnsavedElected, ballots \subseteq ballots',
           log' = log,
           \A r \in Server : currentTerm'[r] \in Nat /\ currentTerm'[r] >= currentTerm[r],
           disk' = disk \/ \E x \in Server : disk' = [disk EXCEPT ![x] = Durable(x)]
    PROVE  Kept
<1>1. \A u \in Server : disk'[u] = disk[u] \/ disk'[u] = Durable(u)
  BY DEF TypeOK
<1>2. ASSUME NEW u \in Server
      PROVE  disk'[u].currentTerm <= currentTerm'[u] /\ disk'[u].currentTerm >= disk[u].currentTerm
  <2>1. disk[u].currentTerm <= currentTerm[u] /\ currentTerm'[u] >= currentTerm[u]
        /\ currentTerm'[u] \in Nat
    BY DEF SavedTermBehind
  <2>2. disk'[u].currentTerm = disk[u].currentTerm \/ disk'[u].currentTerm = currentTerm[u]
    BY <1>1, SavedFields
  <2> QED
    BY <2>1, <2>2, SavedFields
<1>3. ASSUME NEW u \in Server
      PROVE  /\ Len(disk'[u].log) <= Len(log'[u])
             /\ \A i \in 1..Len(log'[u]) :
                    IF i <= Len(disk'[u].log) THEN log'[u][i] = disk'[u].log[i]
                    ELSE Elected(u, log[u][i].term)
  <2>1. CASE disk'[u] = disk[u]
    BY <2>1 DEF UnsavedElected
  <2>2. CASE disk'[u].log = log[u]
    <3>1. log[u] \in Seq(Entry)
      BY SavedFields
    <3> QED
      BY <2>2, <3>1
  <2> QED
    BY <1>1, <2>1, <2>2, SavedFields
<1>4. UnsavedElected'
  BY <1>3, ElectedMonotone DEF UnsavedElected
<1> QED
  BY <1>2, <1>4 DEF Kept, SavedTermBehind, StoredGrows

(* Start saves before it appends: the command it leaves out is the         *)
(* leader's own.                                                           *)
LEMMA StoreStart ==
    ASSUME StoreInv, NEW s \in Server, NEW cmd \in Command, Start(s, cmd)
    PROVE  Kept
<1> DEFINE entry == [term |-> currentTerm[s], cmd |-> cmd]
<1>1. /\ TypeOK /\ SavedTermBehind /\ UnsavedElected /\ LeadersElected
      /\ log \in [Server -> Seq(Entry)] /\ disk \in [Server -> SavedType]
  BY DEF StoreInv, TypeInv, TypeOK
<1>2. entry \in Entry /\ entry.term = currentTerm[s]
  BY <1>1, SavedFields DEF Entry
<1>3. /\ log' = [log EXCEPT ![s] = Append(log[s], entry)]
      /\ disk' = [disk EXCEPT ![s] = Durable(s)]
      /\ currentTerm' = currentTerm /\ ballots' = ballots /\ state[s] = "Leader"
  BY DEF Start, persist
<1> HIDE DEF entry
<1>4. SavedTermBehind' /\ StoredGrows
  <2>1. \A u \in Server : \/ disk'[u].currentTerm = disk[u].currentTerm
                          \/ disk'[u].currentTerm = currentTerm[u]
    BY <1>1, <1>3, SavedFields
  <2>2. \A u \in Server : /\ disk[u].currentTerm \in Nat /\ currentTerm[u] \in Nat
                          /\ disk[u].currentTerm <= currentTerm[u]
    BY <1>1, SavedFields DEF SavedTermBehind
  <2> QED
    BY <1>3, <2>1, <2>2 DEF SavedTermBehind, StoredGrows
<1>5. Elected(s, currentTerm[s])
  BY <1>1, <1>3 DEF LeadersElected
<1>6. ASSUME NEW u \in Server
      PROVE  /\ Len(disk'[u].log) <= Len(log'[u])
             /\ \A i \in 1..Len(log'[u]) :
                    IF i <= Len(disk'[u].log) THEN log'[u][i] = disk'[u].log[i]
                    ELSE Elected(u, log'[u][i].term)
  <2>1. CASE u = s
    <3>1. log'[s] = Append(log[s], entry) /\ disk'[s].log = log[s] /\ log[s] \in Seq(Entry)
      BY <1>1, <1>3, SavedFields
    <3>2. /\ Len(log'[s]) = Len(log[s]) + 1 /\ Len(log[s]) \in Nat
          /\ log'[s][Len(log[s]) + 1] = entry
          /\ \A i \in 1..Len(log[s]) : log'[s][i] = log[s][i]
      BY <1>2, <3>1
    <3> QED
      BY <1>2, <1>5, <2>1, <3>1, <3>2
  <2>2. CASE u # s
    <3>1. log'[u] = log[u] /\ disk'[u] = disk[u]
      BY <1>1, <1>3, <2>2
    <3> QED
      BY <1>1, <3>1 DEF UnsavedElected
  <2> QED
    BY <2>1, <2>2
<1>7. UnsavedElected'
  BY <1>3, <1>6, ElectedMonotone DEF UnsavedElected
<1> QED
  BY <1>4, <1>7 DEF Kept

(* AppendEntries saves what it leaves behind.                              *)
LEMMA StoreAppendEntries ==
    ASSUME StoreInv, TypeOK', NEW c \in BagToSet(appendCalls), AppendEntries(c)
    PROVE  Kept
<1> DEFINE f == c.to
<1>1. /\ TypeOK /\ SavedTermBehind /\ UnsavedElected
      /\ log \in [Server -> Seq(Entry)] /\ disk \in [Server -> SavedType]
      /\ currentTerm \in [Server -> Nat]
  BY DEF StoreInv, TypeInv, TypeOK
<1>2. f \in Server /\ c.term \in Nat
  BY <1>1 DEF TypeOK, AppendCallType
<1>3. /\ \E lg : log' = [log EXCEPT ![f] = lg]
      /\ disk' = [disk EXCEPT ![f] = Durable(f)']
      /\ currentTerm' = [currentTerm EXCEPT ![f] = c.term]
      /\ c.term >= currentTerm[f] /\ ballots' = ballots
  BY DEF AppendEntries, persistAtEnd
<1>4. Durable(f)'.currentTerm = currentTerm'[f] /\ Durable(f)'.log = log'[f]
  BY DEF Durable
<1>5. /\ disk'[f].currentTerm = c.term /\ currentTerm'[f] = c.term
      /\ disk'[f].log = log'[f] /\ log'[f] \in Seq(Entry)
  BY <1>1, <1>2, <1>3, <1>4 DEF TypeOK
<1>6. \A u \in Server \ {f} : disk'[u] = disk[u] /\ log'[u] = log[u]
                                 /\ currentTerm'[u] = currentTerm[u]
  BY <1>1, <1>2, <1>3
<1>7. \A u \in Server : /\ disk[u].currentTerm \in Nat /\ currentTerm[u] \in Nat
                        /\ disk[u].currentTerm <= currentTerm[u]
  BY <1>1, SavedFields DEF SavedTermBehind
<1>8. SavedTermBehind' /\ StoredGrows
  <2>1. disk'[f].currentTerm >= disk[f].currentTerm
    BY <1>2, <1>3, <1>5, <1>7
  <2>2. disk'[f].currentTerm <= currentTerm'[f]
    BY <1>2, <1>5
  <2> QED
    BY <1>6, <1>7, <2>1, <2>2 DEF SavedTermBehind, StoredGrows
<1>9. ASSUME NEW u \in Server
      PROVE  /\ Len(disk'[u].log) <= Len(log'[u])
             /\ \A i \in 1..Len(log'[u]) :
                    IF i <= Len(disk'[u].log) THEN log'[u][i] = disk'[u].log[i]
                    ELSE Elected(u, log'[u][i].term)
  <2>1. CASE u = f
    BY <1>5, <2>1
  <2>2. CASE u # f
    BY <1>1, <1>6, <2>2 DEF UnsavedElected
  <2> QED
    BY <2>1, <2>2
<1>10. UnsavedElected'
  BY <1>3, <1>9, ElectedMonotone DEF UnsavedElected
<1> QED
  BY <1>8, <1>10 DEF Kept

(* A restarted peer is what its Persister holds.                           *)
LEMMA StoreCrash ==
    ASSUME StoreInv, NEW s \in Server, CrashRestart(s)
    PROVE  Kept /\ GrantsOnRecord' /\ CountedOnRecord' /\ LeadersElected'
<1>1. /\ TypeOK /\ SavedTermBehind /\ UnsavedElected
      /\ log \in [Server -> Seq(Entry)] /\ currentTerm \in [Server -> Nat]
      /\ state \in [Server -> {"Follower", "Candidate", "Leader"}]
      /\ counted \in [Server -> SUBSET Server] /\ voteCalls \subseteq VoteCall
      /\ GrantsOnRecord /\ CountedOnRecord /\ LeadersElected
  BY DEF StoreInv, TypeInv, TypeOK
<1>2. /\ currentTerm' = [currentTerm EXCEPT ![s] = disk[s].currentTerm]
      /\ log' = [log EXCEPT ![s] = disk[s].log]
      /\ state' = [state EXCEPT ![s] = "Follower"]
      /\ counted' = [counted EXCEPT ![s] = {}]
      /\ disk' = disk /\ ballots' = ballots
  BY Zenon DEF CrashRestart, readPersist
<1>3. CountedOnRecord' /\ LeadersElected'
  <2>1. \A r \in Server : state'[r] # "Follower" =>
            /\ state'[r] = state[r] /\ currentTerm'[r] = currentTerm[r]
            /\ counted'[r] = counted[r]
    BY <1>1, <1>2
  <2> QED
    BY <1>1, <1>2, <2>1, RecordFrame
<1>4. GrantsOnRecord'
  <2>1. \A d \in VoteCall : Orphan(d).phase = "orphan"
    BY DEF Orphan, VoteCall
  <2>2. \A d \in voteCalls' : d \in voteCalls \/ \E e \in voteCalls : d = Orphan(e)
    BY DEF CrashRestart
  <2>3. \A d \in voteCalls' : d \in voteCalls \/ d.phase = "orphan"
    BY <1>1, <2>1, <2>2
  <2> QED
    BY <1>1, <1>2, <2>3 DEF GrantsOnRecord
<1>5. \A u \in Server : IF u = s THEN currentTerm'[u] = disk[u].currentTerm /\ log'[u] = disk[u].log
                       ELSE currentTerm'[u] = currentTerm[u] /\ log'[u] = log[u]
  BY <1>1, <1>2
<1>6. SavedTermBehind' /\ StoredGrows
  <2>1. \A u \in Server : /\ disk[u].currentTerm \in Nat
                          /\ disk[u].currentTerm <= currentTerm[u]
    BY <1>1, SavedFields DEF SavedTermBehind
  <2> QED
    BY <1>2, <1>5, <2>1 DEF SavedTermBehind, StoredGrows
<1>7. ASSUME NEW u \in Server
      PROVE  /\ Len(disk'[u].log) <= Len(log'[u])
             /\ \A i \in 1..Len(log'[u]) :
                    IF i <= Len(disk'[u].log) THEN log'[u][i] = disk'[u].log[i]
                    ELSE Elected(u, log'[u][i].term)
  <2>1. CASE u = s
    <3>1. log'[u] = disk'[u].log /\ disk'[u].log \in Seq(Entry)
      BY <1>1, <1>2, <1>5, <2>1, SavedFields
    <3> QED
      BY <3>1
  <2>2. CASE u # s
    BY <1>1, <1>2, <1>5, <2>2 DEF UnsavedElected
  <2> QED
    BY <2>1, <2>2
<1>8. UnsavedElected'
  BY <1>2, <1>7, ElectedMonotone DEF UnsavedElected
<1> QED
  BY <1>3, <1>4, <1>6, <1>8 DEF Kept

(* The steps of the vote calls.                                            *)
LEMMA StoreVoteStep ==
    ASSUME StoreInv, VoteStep
    PROVE  Kept /\ CountedOnRecord' /\ LeadersElected'
<1>1. /\ TypeOK /\ SavedTermBehind /\ UnsavedElected /\ currentTerm \in [Server -> Nat]
      /\ state \in [Server -> {"Follower", "Candidate", "Leader"}]
      /\ GrantsOnRecord /\ CountedOnRecord /\ LeadersElected
  BY DEF StoreInv, TypeInv, TypeOK
<1> PICK c \in voteCalls :
        RequestVote(c) \/ StepDownOnVote(c) \/ CountVote(c) \/ DropVoteCall(c)
  BY DEF VoteStep
<1>2. c.from \in Server /\ c.to \in Server /\ c.term \in Nat /\ c.rterm \in Nat
  BY <1>1 DEF TypeOK, VoteCall
<1>3. CASE RequestVote(c)
  <2>1. /\ \A r \in Server :
              \/ currentTerm'[r] = currentTerm[r] /\ state'[r] = state[r]
              \/ currentTerm'[r] = c.term /\ c.term > currentTerm[r] /\ state'[r] = "Follower"
        /\ log' = log /\ disk' = disk /\ counted' = counted /\ ballots \subseteq ballots'
    BY <1>1, <1>2, <1>3 DEF RequestVote
  <2>2. \A r \in Server : currentTerm'[r] \in Nat /\ currentTerm'[r] >= currentTerm[r]
    BY <1>1, <1>2, <2>1
  <2> QED
    BY <1>1, <2>1, <2>2, StoreFrame, RecordFrame
<1>4. CASE StepDownOnVote(c)
  <2>1. /\ \A r \in Server :
              \/ currentTerm'[r] = currentTerm[r] /\ state'[r] = state[r]
              \/ currentTerm'[r] = c.rterm /\ c.rterm > currentTerm[r] /\ state'[r] = "Follower"
        /\ log' = log /\ disk' = [disk EXCEPT ![c.from] = Durable(c.from)]
        /\ counted' = counted /\ ballots' = ballots
    BY <1>1, <1>2, <1>4 DEF StepDownOnVote, persist
  <2>2. \A r \in Server : currentTerm'[r] \in Nat /\ currentTerm'[r] >= currentTerm[r]
    BY <1>1, <1>2, <2>1
  <2> QED
    BY <1>1, <1>2, <2>1, <2>2, StoreFrame, RecordFrame
<1>5. CASE CountVote(c) \/ DropVoteCall(c)
  <2>1. UNCHANGED <<currentTerm, log, disk, ballots>>
    BY <1>5 DEF CountVote, DropVoteCall
  <2>2. \A r \in Server : currentTerm'[r] \in Nat /\ currentTerm'[r] >= currentTerm[r]
    BY <1>1, <2>1
  <2>3. DropVoteCall(c) => CountedOnRecord' /\ LeadersElected'
    BY <1>1, RecordFrame DEF DropVoteCall
  <2> QED
    BY <1>1, <1>5, <2>1, <2>2, <2>3, StoreFrame, RecordCountVote
<1> QED
  BY <1>3, <1>4, <1>5

(* The steps of the append calls.                                          *)
LEMMA StoreAppendStep ==
    ASSUME StoreInv, TypeOK', AppendStep
    PROVE  Kept /\ CountedOnRecord' /\ LeadersElected'
<1>1. /\ TypeOK /\ SavedTermBehind /\ UnsavedElected /\ currentTerm \in [Server -> Nat]
      /\ state \in [Server -> {"Follower", "Candidate", "Leader"}]
      /\ CountedOnRecord /\ LeadersElected
  BY DEF StoreInv, TypeInv, TypeOK
<1> PICK c \in BagToSet(appendCalls) :
        \/ RefuseAppend(c) \/ AppendEntries(c)
        \/ StaleAppendReply(c) \/ StepDownOnAppend(c)
        \/ AppendSucceeded(c) \/ AppendFailed(c) \/ LoseAppendCall(c)
  BY DEF AppendStep
<1>2. c.from \in Server /\ c.to \in Server /\ c.term \in Nat /\ c.rterm \in Nat
  BY <1>1 DEF TypeOK, AppendCallType
<1>3. ASSUME UNCHANGED <<currentTerm, state, counted, log, ballots>>,
             disk' = disk \/ \E x \in Server : disk' = [disk EXCEPT ![x] = Durable(x)]
      PROVE  Kept /\ CountedOnRecord' /\ LeadersElected'
  <2>1. \A r \in Server : currentTerm'[r] \in Nat /\ currentTerm'[r] >= currentTerm[r]
    BY <1>1, <1>3
  <2> QED
    BY <1>1, <1>3, <2>1, StoreFrame, RecordFrame
<1>4. CASE RefuseAppend(c) \/ LoseAppendCall(c)
  BY <1>2, <1>3, <1>4 DEF RefuseAppend, LoseAppendCall, persist
<1>5. CASE StaleAppendReply(c) \/ AppendSucceeded(c) \/ AppendFailed(c)
  BY <1>3, <1>5 DEF StaleAppendReply, AppendSucceeded, AppendFailed
<1>6. CASE StepDownOnAppend(c)
  <2>1. /\ \A r \in Server :
              \/ currentTerm'[r] = currentTerm[r] /\ state'[r] = state[r]
              \/ currentTerm'[r] = c.rterm /\ c.rterm > currentTerm[r] /\ state'[r] = "Follower"
        /\ log' = log /\ disk' = [disk EXCEPT ![c.from] = Durable(c.from)]
        /\ counted' = counted /\ ballots' = ballots
    <3>1. /\ currentTerm' = [currentTerm EXCEPT ![c.from] = c.rterm]
          /\ state' = [state EXCEPT ![c.from] = "Follower"]
          /\ c.rterm > currentTerm[c.from]
          /\ log' = log /\ disk' = [disk EXCEPT ![c.from] = Durable(c.from)]
          /\ counted' = counted /\ ballots' = ballots
      BY <1>6 DEF StepDownOnAppend, persist
    <3>2. \A r \in Server : r # c.from =>
              currentTerm'[r] = currentTerm[r] /\ state'[r] = state[r]
      BY <1>1, <3>1
    <3>3. currentTerm'[c.from] = c.rterm /\ state'[c.from] = "Follower"
      BY <1>1, <1>2, <3>1
    <3> QED
      BY <3>1, <3>2, <3>3
  <2>2. \A r \in Server : currentTerm'[r] \in Nat /\ currentTerm'[r] >= currentTerm[r]
    BY <1>1, <1>2, <2>1
  <2> QED
    BY <1>1, <1>2, <2>1, <2>2, StoreFrame, RecordFrame
<1>7. CASE AppendEntries(c)
  <2>1. \A r \in Server : state'[r] # "Follower" =>
            state'[r] = state[r] /\ currentTerm'[r] = currentTerm[r]
    BY <1>1, <1>2, <1>7 DEF AppendEntries
  <2>2. counted' = counted /\ ballots' = ballots
    BY <1>7 DEF AppendEntries
  <2> QED
    BY <1>1, <1>7, <2>1, <2>2, StoreAppendEntries, RecordFrame
<1> QED
  BY <1>4, <1>5, <1>6, <1>7

(* The steps of the peers' own goroutines.                                 *)
LEMMA StorePeerStep ==
    ASSUME StoreInv, PeerStep
    PROVE  Kept /\ CountedOnRecord' /\ LeadersElected'
<1>1. /\ TypeOK /\ SavedTermBehind /\ UnsavedElected /\ currentTerm \in [Server -> Nat]
      /\ CountedOnRecord /\ LeadersElected
  BY DEF StoreInv, TypeInv, TypeOK
<1> PICK s \in Server :
        \/ Campaign(s) \/ LeaderTick(s) \/ HeartbeatTick(s)
        \/ DeferredPersist(s) \/ Apply(s)
        \/ \E cmd \in Command : Start(s, cmd)
  BY DEF PeerStep
<1>2. CASE Campaign(s)
  <2>1. /\ \A r \in Server : currentTerm'[r] = currentTerm[r]
                            \/ currentTerm'[r] = currentTerm[r] + 1
        /\ log' = log /\ disk' = [disk EXCEPT ![s] = Durable(s)] /\ ballots \subseteq ballots'
    BY <1>1, <1>2 DEF Campaign, persist
  <2>2. \A r \in Server : currentTerm'[r] \in Nat /\ currentTerm'[r] >= currentTerm[r]
    BY <1>1, <2>1
  <2> QED
    BY <1>1, <1>2, <2>1, <2>2, StoreFrame, RecordCampaign
<1>3. ASSUME UNCHANGED <<currentTerm, state, counted, log, ballots>>,
             disk' = disk \/ disk' = [disk EXCEPT ![s] = Durable(s)]
      PROVE  Kept /\ CountedOnRecord' /\ LeadersElected'
  <2>1. \A r \in Server : currentTerm'[r] \in Nat /\ currentTerm'[r] >= currentTerm[r]
    BY <1>1, <1>3
  <2> QED
    BY <1>1, <1>3, <2>1, StoreFrame, RecordFrame
<1>4. CASE LeaderTick(s) \/ HeartbeatTick(s)
  BY <1>3, <1>4 DEF LeaderTick, HeartbeatTick
<1>5. CASE DeferredPersist(s) \/ Apply(s)
  BY <1>3, <1>5 DEF DeferredPersist, Apply, persist
<1>6. ASSUME NEW cmd \in Command, Start(s, cmd)
      PROVE  Kept /\ CountedOnRecord' /\ LeadersElected'
  <2>1. UNCHANGED <<currentTerm, state, counted, ballots>>
    BY <1>6 DEF Start
  <2> QED
    BY <1>1, <1>6, <2>1, StoreStart, RecordFrame
<1> QED
  BY <1>2, <1>4, <1>5, <1>6
-----------------------------------------------------------------------------
(* At first the Persister holds what the peer does.                        *)
LEMMA StoreInit ==
    ASSUME Init
    PROVE  StoreInv
<1>1. TypeOK
  BY InitType DEF TypeInv
<1>2. \A s \in Server : disk[s].currentTerm = currentTerm[s] /\ disk[s].log = log[s]
  BY <1>1, SavedFields DEF Init
<1>3. SavedTermBehind /\ UnsavedElected
  <2>1. \A s \in Server : currentTerm[s] = 0 /\ log[s] = <<>>
    BY DEF Init
  <2> QED
    BY <1>2, <2>1 DEF SavedTermBehind, UnsavedElected
<1> QED
  BY <1>3, InitType DEF Init, StoreInv, GrantsOnRecord, CountedOnRecord, LeadersElected

(* Every step, crashes included, keeps what is known of the store.         *)
LEMMA StoreStep ==
    ASSUME StoreInv, [CrashNext]_vars
    PROVE  StoreInv' /\ [StoredGrows]_vars
<1>1. TypeInv /\ TypeInv' /\ TypeOK /\ TypeOK'
  BY TypeStep DEF StoreInv, TypeInv
<1>2. CASE Next
  <2>1. GrantsOnRecord'
    BY <1>1, <1>2, GrantsStep DEF StoreInv
  <2>2. Kept /\ CountedOnRecord' /\ LeadersElected'
    BY <1>1, <1>2, StoreVoteStep, StoreAppendStep, StorePeerStep DEF Next
  <2> QED
    BY <1>1, <2>1, <2>2 DEF StoreInv, Kept
<1>3. ASSUME NEW s \in Server, CrashRestart(s)
      PROVE  StoreInv' /\ StoredGrows
  BY <1>1, <1>3, StoreCrash DEF StoreInv, Kept
<1>4. CASE UNCHANGED vars
  <2>1. UNCHANGED <<currentTerm, state, counted, ballots, voteCalls, log, disk>>
    BY <1>4 DEF vars
  <2>2. SavedTermBehind'
    BY <2>1 DEF StoreInv, SavedTermBehind
  <2>3. UnsavedElected'
    BY <2>1, ElectedMonotone DEF StoreInv, UnsavedElected
  <2>4. GrantsOnRecord' /\ CountedOnRecord' /\ LeadersElected'
    BY <2>1, GrantsFrame, RecordFrame DEF StoreInv
  <2> QED
    BY <1>1, <1>4, <2>2, <2>3, <2>4 DEF StoreInv
<1> QED
  BY <1>2, <1>3, <1>4 DEF CrashNext

(* So it holds in every behaviour.                                         *)
LEMMA StoreInvariant == CrashSpec => []StoreInv
<1>1. Init => StoreInv
  BY StoreInit
<1>2. StoreInv /\ [CrashNext]_vars => StoreInv'
  BY StoreStep
<1> QED
  BY <1>1, <1>2, PTL DEF CrashSpec

(* With any number of peers and crashes, what a restart takes from a       *)
(* peer's log are only commands the peer itself took in Start as an        *)
(* elected leader: what AppendEntries accepts is saved before it answers.  *)
THEOREM OnlyOwnUnsaved == CrashSpec => []UnsavedIsOwn
<1>1. StoreInv => UnsavedIsOwn
  <2> SUFFICES ASSUME StoreInv
               PROVE  UnsavedIsOwn
    OBVIOUS
  <2>1. \A s, n : Voters(s, n) = {b[1] : b \in {c \in ballots : c[2] = n /\ c[3] = s}}
    <3>1. \A b \in ballots : b[1] \in Server /\ b = <<b[1], b[2], b[3]>>
      <4>1. ballots \subseteq Server \X Nat \X Server
        BY DEF StoreInv, TypeInv, TypeOK
      <4> QED
        BY <4>1
    <3>2. ASSUME NEW s, NEW n, NEW v, v \in Voters(s, n)
          PROVE  v \in {b[1] : b \in {c \in ballots : c[2] = n /\ c[3] = s}}
      <4> DEFINE b == <<v, n, s>>
      <4>1. b \in ballots /\ b[1] = v /\ b[2] = n /\ b[3] = s
        BY <3>2 DEF Voters
      <4> HIDE DEF b
      <4> QED
        BY <4>1
    <3>3. ASSUME NEW s, NEW n, NEW b \in ballots, b[2] = n, b[3] = s
          PROVE  b[1] \in Voters(s, n)
      <4>1. b = <<b[1], n, s>> /\ b[1] \in Server
        BY <3>1, <3>3
      <4> QED
        BY <4>1 DEF Voters
    <3> QED
      BY <3>2, <3>3
  <2> QED
    BY <2>1 DEF StoreInv, UnsavedElected, UnsavedIsOwn, Elected
<1> QED
  BY <1>1, StoreInvariant, PTL

(* With any number of peers and crashes, no persist() of raft.go, however  *)
(* late it runs, replaces a stored term by an older one.                   *)
THEOREM StoredTermGrows == CrashSpec => StoredTermMonotonic
<1>1. StoreInv /\ [CrashNext]_vars => [StoredGrows]_vars
  BY StoreStep
<1> QED
  BY <1>1, StoreInvariant, PTL DEF CrashSpec, StoredTermMonotonic, StoredGrows
=============================================================================
