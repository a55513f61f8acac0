# Verification of the distributed-systems labs

TLA+ specifications, model-checking instances and machine-checked proofs for the
Go code under `src/cs426-fall24/`. The repository holds five labs: concurrency
primitives (`lab0`), a video recommendation service (`lab1`, and a copy under
`lab2` prepared for deployment), Raft (`lab3`) and a sharded key-value store
(`lab4`). Raft is modelled, checked and partly proved; the other parts are
surveyed below and planned.

Paths are relative to `src/cs426-fall24/`; `raft.go` is `lab3/lab3/raft/raft.go`.

## 1. The system and its hard parts

### Raft (`lab3/lab3/raft`)

* **State.** Persistent: `currentTerm`, `votedFor`, `log`. Volatile:
  `state`, `commitIndex`, `lastApplied`, `nextIndex`, `matchIndex`, two timers,
  the channel `hasCommittedChan`.
* **Operations.** `Make`, `ticker` (election and heartbeat timer),
  `conductElection` with one goroutine for each peer, the handlers `RequestVote`
  and `AppendEntries`, `sendHeartbeats`, `handleAppendEntries` and
  `respAppendEntries` (one goroutine for each call), `Start`, `applyEntries`,
  `persist`, `readPersist`, `Kill`.
* **Interaction.** Peers call each other through `labrpc`, which loses, delays
  and reorders requests and replies. They save to a `Persister`, and `config.go`
  crashes and restarts them. The service reads `applyCh`.
* **Hard.** Replies that belong to a term or a leadership that is over; several
  calls to one follower under way; saving before, after, or not at all around a
  change; entries of earlier terms; a leader that loses its timer.
* **Correct means.** One leader in a term, logs that match, the same command at
  the same index everywhere, nothing committed lost, followers catch up.

### Sharded key-value store (`lab4/kv`)

* **Shard map** (`shardmap.go`, `file_shardmap.go`): the present map and a table
  of listener channels. `Update` sends on every channel under the read lock,
  `Close` takes the write lock. Hard: a listener that stops reading; `Shutdown`
  of the file watcher. Correct: every update is noticed, nobody waits for ever.
* **Server** (`server.go`): hosted shards, each with its lock and clean-up
  goroutine; `Get`, `Set`, `Delete`, `GetShardContents`, `handleShardMapUpdate`
  with `retrieveShardData`. Hard: an update that copies a shard while clients
  write to it; two updates at once; the map changing under a copy. Correct: a
  value acknowledged by all replicas survives a migration, expired values are not
  returned, a server answers only for shards it hosts.
* **Client and pool** (`client.go`, `clientpool.go`): `Get` tries replicas in
  turn from a random one, `Set` and `Delete` write to all and report any error.
  Connections are cached behind a double-checked lock.
* **Checker** (`checker/checker.go`): accepts a read iff its value was current
  at some time of the read, by write intervals.

### Concurrency primitives (`lab0`)

A counting semaphore from an atomic counter and a channel, the merging of
channels with and without cancellation, a queue with and without a lock, and a
fetcher with bounded parallelism. Hard: a `Post` between a `Wait`'s decrement and
its receive; a cancelled `Wait`; cancellation during a send.

### Video recommendation (`lab1/video_rec_service`)

`GetTopVideos` asks the user service and the video service in batches, ranks, and
falls back to a cache of trending videos that a goroutine refreshes. Hard: the
cache read while it is refreshed; batches of which one fails; counters of errors
and requests that must agree.

`PROJECT.json` lists every component with its sources, and every hazard at the
line where it bites.

## 2. The Raft model

`Raft.tla` has one action for each critical section under `rf.mu`:

| Code | Model |
|---|---|
| `ticker`, election timer | `Campaign`, `LeaderTick` |
| `ticker`, heartbeat timer | `HeartbeatTick` |
| `RequestVote` | `RequestVote` (`upToDate`, `canVote`) |
| `conductElection`, reply | `StepDownOnVote`, `CountVote`, `DropVoteCall` |
| `Start` | `Start` |
| `AppendEntries` | `RefuseAppend`, `AppendEntries` (`prevMatches`, `Merge`, `learnCommit`) |
| `respAppendEntries` | `StaleAppendReply`, `StepDownOnAppend`, `AppendSucceeded`, `AppendFailed` |
| `handleAppendEntries` | `LoseAppendCall`, `DeferredPersist` |
| `applyEntries` | `Apply` |
| `crash1`, `start1`, `readPersist` | `CrashRestart` |
| `labrpc` `processReq` | the phases of a call; `DropVoteCall`, `LoseAppendCall`, `Orphan` |

What to know when reading it:

* `log[s]` leaves out the dummy entry at index 0. `log[0].Index` is always 0, so
  the branch at `raft.go:213` is never taken and has no counterpart.
* A call is one record from send to return. Vote calls form a set, append calls a
  bag, because a leader may have equal heartbeats under way. `labrpc` never
  duplicates. With two crashes of one peer, equal vote requests of its two
  instances would be merged; the runs have at most one crash.
* `persistDue` counts the goroutines that left `respAppendEntries` and have not
  reached the `persist()` that `handleAppendEntries` deferred: the lock is free in
  between.
* A pending tick of a timer that was reset meanwhile needs no state: `Campaign`
  is enabled whenever the timer is armed, and `LeaderTick` may stutter.
* `Apply` takes the entries and sends them in one step. The order of what the
  service reads is the order of `applyEntries`, a single goroutine, so the model
  keeps what the properties need: which entry was delivered at which index.
* `ballots` and `delivered` are history variables; no action reads them.

**Bounds.** `MaxTerm`, `MaxLog`, `MaxCalls` (append calls of one leadership under
way), `MaxDue` (late saves a leader may owe when it sends) and `MaxCrashes`
appear in guards. They stop the model where the program goes on, so no run checks
deadlock.

## 3. What is checked

`MCRaft` instantiates the model with three peers and directs the search:
`Campaigners` says who may become candidate in which term and `Links` which
peers' replies arrive. Three reductions keep the runs small:

* `NoCrashView` forgets the disk and calls that can change nothing any more.
  Without crashes nothing reads the disk, so states that agree otherwise have the
  same futures.
* `Productive` leaves out steps that only lose a call or disarm a timer. A lost
  call then behaves like one that never arrives, except that it keeps its place
  under `MaxCalls`: a restriction of the search, not an equivalence.
* `Symmetry` and `SwapS1S2` permute peers that the instance treats alike. The
  runs that check liveness use none of these.

| Run | Instance | Shows |
|---|---|---|
| `elections` | everyone campaigns in 2 terms, no log | `OneVotePerTerm`, `ElectionSafety` |
| `rivals` | 2 candidates, 2 terms, 1 entry | `LeaderAppendOnly` |
| `pipeline` | 1 term, 2 entries, 3 calls under way | `CommittedOnMajority` |
| `figure8` | s1 and s2 lead in turns through s3, 4 terms, 1 entry | `StateMachineSafety`, `LeaderCompleteness` |
| `replication` | from conflicting logs in term 3, a fourth term, 2 entries | `LogMatching`, `LeaderIndicesInLog`, `CommittedPrefixStable` |
| `crash` | 2 candidates, 2 terms, 1 crash at any point | `TypeOK`, `UnsavedIsOwn`, `StoredTermMonotonic` |
| `live` | from conflicting logs in term 3, elections over, fair | `LeaderLogReachesAll` |

Why these bounds are enough for the cases in question: a second vote needs two
candidates of one term and a delayed request of an older one; a stale vote needs
two terms; a stale acknowledgement needs two calls to one follower and a third
to make the follower's log longer; an entry of an earlier term replaced after it
reached a majority needs four terms.

`MCRaftThird` starts in the third term, after two changes of leader, so that a
repair of conflicting logs is within reach. Its initial state is one that TLC
reaches from `Init` in 31 steps: s3 leads term 1 and keeps an entry to itself, s2
leads term 2 and commits another with s1, s1 is elected in term 3.

**Fairness** (`LeaderFairness`, run `live`). The leader's heartbeat timer, the
late saves and the appliers run (weak fairness): each is a goroutine that only
needs the lock. The network serves some of infinitely many calls between two
peers and brings back some of infinitely many replies (strong fairness):
between connected peers an unreliable `labrpc` drops each with probability one
in ten. Elections are not fair. `live`
assumes that they have ceased, which is when Raft promises progress, so its
statement is about repair and not about leader election.

### Disagreements with what the repository says

Four runs expect a violation.

* `two_leaders`: a granted vote and a candidate's own term are not saved when
  they change (`raft.go:374`, `528`). A peer votes, restarts and votes again;
  one term has two leaders, which `checkOneLeader` in `config.go` rejects.
* `lost_commit`: `Start` saves before it appends (`raft.go:478`). The leader
  counts itself for an entry it forgets in a crash, and another entry is applied
  at the same index, which `checkLogs` rejects.
* `stale_match`: `conductElection` resets `nextIndex` and not `matchIndex`
  (`raft.go:411`). A peer that leads for the second time counts what a follower
  acknowledged the first time: a reply that no longer fits `nextIndex` skips the
  guard at `raft.go:111`, and the majority is counted for the old `matchIndex`.
  `MCRaftStale` guides the search to a behaviour of three peers, six terms and
  three entries in which two peers apply different entries; the guidance only
  removes steps. Of the same origin is a panic at `raft.go:122`, when the old
  `matchIndex` is past a log that was cut since: `AppendSucceeded` has no step
  there. In `figure8` a log has one entry, and neither can happen.
* `stuck_timer`: an election timer that fires at a leader is not re-armed
  (`raft.go:527`). A leader that then steps down through a refused `RequestVote`
  has no timer until an `AppendEntries` or a vote it grants re-arms it, against
  the comment on `ticker`.

## 4. What is proved

All theorems hold for every finite set of peers, every set of commands and all
bounds. The only assumptions are `ServersFinite` (finitely many peers, and `None`
is not one) and `BoundsNat`.

| Theorem | Statement |
|---|---|
| `TypeCorrect` (`RaftTypeProofs`) | `CrashSpec => []TypeOK` |
| `VotesUnique` (`RaftElectionProofs`) | `Spec => []OneVotePerTerm` |
| `LeadersUnique` (`RaftElectionProofs`) | `Spec => []ElectionSafety` |
| `LeadersAppendOnly` (`RaftElectionProofs`) | `Spec => LeaderAppendOnly` |
| `OnlyOwnUnsaved` (`RaftStoreProofs`) | `CrashSpec => []UnsavedIsOwn` |
| `StoredTermGrows` (`RaftStoreProofs`) | `CrashSpec => StoredTermMonotonic` |

**Types.** `TypeOK` is not inductive: `prevIndex` is `nextIndex - 1`, a natural
number only because the `nextIndex` of a leader is positive. `TypeInv` adds that.

**Elections.** `ElectionInv` relates four things: what a peer's `votedFor` says,
what `ballots` records, what a candidate has counted, and what calls in the
network claim. A vote on record is for the present or a past term, and for
`votedFor` in the present one, so a new vote never meets another of its term. A
granted reply whose term is not newer than its call stands for a vote on record;
the condition matters, because `RequestVote` may grant a request of an older
term, and then replies with its newer term and the caller steps down instead of
counting. Counted votes are therefore on record, leaders have majorities on
record, and two majorities share a voter. For `LeaderAppendOnly` the invariant
also says that every append call comes from a peer elected in the call's term:
one of a leader's own term would come from the leader itself, and no peer calls
itself. TLC checked a bounded form of `ElectionInv` on a small instance before
it was proved.

**The store.** After a crash a peer may vote twice, so of the election invariant
only the record of votes survives. `StoreInv` keeps it and adds that the stored
term is not ahead of the peer's, that the stored log is a prefix of the peer's
log, and that what is missing was appended by the peer in a term it was elected
in. `AppendEntries` saves last, which restores equality; `Start` saves first,
which leaves one entry of its own; all other saves store the present log.

**Only model-checked.** `LeaderLogReachesAll` is liveness. `StateMachineSafety`,
`LeaderCompleteness`, `CommittedOnMajority`, `CommittedPrefixStable` and
`LeaderIndicesInLog` hold within the bounds of their runs. The first is false
beyond them, as `stale_match` shows, and with it what rests on counting
`matchIndex`. `LogMatching` is not yet proved.

## 5. What is not modelled

`labgob`, generated protocol buffers, `det_bcrypt`, logging, command-line tools
and test fixtures: encoding and I/O without state that a property here would be
about. In Raft, `hasCommittedChan` and the lock held across its send, snapshots
(the code has none) and `GetState`. The other labs, until the plan below reaches
them.

## 6. Plan

In this order.

1. **Raft** (done): module, runs, type, election and store theorems.
2. **ShardMap**: `Update`, `MakeListener`, listener loop, `Close`, `Shutdown` of
   servers and of the file watcher; absence of deadlock, updates noticed.
3. **KvServer** composed with ShardMap: migration, `Get`, `Set`, `Delete`, TTL,
   `GetShardContents`; two to three servers, one shard that moves, two values. An
   abstract register for each key as what the store promises; runs that show
   where migration keeps it and where it does not.
4. **KvClient** and **ClientPool**: fail-over and fan-out over KvServer.
5. **Checker**: its verdicts against a definition of regular reads, over all
   small histories.
6. **Semaphore**, **MergeChannels**, **ParallelFetcher**, **Queue**: each with an
   abstract specification it should implement.
7. **VideoRec**: the trending cache with its refresher, `GetTopVideos` with
   failures of each call; statistics against what happened.
8. **Applier**: `hasCommittedChan`, `applyCh` and the lock, with a small channel.
9. **ReplicatedLog**: an abstract log that Raft implements as far as it does.
10. **Proofs**: `LogMatching` for any number of peers; invariants of ShardMap,
    Semaphore and KvServer; refinement steps of the abstract specifications.
