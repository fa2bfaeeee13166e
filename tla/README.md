# A TLA+ verification of coinkit

coinkit is a small cryptocurrency in Go. Its nodes agree on one block after the
other with the Stellar Consensus Protocol, exchange signed messages over TCP, and
apply the payments of every block to a map of accounts. This directory holds TLA+
modules translated from that code, the TLC configurations that check them on small
instances, and TLAPS proofs of the properties that carry the rest.

`PROJECT.json` maps every definition to the lines it models and lists the runs,
the mutants, the hazards and the theorems. File names below are relative to `src/`.

## 1. The system

```
client --InfoMessage/TransactionMessage--> Server --Request--> processing goroutine
peers  <--- signed messages over TCP ----> Server                    |
                                                                    Node
                                           Chain (slots) ------------+------- OperationQueue
                                             |                                 |
                                           Block (one slot)                  AccountMap
                                             |-- NominationState             Database (blocks)
                                             '-- BallotState
```

| Component | State | Operations | What makes it correct |
|---|---|---|---|
| Quorum slices, `consensus/quorum.go` | none (k-of-n slices) | `BlockedBy`, `SatisfiedWith`, `MeetsQuorum` | the search finds a quorum exactly when there is one; quorums meet blocking sets |
| Ballot messages, `consensus/ballot_message.go`, `range.go` | none | what a message implies, `Compare` | what is said later compares as newer |
| Ballot state, `consensus/ballot_state.go` | `phase`, `b`, `p`, `pPrime`, `cn`, `hn`, `z`, `M`, `stale` | `Handle`, four `Maybe...` methods, `GoToNextBallot`, `CheckIfStale`, `AssertValid` | agreement; no `Fatal`; votes are not contradicted; `Handle` returns; nodes converge |
| Nomination, `consensus/nomination_state.go` | `X`, `Y`, `Z`, `N`, `priority`, `received` | `Handle`, `MaybeNominateNewValue`, `MaybeAdvance` | it is federated voting; the nodes settle on the same values; accepted values were validated |
| Block, `consensus/block.go` | both states, `external` | `Handle`, `OutgoingMessages`, `ValueStoreUpdated` | one value per slot |
| Chain and Node, `consensus/chain.go`, `network/node.go` | `current`, `history`, slots | `Handle`, `AlreadyExternalized`, restart | one chain; memory and database agree; laggards catch up |
| Operation queue, `currency/operation_queue.go` | pool of operations, `chunks`, `oldChunks`, `slot` | `Add`, `HandleTransactionMessage`, `NewChunk`, `Combine`, `Finalize` | what is proposed can be finalized; no panic |
| Accounts, `currency/account_map.go` | balances and sequence numbers | `Validate`, `Process`, chunks | no money is made; no operation is applied twice |
| Database, `data/` | the blocks table, documents | `InsertBlock`, `ForBlocks` | no gap, no repetition |
| Server, `network/server.go` | channels `outgoing`, `inbox`, `requests`, `currentBlock`, `quit` | goroutines for processing, listening, broadcasting, one per connection | nobody waits forever; `Stop` stops |
| Connections, `network/*_connection.go` | outboxes, `conn`, `closed` | redial, keepalive, close | closed connections stay closed |
| Configuration, keys, encoding, command line | none after start-up | parsing, signing | out of scope |

**Interaction.** A single goroutine per server owns the `Node`. For each message it
calls `Node.Handle`, then `Node.OutgoingMessages`, and leaves the result in the
`outgoing` channel, where a newer batch replaces an older one. A broadcaster sends
what changed, and every `RebroadcastInterval` everything again. Votes and the chunks
voted on travel separately. A node that is behind is answered with a
`HistoryMessage` (the `ExternalizeMessage` and the chunk of an old slot).

**What is hard.** Messages are lost (superseded, or dropped by a full outbox), late
and repeated, so a node acts on outdated knowledge of its peers. The ballot state has
nine fields that must stay consistent over long call sequences. The vote on a value
can end before its chunk arrives. Only finalized blocks survive a restart. Server
goroutines meet on unbuffered channels. `PROJECT.json` lists the hazards one by one
with the line where each bites.

## 2. Modules

| Module | Models | Kind |
|---|---|---|
| `QuorumSlices` | `quorum.go`, slices and `MeetsQuorum` as operators | operators |
| `QuorumSearch` | the passes of `MeetsQuorum` | state machine, proved |
| `NetworkConfig` | the slice and the threshold of a configured network | operators, proved |
| `BallotMessages` | messages and what they imply, `Compare` | operators |
| `BallotState` | every method of `BallotState` as a function from state to state | operators |
| `BallotNode` | one node, its methods called in any order, peers that send anything | state machine, proved |
| `Balloting` | the ballots of one slot on a network, `Handle` as one step | state machine, proved |
| `FederatedVoting` | the abstract protocol behind both phases | abstract specification, proved |
| `NominationState` | every method of `NominationState` | operators |
| `Nomination` | the nomination of one slot on a network | state machine, proved, implements `FederatedVoting` |
| `Chain` | slots, chunks, history, restarts, the blocks table | state machine, proved, implements `ReplicatedLog` |
| `ReplicatedLog` | what the databases promise: one value per slot, logs that only grow | abstract specification |
| `AccountMap` | accounts, operations, chunks with wrapping arithmetic | operators, proved |
| `OperationQueue` | every method of `OperationQueue` that changes it | operators |
| `Ledger` | the queues of a network: operations are pooled, shared, chunked, applied | state machine, proved |
| `RedialConnection` | the goroutine of a connection to a peer, and `Close` | state machine (part) |
| `Server` | all goroutines of a server and their channels, `Stop` | state machine, proved |
| `MC...` | instances for TLC | |
| `...Proofs` | theorems and proofs; `FederatedVotingProofs` also has those about `NetworkConfig`, `LedgerProofs` and `LedgerChunkProofs` those about `AccountMap` and `OperationQueue`, `ChainProofs` those about `QuorumSearch` | |

`QuorumSlices` is at the bottom: `BallotState`, `NominationState`, `FederatedVoting`,
`Chain` and `Ledger` extend it (through `BallotMessages` where messages are needed). `Balloting`
and `BallotNode` share `BallotState`, and `BallotingProofs` extends `BallotNodeProofs`:
what is proved of each method there is put together to the handlers of the network. `Nomination` instantiates `FederatedVoting` with the
refinement mapping `voted <- X`, `accepted <- Y`, `confirmed <- Z`, `heard <- N`, and
`Chain` instantiates `ReplicatedLog` with `chosen <- Chosen`, the value a quorum voted
for, and `log <- db`. `Ledger`
composes `OperationQueue`, which extends `AccountMap`, with an abstract vote, and
`Server` composes the goroutines of a server with `RedialConnection`.

**How state and actions correspond.**

- The fields of a `BallotState` record are the Go fields; `NoBallot` is a nil ballot,
  the number 0 a missing range, `Nil` a missing message. `fatal` is set where the code
  calls `Logger.Fatal`. A `Maybe...` method is an operator on the record.
- One step of `Balloting` or `Nomination` is `Server.unsafeProcessMessage` for one
  message: `Block.Handle`, `AssertValid`, `OutgoingMessages`. `sent[n]` has the last
  `Backlog` messages of `n`. Any of them may be processed at any time, any number of
  times, and a message that was replaced is lost.
- In `Balloting` the nomination is the environment: `PredictValue` gives any value
  whenever it is asked. That includes everything a real nomination can do.
- `FederatedVoting` leaves open what a node votes for (`MayVote`): any statement that does
  not contradict its own votes. Which ones, is up to the phase that uses it.
- A call of `Handle` that never returns puts its node in `stuck`.
- In `Nomination` the value store is the environment: `valid[n]` grows as chunks arrive.
  `SuggestValue` only gives what the node can make of its own operations (`Own[n]`), not
  what it knows from the chunk of a peer.
- In `Chain` the vote on a slot is abstracted to a quorum (`Vote`): its members had the
  chunk when they nominated the value (`AcceptedWasValidated`), and none of them stands
  for the commit of two values (`AcceptedCommitsAgree`), except those who have restarted
  within the slot (`forgot`): they may have voted for anything, once for each value. That
  a slot gets only one value is not part of the model but shown. Blocks keep the first
  `ExternalizeMessage` of each peer, and a quorum of them that blocks a node finishes it
  (`CatchesUp` of `Balloting`). Finalizing and saving are one step: until `InsertBlock`
  returns nothing has been sent, so a stop in between is a stop before both.
- `Restart` in `Balloting`, `Chain` and `Ledger` is `NewNodeWithMint`: what the database
  has is loaded, everything else is forgotten. In `Balloting` that is every vote of the
  slot, also of one that is externalized and not yet finalized, while the peers keep the
  messages they have. `db` is the table, a function from
  slots to chunks; a second insert for a slot, or a gap when it is loaded, puts the node
  in `failed`.
- `Process` reads both accounts and then writes both, the target last.
- An `OperationQueue` is a record of its Go fields. The set is ordered by
  `HighestFeeFirst` whenever it is read. The key of a chunk is its hash; here a chunk
  stands for its own key. `failed` is set where the code panics. `HandleTransactionMessage`
  adds at most one operation of a message, because `updated || q.Add(op)` does not
  call `Add` once something was added.
- `Ledger` calls the `ValueStore` methods as the vote does: `SuggestValue` when nothing
  is nominated, `ValidateValue` for what a peer nominates, `Combine` on what was
  nominated, `Finalize` on what a quorum had the chunk of. Which value that is, is
  arbitrary and the same for all (`Decidable`): the agreement that `Balloting` and `Chain`
  are about is taken as given here.
- In `Server`, `pc` of a handler is where `handleConnection` is: idle, sending a request
  on the unbuffered channel, waiting for the response with a timer, about to read
  `currentBlock`, waiting for that channel, done. The node is abstracted to three
  choices: whether a message ends the slot, changes what there is to say, and is
  answered. `want` counts the slots that must still end before an `InfoMessage` is
  answered, so slots need no bound. `Plain` is a message that is answered at once, `Blank`
  an `InfoMessage` with neither account nor slot, which never is. `outgoing` and `last` hold, for each batch, whether
  it is what the node has to say now. The unlocked read of `currentBlock` may see the
  channel of before or of after a concurrent write.
- `Close` of a `RedialConnection` has three steps, and any step of `runOutgoing` may come
  between them. A dial may take for ever, succeed, or fail, and then `quit` is looked at.

## 3. What the runs check

Every run passes except the two that document a disagreement (section 4). Each
property has a mutant in `PROJECT.json`: a plausible slip in the code that makes TLC
report it. (In the modules these are the definitions marked "Variant".)

TLC explores between about 800 and 1.1 million distinct states per run, in under four
minutes each.

| Run | Instance | Shows |
|---|---|---|
| `QuorumSearch` | six nodes, a clique and a tail, all 64 starting sets | `MeetsQuorum` returns, and true exactly for sets with a quorum (`FindsQuorum`, `Returns`) |
| `BallotNode` | one node, one arbitrary peer, two ballot numbers, two values | the inductive invariant `NodeInv`, with it that there is no `Fatal`; no call takes back what the node said (`PromisesKept`) |
| `BallotingTwoRounds` | three nodes, 2-of-3, two values, ballots 1 and 2 | accepted commits agree, no `Fatal`, `Handle` returns, a node behind a blocking quorum of externalized peers has externalized too, `Compare` orders what a node sends |
| `BallotingUnanimous` | two nodes that need each other, four ballots, two messages in flight, one restart, fairness | agreement over a restart, also of a node that is done, no ballot for the empty value, convergence whenever all ballots are for one value |
| `FederatedVoting` | three nodes, two contradictory statements | the invariants that the theorems establish in general |
| `NominationSafe` | three nodes, one of them a follower, two values learned at any time, two messages in flight | no duplicates, knowledge grows, accepted values were validated by a quorum |
| `NominationFederated` | the same nodes, the follower has every chunk first and no operations, fairness | nomination implements `FederatedVoting`, and the nodes settle on the values a quorum votes for; only a vote that came before its chunk keeps a value from being one of them |
| `Chain` | two nodes that need each other and a follower, two slots, two values, a restart in each slot, fairness | memory is the database, the databases implement `ReplicatedLog`, decided chunks stay available, nodes advance unless they wait for a chunk or for too many who do |
| `Ledger` | two nodes that need each other, three owners, four operations, a pool of two, chunks of three, one restart, fairness | what is decided can be finalized (`NeverFails`), accounts agree, the pool stays valid, sequence numbers count what was signed, money is conserved up to fees, only the worst operation is evicted, what a node pools and puts in chunks reaches its peers |
| `Server` | two clients, or a client and a peer; requests up to two slots ahead, an outbox of one, an outgoing channel of two, fairness | a running timer is for the request in process, the outgoing channel is never full, nothing is sent on a nil connection, `InfoMessage`s that have an answer get it, the latest messages get out, `Stop` stops |
| `WatchChunks` | as `Ledger`, with two operations of one signer and sequence number | disagreement, see section 4 |
| `WatchRestart` | three nodes, 2-of-3, one ballot, one restart | disagreement, see section 4 |

**Bounds, and why they are enough.** Three nodes are the fewest with a quorum smaller
than the network, a node outside it, and a blocking set that is not a quorum. Two
values are the fewest that can be confused. Two ballots let a value be prepared,
abandoned and replaced; `BallotingUnanimous` goes to four, for values that are
abandoned and taken up again. `MaxBallot` disables steps that need a higher number.
`Backlog` is how many messages can still arrive; 1 already loses every superseded
message, 2 adds reordering. `StaleLimit` is the constant of `CheckIfStale`. In `Chain`,
a restart in a slot can hit any node at any moment; with two, all who voted can forget
their votes and the chunk before anyone has saved it, and `ImplementsLog` and
`ChunkAvailable` fail, which is the limit of storing only finalized blocks.

In `Ledger` four operations exceed the pool of two, so that eviction happens, and a chunk
can combine the pools of both nodes. In the code `QueueLimit` (1000) is above
`MaxChunkSize` (100); in the instance it is below, because a pool larger than a chunk is
the panic of section 4, and eviction needs a full pool. One operation spends what another one brings, by an
owner without an account. The slots are not bounded: operations run out. Operations are
to other owners, with sums that stay in range and different sequence numbers per signer;
section 4 says what happens otherwise. In `Server` a client and a peer, or two clients,
are the fewest that get in each other's way; `want` up to two lets a slot end that is not
the one asked for. The theorems about `Server`, `Chain` and `Ledger` have no such bounds.

Deadlock is not checked in the ballot runs, where `MaxBallot` ends behaviours, in
`QuorumSearch`, where the call returns, in `Ledger`, where operations run out, and in
`Server`, where the process may end.

**Fairness, and why the code justifies it.** `broadcastIntermittently` sends the latest
messages of a node again every `RebroadcastInterval`, for ever. So a latest message
that would tell a peer something does not wait for ever: `[]<>~Waiting(n, node)` in
`Balloting` and `Nomination`, `[]<>~MessageWaits(n, k)` in `Ledger`, weak fairness of the
receiving actions in `Chain`. After a restart the repeated message is one the peer has
already, and it still counts for `CheckIfStale` (`DuplicateWaiting`). Nothing is assumed
about superseded messages, nor about who is heard first. `Balloting` also assumes that
nomination gives every node a value. That is an assumption and not a result: a node that
hears votes before their chunks may never get one (section 4). `Nomination` assumes
that each node receives as many messages, blank ones included, as its turn waits for.
`Chain` assumes that some operation exists for each slot and that the vote on it ends
when it can. `Ledger` assumes nothing of votes and of clients, only that messages
arrive, and so has no property by which every operation is applied in the end: with one
that came too late for a chunk, or that never becomes the best of a full pool, none
holds. In `Chain` a history answer is
fair only for a node that still sends something other than an `ExternalizeMessage`,
because nothing else is answered.

In `Server` a goroutine that can go on does. Strong fairness stands for two promises of
Go: who waits to send on a channel is served in order (`TakeRequest`), and `select`
chooses at random between the alternatives that are ready (`ReceiveOutgoing`, and the
`quit` alternatives of a handler, `Ends`). A read fails in the end because of the deadline
of `runIncoming`, unless the reader waits to hand a message to a processing goroutine that
hangs for good (`basic_connection.go:76`, `Departed`).
Nothing is assumed of clients, of dialling, or of anyone calling `Stop`.

## 4. Where the code and its documentation disagree

- `WatchRestart`: a node that restarts in the middle of a slot loads finalized blocks
  only (`network/node.go:39`) and has forgotten its votes. In a 2-of-3 network it can
  then help a second value to a quorum, and two nodes externalize different values. The
  tests say of that "this cannot be" (`consensus/chain_test.go:54`); the one that
  restarts a node (`network/node_test.go:99`) does so between slots. Where every quorum
  has all nodes, agreement holds over a restart (`BallotingUnanimous`). What the
  databases then hold is the subject of `Chain`: they stay one log where any two quorums
  share more nodes than restart within a slot (`ChainImplementsLog`). A configuration file may hold any
  threshold. With the one `NewLocalhostNetwork` computes, two quorums of 3k+1 nodes have
  k+1 nodes in common (`QuorumsShareAThird`), so it takes more than k restarts within a
  slot to leave them without a common node that remembers its votes (`ConfiguredChain`).
- `WatchChunks`: `NewChunk` works out which operations are valid after each other, and
  puts all of them in the chunk (`currency/operation_queue.go:260`). With two operations
  of one signer and sequence number in a pool, the chunk that is voted on does not
  validate, and `Finalize` panics on every node. The comment says 'Returns "", nil if
  there were no valid transactions.' (`operation_queue.go:229`). By the theorem
  `TransfersIndependent` only operations of one signer can do that.

Others were met while modelling and have no run of their own:

- a vote for a value whose chunk is not there yet is stored and not looked at again when
  the chunk comes (`nomination_state.go:242`, `block.go:90`). Two nodes that hear each
  other's votes before the chunks stay with one value each, and nomination confirms none.
  `NominationConverges` says that only this keeps a quorum from a common value.
  Balloting can still start, from what a node nominated itself (`PredictValue` with an
  empty `Z`);
- a block that is done without its chunk sends only an `ExternalizeMessage`, which peers
  that are ahead do not answer (`consensus/chain.go:69`), and peers share the chunks of
  their current slot only. The node stays behind, against "The last node should be able
  to catch up" (`network/node_test.go:85`). `AdvancesOrWaits` says exactly who may stay
  behind;
- in the Confirm phase `GoToNextBallot` (`consensus/ballot_state.go:419`) takes a nominated
  value when `z` is nil, which it is if the commit was accepted through a blocking set for
  the value the ballot already had. The node then stands for a commit that nobody made,
  against "The value that we are accepting a commit for"
  (`consensus/ballot_message.go:249`). It needs slices that differ, or a threshold at
  which a blocking set and the node are not a quorum. With such slices `cn` also stays 0
  in the Confirm phase when the range is first widened (`ballot_state.go:361`), `Handle`
  then need not return, because the bumped ballot stays blocked (`ballot_state.go:621`),
  and two `ConfirmMessage`s that differ only in `Cn` compare as equal
  (`ballot_message.go:392`). A network configuration gives all nodes the same slice
  (`network/config.go:59`);
- a node goes on supporting values after it has a candidate, against the comment at
  `nomination_state.go:240`;
- a value that a node accepts through a blocking set may have a chunk it does not know,
  and `Combine` then ends the process (`operation_queue.go:277`). That a quorum has the
  chunk is `AcceptedWasValidated`;
- when an operation is sent to its own signer, the second `Set` of `Process`
  (`currency/account_map.go:125`) restores the old sequence number, so the operation
  stays valid; and `Amount + Fee` wraps at 2^64 (`account_map.go:85`). The instances
  exclude both, and so do the theorems about sequence numbers and money, in their
  hypotheses `ToOthers` and `CostsFit`;
- a pool larger than `MaxChunkSize` is put in a chunk as a whole, which `ProcessChunk`
  refuses, and `NewChunk` dereferences a nil account when it looks at an operation that
  it cannot process and whose target has no account. Both have the cause of
  `WatchChunks`;
- `break` leaves the `select` and not the loop in `processMessagesForever` and
  `broadcastIntermittently` (`network/server.go:270`, `:340`): after `Stop` both
  goroutines spin. When a handler leaves because of `quit` while its request is being
  processed, nobody takes the response, and a handler that is about to make a request
  waits for ever (`server.go:260`, `:156`). `StopEndsConnections` allows this case and says
  that no other handler stays. A connection that is dialled while `Close` runs is closed
  by nobody but its read deadline (`redial_connection.go:109`); `StopClosesPeers` counts
  that as closed, unless the processing goroutine hangs and the deadline is not reached;
- an `InfoMessage` may be answered a slot late (`server.go:182`, see `InfoAnswered`).

## 5. What is proved

The proofs hold for every set of nodes, clients, peers, values and operations, every
assignment of slices, every capacity, every number of ballots, messages in flight and
restarts. The assumptions are the named `ASSUME`s (`SliceAssumption`, `ChainAssumption`,
`ServerAssumption` and the like), which give the constants their types and tell `Nil` from
messages and accounts, and which TLC evaluates in the runs. A theorem that needs more of
the network says so in its statement.

**Ballots.**

- **`BallotNodeProofs`**. `NeverFatal` is not inductive: the `Fatal`s guard relations
  between fields that other calls establish. `StateInv` adds what they need: the order of
  `p` and `p'`, that there is a ballot once anything is confirmed as prepared, that what
  is confirmed was accepted, that a vote to commit is for the value later ballots will
  have and has not been aborted, that ballot numbers grow. One lemma per method shows
  that it keeps `StateInv` and `Keeps`, what a call may not take back; the theorems are
  `NodeInvariance`, `FatalUnreachable` and the action property `NothingTakenBack`. The
  calls come in any order with any arguments and the peers send anything.

  Its second part is about the order of messages. `Compare` looks at numbers only, not at
  values and not at the bottom of the range, so a change that a message shows must raise
  the first of these numbers that it changes. `Follows` says where the calls of a step may
  lead: to a later phase, to what the node says already, or, in the Prepare phase, to
  numbers that rise (`Rises`). It is transitive (`FollowsTransitive`), and there is one
  lemma per method. The Confirm phase needs a condition on slices, `BlockersAreQuorums`:
  a commit accepted through a blocking set is then confirmed in the same call, so that a
  node stays in the phase only with a range that it voted for, and never changes its
  `ConfirmMessage` (`Settled`).

  Its third part is about votes. Agreement needs an invariant about what all nodes have said.
  A node has said the messages of it that may still arrive or that a peer has stored,
  and would now say the message of its state (`Said`, `Current`). `Protected` says that,
  but for some nodes that forgot, one of two things holds. `Undecided`: no commit has
  been accepted, nobody has taken back a vote, and every ballot whose abort anybody
  accepted is refused by a quorum, whose members have not voted to commit it and never
  will. Or `Decided`: there is a ballot for which a quorum voted to commit and is
  locked, nobody has accepted its abort or the commit of another value, and every lower
  ballot of another value is refused by a quorum. A node accepts what somebody accepted
  before or what a quorum votes for (`PrepareSupport`, `CommitSupport`): as two quorums
  share a node that remembers its votes, the first accepted commit decides
  (`FirstCommitDecides`), and a decision stays (`DecidedKept`). One lemma per method
  shows that a call keeps the votes of all nodes `Protected` (`Secure`).
- **`BallotingProofs`**. Handlers are put together from the methods. The loops of `Handle`
  are recursive functions; an induction over their index (`SetInduction`, `Walk`, `Stays`)
  shows that what each round keeps, the loop keeps. `NetInv` gives `TypeCorrect` and
  `NoAssertionFails` in any network, with any slices.

  `AgreeInv` says that the votes are `Protected`, but for at most as many nodes as there
  were restarts (`VotesBind`), that a node goes on with the value it has accepted a commit
  for, and that who votes to commit has accepted the abort of every other value up to
  there (`Sound`). From it follow `CommitsAgree`, `NodesAgree` and, for configured
  networks, `MajoritiesAgree`.

  The first hypothesis, `QuorumsOverlap`, says that any two quorums share more nodes than
  restart within the slot; `WatchRestart` shows what happens without it. The second,
  `BlockersDecide`, says that the sets of peers that block a node make a quorum with it
  and meet. It is there because of what section 4 says of `z`: a node that accepts a
  commit through a blocking set, for the value its ballot has already, may go on with
  another value unless it externalizes at once. A simple majority of `N` nodes meets it
  (`2T <= N + 2`), among them three nodes with threshold 2 and the four with threshold 3
  of `NewLocalhostNetwork`; five of seven does not. `BallotingTwoRounds` and
  `BallotingUnanimous` are instances of both hypotheses.

  `OrderInv` says that the latest message of a node is the one its state makes, and that
  the state is `Settled`. `FinishOrder` gives from it that a step which sends sends
  something newer: `MessagesInOrder`, and `ConfiguredMessagesInOrder` for the same
  majorities. Both ask for `MaxRestarts = 0`: a node that restarts begins again with
  ballot 1, and its receivers skip what it says until it has caught up with itself.

**Nomination and voting.**

- **`FederatedVotingProofs`**. `VotingInv` says that what is heard is true of the sender,
  that votes are consistent, that a voting quorum stands behind everything accepted, and
  an accepting quorum behind everything confirmed. Acceptance through a blocking set is
  the case that needs it: a blocking set has a member, and the member's quorum is taken
  over (`BlockingSetNonempty`, `AcceptKeeps`). `AcceptancesAgree` then follows from
  quorum intersection: a common member would have voted for contradictory statements.

  Then what the threshold of `NewLocalhostNetwork` (`network/config.go:97`) guarantees in
  a network of any size, by counting. It is the least number above two thirds of the
  nodes, and `MakeTestQuorumSlice` computes the same one (`ThresholdsAgree`). Any two
  quorums have more than a third of all nodes in common (`QuorumsShareAThird`), the nodes
  left when fewer than a third are down are still a quorum (`QuorumWithoutAThird`), and so
  the condition of `AcceptancesAgree` is met (`LocalhostNodesAgree`).
- **`NominationProofs`**. `Handle` looks at the lengths of lists only, so `KnowledgeGrows`
  rests on lists that are extended at the end and on messages that are older states of
  them. `NominationInv` says that: whatever a node sent, and whatever a peer has from it, is
  a prefix of what it has now (`Told`), the lists have no duplicates, and what a node votes
  for it could validate. The loops over a message are shown to keep it by induction over
  their index (`LoopExists`, `LoopKeeps`). The theorems are `TypeCorrect`, `NoDupesEver`,
  `NothingUnlearned` and `NominationIsFederatedVoting`, the refinement of `FederatedVoting`:
  a message is a `Process` step whose acceptances and confirmations the rules of
  `MaybeAdvance` justify. Through it the theorems of `FederatedVotingProofs` become theorems
  about nomination: `AcceptanceIsValidated` and `ConfirmationIsShared`.

**The chain and the ledger.**

- **`ChainProofs`**. `ChainIsSaved` alone is not inductive: that `ForBlocks` meets no gap
  after a restart, and that a node that catches up gets the block it lacks, needs the
  chains to follow the votes. `ChainInv` says that nothing has failed, that the database is
  the chain in memory, and that every value in it, in the current block or in an
  `ExternalizeMessage` was voted for by a quorum. `NextStep` has one case per action; for
  a message, the value it externalizes has been voted for (`ExternalsDecided`), and
  finalizing it appends to both chains (`InsertAppends`). `ChainSaved` follows for any
  quorums and any number of restarts.

  Agreement is derived from the votes. `VoteInv` says that in every slot at most
  `MaxRestarts` nodes forget, and that only they stand for the commit of two values. Under
  the hypothesis `QuorumsOverlap`, that any two quorums share more nodes than that, every
  slot is decided on one value (`VotesAgree`), which gives `DatabaseAgreement` (two
  databases never differ on a slot) and `ChainImplementsLog`, the refinement of
  `ReplicatedLog`.

  `ChunksNotLost` is `ChunkAvailable`: a node that is behind can still get the chunk of a
  decided slot. Chunks that are not finalized are only in memory, so `ChunkInv` says of
  every decided value that there is a quorum whose members, but for those who forgot,
  still have the chunk, in `OperationQueue.chunks` or in the chain. The hypothesis is the
  same. `ConfiguredChain` shows that a network with the threshold of
  `NewLocalhostNetwork` meets it when fewer than a third of the nodes restart within a
  slot: two quorums share at least `2T - N` nodes.

  Its last part is about the passes of `MeetsQuorum` (`QuorumSearch`). `SearchInv` says
  that every quorum that includes the node and lies in the starting set lies in the nodes
  still under consideration. Dropping a node
  keeps it because slices are monotone (`SatisfiedMonotone`). From it follow
  `SearchFindsQuorum`, which justifies the one-line `MeetsQuorum` of `QuorumSlices`, and,
  by counting, `SearchMeetsBlockingSets`: a quorum meets every set that blocks one of
  its members.
- **`LedgerProofs`**. For an operation that `Validate` lets through, that is to another
  owner and whose cost and new balance stay in range: `TransferConserves` (nothing wraps,
  the two balances and the fee are what they were before, other accounts do not change),
  `AppliedOnce` (no second operation of that signer and sequence number validates
  afterwards) and `TransfersIndependent` (operations of other signers stay valid).

  For any operations, `LedgerInv` says that the chunks a node has finalized are the first
  ones that were decided (`Follows`), that its accounts are what these chunks made of the
  first accounts, one `ProcessChunk` after the other and none of them refused
  (`History`), and that its pool is valid and within its limit. `FinalizeGood` adds a chunk
  to the history; `ReplayedGood` shows, by induction over the blocks table, that a restart
  arrives at the accounts the node had. Two histories of the same chunks are equal
  (`HistoryDecides`), which gives `SameSlotSameAccounts`; `PoolStaysValid` is a conjunct.
  `BestOperationsKept` needs that a finite pool has one worst operation (`WorstExists`), as
  fees and signatures order operations totally (`OperationsOrdered`).

  The module also has what `SumFunction` computes (`SumIsIteration`, `SumRemove`,
  `SumMoved`): it takes the members of a set in the order in which `CHOOSE` gives them,
  and the sum is the same for every order.
- **`LedgerChunkProofs`**. What is in the chunks. Whatever the operations are, a step
  does one of four things to the chunks of a queue (`StepMoves`): it learns chunks that a
  peer has, makes one of its pool or of chunks it has, finalizes one, or starts again. By
  that case distinction chunks have operations and accounts only (`TypeInv`), and the
  accounts of a node and the sequence of the operations it has applied are in every set of
  such pairs that has the first accounts and is closed under `Validate` and `Process`
  (`AccountsIn`). The theorems about the applied operations are each a choice of the set:

  - `AppliedInOrder` (`SequenceIsLast`), if nobody sends to themselves (`ToOthers`) and
    sequence numbers do not wrap (`Counted`);
  - `NoMoneyMadeOrLost` (`MoneyAccounted`) and `LedgerTypes` (`TypeOK`, in which balances
    are at most all the money), if nobody sends to themselves and neither the cost of an
    operation nor all the money wraps (`CostsFit`, `MoneyFits`). That the balance of a
    target does not wrap either is not supposed: it follows from the sum
    (`SolventTransfer`).

  `PanicsHaveCauses` (`NeverFails`) needs more. A node may learn a chunk that a peer made in
  another slot, from other accounts; it keeps it if it validates, and may combine it with
  others. So it is not enough that a chunk validates here: `SaneInv` says that every chunk
  that any node has, of this slot or an old one, was once made of operations of different
  signers that were each valid by itself (`Sound`). Such a chunk states the accounts of
  all who take part afterwards, and from these balances those before follow, operation by
  operation from the last (`SameAtFirst`); so where it validates, each of its operations
  is valid by itself too (`ProperElsewhere`). What a node makes a chunk of, its pool or the
  operations of chunks it has, is thus valid one by one, then also one after the other
  (`AllRun`, by `TransfersIndependent`), and the chunk can be hashed and finalized
  (`OwnChunkProper`).

  The hypothesis that decides is on states, not on what owners may ever sign: `Orderly`
  says that the operations a node has at hand, in its pool and in the chunks of its slot,
  have no two of one signer with the same sequence number, and are no more than a chunk
  has room for. The code sees to neither; `WatchChunks` shows what happens without the
  first and section 4 what happens without the second. So the theorem says that these two
  are the only causes of a panic, once every operation goes to somebody else, moves some
  money (`CostSomething`: an owner with nothing and one without an account have the same
  balance) and sums stay in range. `MCLedger` has an `ASSUME` by which TLC checks that the
  operations of the run `Ledger` satisfy the hypotheses on operations.

**The server.**

- **`ServerProofs`**. `ServerInv` relates the goroutines. For a peer, dialling is only
  given up after `quit`, which `Close` closes after it has set the flag, and the flag is
  looked at between dialling and sending: hence `NeverSendsOnNil`. A handler waits for a
  response only while its own request is in process: `TimersAreForOwnRequests`, by which
  the one-second timer measures the processing of one message. The channel is emptied by
  the goroutine that fills it, and the other one only empties it: `OutgoingNeverBlocks`,
  for any capacity.

**Only model-checked**, and why:

- all liveness (`Returns`, `Converges`, `NominationConverges`, `AdvancesOrWaits`,
  `PoolsSpread`, `InfoAnswered`, `BroadcastsLatest`, `StopEndsConnections`,
  `StopClosesPeers`), which the prover does not do;
- `HandleReturns` and `CatchesUp` of `Balloting`. They are not true of all
  slices (section 4) but depend on how the values of `z` and the ranges of all nodes move
  together in the Confirm phase, about which `AgreeInv` says only what agreement needs.

## 6. What is not modelled

- **The composition of both phases** in one state; they meet in the values that
  nomination gives, which `Balloting` leaves arbitrary. Likewise `Chain` sees
  a vote by the quorum it ends with, `Ledger` by its outcome, and `Server` sees a node by what its answer can be.
- **Slices that differ** in the ballot runs. `network/config.go` gives all nodes the same
  one (`ConfigSlice`); section 4 says what was met otherwise.
- **Inside a `BasicConnection`**: its outbox, the keepalives and the bytes. `Close` does not
  close the socket of a connection to a peer, so its reader stays until the deadline;
  in `RedialConnection` it is closed as far as the program can tell. The unsynchronized
  flags `closed` and `shutdown` are read as they were last written.
- **Clients**: `WaitToClear` and `GetAccount` (`network/connection.go`) and the command line
  programs, which call the packages above. Clients of `Server` send anything and may go
  at any time.
- The hash order of nomination turns (an arbitrary order), signatures, JSON, SQL, TCP,
  waiting for the port, the http status pages, statistics and logging.
- Documents (`data/document.go`) are rows that nothing else reads. Of a
  configuration, `NetworkConfig` has the slice and the threshold; the rest is addresses,
  ports and parsing.
