# Recs Votes Storage in TLA+

This directory holds a formal model of the votes storage service: TLA+ modules
translated from the Go code under `src/`, TLC configurations that check them on small
instances, and TLAPS proofs of the facts that matter most.

Paths below are relative to the repository; `V` stands for
`src/internal/context/voting`.

## 1. The system

A REST service (`src/cmd/app`) stores the votes users cast on each other, and counters
of these votes. A worker process (`src/cmd/message_processor`) deletes romances in the
background. They share two DynamoDB tables and two pairs of SNS topic and SQS FIFO
queue.

| Component | State | Operations | Correct when |
|---|---|---|---|
| Vote types (`V/domain/romance/valueobject/vote_type.go`, `V/application/operation/change_user_vote_operation.go`) | none | which type may replace which; the TTL class of a pair of votes | the table of transitions is applied to the vote it replaces |
| Romances repository (`V/infrastructure/persistence/romances_repository.go`) | table Romances: one item per unordered pair, with both votes, a version and a TTL | read, add, change and withdraw a vote (conditional updates), remove, enumerate peers, remove in batches | no update is lost; the TTL fits the votes; half a vote is never stored |
| Vote operations (`V/application/operation/*_user_vote_*`, `*_romance_*`) | locals of a request: romance read, retries | read, decide, write, retry on a version conflict, count | every request is answered, appears atomic, and counts what it changed |
| Counters repository (`V/infrastructure/persistence/counters_repository.go`) | table Counters: per user one row per hour (with TTL) and a lifetime row | increment four rows in one transaction; read lifetime; read hourly windows | every vote counts once on both sides; windows show the votes they cover |
| Deletion pipeline (`V/application/messaging`, `delete_romances_*_operation.go`) | messages in two FIFO queues; a channel of groups | request, enumerate peers, publish groups, delete a group | every romance of the user that existed at the request goes, sooner or later |
| Dispatcher, publisher, subscriber (`src/internal/shared/messaging`, `src/internal/shared/platform/amazon_sns`) | message in flight, registered handlers | publish, poll, dispatch, acknowledge | a message is acknowledged only when handled |
| Message processor (`src/internal/app/message_processor.go`) | listeners, shutdown | start, listen, recover from panics, close, exit | it stops when told to, attends to both topics or to none, and loses no message |
| REST interface (`V/interface/api/rest/v1`) | none | validation, one operation per route | |
| Configuration, wiring, infrastructure | none | | |

How they interact. A route handler runs one operation in its own goroutine. An operation
calls the repositories; each repository call is one DynamoDB request through the AWS
client, which resends a request that gets no answer. Nothing in memory is shared between
requests: all interaction is through the tables. A deletion request publishes one
message; the worker enumerates the user's peers, publishes one message per group, and
deletes group by group.

What is hard here:

* requests on one romance interleave at every DynamoDB call; an operation decides on a
  romance it read earlier;
* `DeleteRomance` removes the item without a condition, and the version with it;
* a request or a response may be lost and a request sent again: updates are not
  idempotent, the resend of an applied update fails its own condition;
* counters are incremented after the vote is stored, in another call, and failures are
  only logged;
* `GetHourlyCounters` reads the clock several times, and rows expire;
* messages are delivered again, or deduplicated away; batch deletes can be partial;
* an enumeration runs in a goroutine of its own over two paged queries, with a bounded
  channel to its consumer, and its errors are swallowed;
* two listeners share one subscriber, which the first of them to return closes.

`PROJECT.json` lists each hazard at its line with the properties about it.

## 2. Modules

| Module | What it is |
|---|---|
| `VoteTypes` | vote types, transition table, accepted request types, TTL class; pure operators |
| `VoteLedger` | abstract specification of the romances table: one vote per ordered pair, one atomic step per request |
| `Romances` | the Romances table and the handlers of AddUserVote, ChangeUserVote, DeleteUserVote, DeleteRomance, GetRomance and GetUserVote |
| `MCRomances` | symmetry for TLC |
| `RomancesProofs` | proofs about `Romances`: types and locking |
| `VotesProofs` | proofs about `Romances`: the stored votes, the ledger, what is counted |
| `Counters` | the Counters table, the increments, the hourly reads, the clock and the TTL |
| `MCCounters` | symmetry for TLC |
| `CountersProofs` | proofs about `Counters`: rows, and the windows read from them |
| `Voting` | `Romances` and `Counters` composed: the vote path over both tables |
| `MCVoting` | symmetry and a view for TLC |
| `FiniteSums` | lemmas about sums over finite sets |
| `VotingProofs` | proofs about `Voting`: it implements `Counters`, and conserves votes |
| `RomanceCleanup` | abstract specification of the deletion of a user's romances: a promised romance goes or is given up, and any other goes only by a counted act of its user |
| `DeletionPipeline` | DELETE /v1/romances from the request to the batch deletes, over two FIFO queues |
| `MCDeletionPipeline` | the sets of pairs, and symmetry for TLC |
| `DeletionProofs` | proofs about `DeletionPipeline` |
| `MessageProcessor` | listeners, subscriber goroutines, dispatch, acknowledgement, signals, exit and restart |
| `MCMessageProcessor` | the topics, handlers and messages of the checked instance |
| `MessageProcessorProofs` | proofs about `MessageProcessor` |

Definitions preceded by a comment `Mutant:` are deliberately wrong variants of the
definition that follows them. No specification uses them. Each shows that a property
would notice the mistake: put in place of its original, it makes TLC report the property
violated.

### Romances

State. `romances` maps a primary key (the ordered pair, `NewRomancePrimaryKey`) to an
item: a vote of each side, `version` and the TTL class. `Absent` is the value for no
item. Each worker is a goroutine with one request at a time: `pc` is the call it is
about to make, `cmd` the request, `snap` the romance it read, `tries` the retries used,
`sends` the unanswered sends of the current call, `due` the counters to increment,
`reply` the last answer. `fresh` (its item was not removed since the read), `moves` (how
often others changed its item since the request began) and `unanswered` (its own updates
that were applied without an answer) are history: no action is guarded by them.

| Action | Code |
|---|---|
| `Begin` | a route handler starts its operation |
| `GetAndReturn`, `GetAndProceed`, `GetFails` | the consistent read and the decision on it (`AddUserVoteOperation.Run`, `ChangeUserVoteOperation.Run`, `DeleteUserVoteOperation.Run`, the repository's own guards) |
| `WriteSucceeds`, `WriteRetries`, `WriteConflicts` | the conditional `UpdateItem`, its three outcomes, and the retry loop |
| `WriteRequestLost`, `WriteResponseLost` | the same call without an answer, then the AWS client's resend or its error |
| `WriteAnswerUnreadable` | the update is applied and answered, but the item it returns cannot be decoded (`:275-282` and the same code of the other two updates): an error, though the vote is stored |
| `RemoveSucceeds`, `RemoveRequestLost`, `RemoveResponseLost` | the unconditional `DeleteItem` of `DeleteRomance` |
| `CallCounters` | the call of `IncrYesCounters` or `IncrNoCounters`, whose errors are logged only |
| `Crash` | process death or cancellation between any two steps |

`AddCondition` distinguishes a first vote (`attribute_not_exists`) from the others
(`#version = :expectedV`) as the code does; a change keeps the stamps of the *stored*
vote, since it sets only type and `updatedAt`. `DeleteUserVote` on a romance without any
vote answers at once; on a romance in which only the peer voted it writes, as in the
code.

### Counters

State. `counters` maps user and hour (or `LifetimeCounterKey`) to four counts. `log` is
the sequence of votes to be counted, each with the hour fixed by `NewCounterUpdateGroup`
and the history flag `counted`. `event` points each writer to its vote. `read` is each
reader's call: offsets, the window starts computed so far, the filter. `now` is the
clock in hours.

| Action | Code |
|---|---|
| `NewCounterUpdateGroup` | `AddUserVoteOperation.Run` fixes the hour before it stores the vote |
| `IncrSucceeds`, `IncrFails`, `IncrResponseLost` | `incrCounters`: four updates in one `TransactWriteItems` |
| `GetHourlyCounters`, `NextCutoff`, `TimeFilter`, `Query` | the loop over offsets (one clock reading each), the filter (one more), the query and the sums |
| `NextHour`, `Expire` | the clock; DynamoDB's TTL deletion, at any time from the TTL on |

The AWS SDK fills in the `ClientRequestToken` of a `TransactWriteItems` the code leaves
empty, and DynamoDB applies requests of one token once. This is code outside `src/`; the
mutant `TransactWriteAgain` shows what depends on it.

### Voting

`EXTENDS Romances` and instantiates `Counters`. Every step of `Romances` is taken
together with what it means for the counters: `DecideAdd` joins `GetAndProceed` with
`NewCounterUpdateGroup` (`AddUserVoteOperation.Run` creates a group in each attempt,
before it writes), `CountVote`, `CountFails` and `CountUnanswered` join `CallCounters`
with the outcomes of the transaction, and a refused write or a crash drops the group.
`crossed` and `missed` are history: the votes that an Add made cross over into a class
in the table, and those of them that will not be counted. A Change may make a vote cross
over too, from No to Yes, say; the code counts none of these, and they are in neither.
Readers and the clock stay in `Counters`.

### DeletionPipeline

State. `romances` is the set of keys in the table. `requests` and `groups` are the two
queues; `requestHolder` and `groupHolder` say which process has the first message of
each in flight (both topics are FIFO with one message group, so there is only one).
`recentRequests` and `recentGroups` are what SNS remembers for its five minutes of
deduplication. Each process has a listener at work on a request (`op`), the enumerating
goroutine it started (`enum`), the channel between them (`buf`), and the listener at
work on a group (`grp`). `owed`, `dropped` and `asked` are history.

| Action | Code |
|---|---|
| `Vote`, `DeleteRomance` | users create and delete romances meanwhile |
| `RequestAnswered`, `RequestFails` | `DeleteRomancesRequestOperation`: publish, or an error with the message published all the same |
| `DeliverRequest`, `DeliverGroup` | a listener takes the first message of its queue |
| `Query`, `QueryFails`, `SendPeer`, `SendReturns` | the goroutine of `GetAllPeersForActiveUser`: a page of the base table or of the index, a swallowed error, one peer into the channel, an early return of `queryFn` |
| `Receive`, `RangeEnds`, `PublishGroup`, `PublishFails` | `DeleteRomancesOperation.Run`: the loop over the channel, the remainder, the publication of a group |
| `BatchSucceeds`, `BatchFails` | `DeleteRomancesGroup`: one `BatchWriteItem`, with the unprocessed items nobody looks at, or failed half-way |
| `AckRequest`, `AckGroup` and their `Lost` forms | the acknowledgement after the handler returned nil |
| `DeduplicationEnds`, `VisibilityEnds` | five minutes pass; the visibility timeout passes while the handler is at work |
| `Crash`, `Cancel`, `Restart` | process death, SIGTERM, a new process |

`lastEvaluatedKey` is shared by both queries, as in the code: `QueryReturns` moves on to
the index with the start key as the first query left it, and `StartsInside` tells
whether DynamoDB accepts it. That a romance is "promised" is a matter of the answer 202:
`owed` are the romances there when it was given. `dropped` are those of them that the
code lets go of on an error, each at the action where the error is swallowed: a failed
or stale query, an item it cannot read, an unprocessed delete, a deduplicated message
that comes too late.

### MessageProcessor

State. The queue of each topic; watermill's `feed` of it; the goroutine of
`SnsSubscriber.Subscribe` (`subscriber`); the `listener` goroutine of
`MessageProcessor.Start`; the handlers it still has to call (`todo`), whether one
failed, and which returned nil (`handled`, history); `process` and `cancelled`.

| Action | Code |
|---|---|
| `Publish`, `Offer`, `FeedEnds` | SNS, SQS and watermill |
| `Start`, `Subscribe`, `SubscribeFails` | `MessageProcessor.Start`, `TopicListener.Listen` up to its loop |
| `Take`, `SendAbandoned`, `SubscriberEnds` | the loop of the subscriber's goroutine, with its two selects |
| `Receive`, `ListenerCancelled`, `ListenerClosed` | the select of `Listen`; the deferred `Close` of the shared subscriber |
| `HandlerSkips`, `HandlerSucceeds`, `HandlerFails`, `HandlerPanics` | `TopicHandler.Dispatch` over the registered handlers, in any order (a Go map) |
| `Settle` | `Ack` or `Nack` in `safeProcessMessage` |
| `ExitOnError`, `AllReturned`, `Stop`, `Crash` | `os.Exit(1)`, the end of `main`, a signal, process death |

`DeletionPipeline` has the handlers of this program in detail and a message in flight as
one variable; `MessageProcessor` has the delivery in detail and a handler as one step.
They share no state and are checked apart.

## 3. Runs

All runs are `tlc -config <run>.cfg <module>` and take under four minutes.

| Run | Shows |
|---|---|
| `RomancesSafety` | two workers, all losses and crashes, no `DeleteRomance`: optimistic locking holds (`NoLostUpdate`), the TTL fits the stored votes (`TtlMatchesVotes`), stamps and votes go together (`VotesAreStamped`), and the table implements the ledger (`ImplementsLedger`, a refinement) |
| `RomancesRemovals` | with `DeleteRomance` and lost responses: what is left of locking for an item not removed since its read (`NoLostUpdate`), conflicts are earned by others or by own updates without an answer (`ConflictImpliesContention`), an Add goes on to count exactly when it was answered and its vote crossed over (`CountsFollowVotes`) |
| `RomancesLiveness` | every request is answered (`RequestsEnd`), within a number of calls that no interference raises (`RequestsRunOut`) |
| `RomancesCrushOverwritten` | violation, finding 1 |
| `RomancesChangeOfNothing` | violation, finding 2 |
| `CountersSafety` | lifetime rows count every vote once on both sides (`LifetimeCountsVotes`), hourly rows too until they expire (`HourlyRowsCountVotes`); windows are exact (`HourlyReadIsExact`) and nested (`WindowsNested`) |
| `CountersLongestOffset` | violation, finding 3 |
| `VotingBalance` | both tables: votes that crossed over by an Add and votes counted balance for every user, through conflicts, resends and crashes (`VotesAreConserved`) |
| `DeletionSafety` | two processes, two pages of peers, every fault once: no promised romance is lost but those let go of on an error (`NothingElseLost`), published groups can be deleted (`GroupsAreDeletable`), neither end of the channel waits for the other (`ChannelIsServed`), what is deleted is of a user who asked (`ImplementsCleanup`, a refinement) |
| `DeletionRepeated` | two requests, a change in between, every fault once: the same under deduplication (`NothingElseLost`), and every promise is settled in the end (`OwedIsSettled`) |
| `DeletionPages` | violation, finding 4 |
| `MessageProcessor` | a message leaves only when handled (`LeavesHandled`) and is handled in the end (`QueuesDrain`); no topic is left unattended (`NoneListensAlone`); a stop ends the process (`StopEnds`); nobody waits for a goroutine that has gone (`NobodyWaitsInVain`) |

Bounds, and why they suffice:

* Two users, one pair, in `Romances` and `Voting`. Romances of different pairs share no
  state, so more users only multiply independent copies. Both orders of the pair occur,
  hence both sides of the key. Counters needs two users for the two sides of a vote.
* Two workers: a writer and one that interferes. One worker runs several requests one
  after the other, so a step of the first can be interleaved with any sequence of
  requests of the second.
* `MaxRetries = 1` for 3: both branches of the loop, retry and give up, are reached. The
  proofs are for every value.
* `MaxSends = 2`: one resend. The AWS client sends up to 3 times; a third send repeats
  the second.
* `MaxVersion` bounds when a vote request begins, never what a running one does;
  requests that run at the time still write. Version 2 suffices to update, withdraw and
  vote again.
* `Types` is cut to the classes the properties distinguish: negative, positive with
  successors, terminal. `Voting` only asks for the class.
* `TtlHours = 2` for 48 and `LastHour = 6`: the shortest TTL with an offset below it and
  one equal to it, and a calendar that outlives the first rows. In `VotingBalance` the
  clock stands still; the hour of a vote is of no consequence there.
* `VotingBalance` looks at states through a view (`WithoutAnswers`) that leaves out
  `reply`, `moves` and `unanswered`: no action of the vote path is guarded by them, what
  becomes of the other variables does not depend on them, and `VotesAreConserved` does
  not mention them, so states that differ in them alone need not be told apart.
* `MaxVotes = 2` in `Counters`: two votes in the same or in different hours, by either
  user; 3 in `Voting`: a vote, a retry of it, and another one.
* `PageSize = 1`, `ChanCap = 1`, `GroupLimit = 2` or 1, `BatchLimit` the same: pages of
  one item, a channel of one, groups of one or two stand for pages of 1 MB, 64 and 25.
  User 2 has one peer below and two above (`TwoPages`), so the base table has a page
  with a successor, an exact fit, and a last page; the index has one; a group fills and
  a remainder stays; a batch is a full group. `TwoPagesAndOthers` adds a romance of two
  of the peers, which must stay. The proofs are for every value.
* `MaxFaults = 1` in the deletion runs: each fault at every place, not two together; the
  proofs of the safety properties are for any number. `MaxFaults = 2` in
  `MessageProcessor`: a fault and a stop, or two faults of two topics.
* `MaxChanges = 0` in `DeletionSafety`: only the pipeline changes the table, so whatever
  goes must be of a user who asked. `DeletionRepeated` has a change by a user; that no
  change hides a deletion by the pipeline is the theorem `PipelineImplementsCleanup`.
* Two processes in `DeletionSafety`: one whose message was given to another. Two
  requests and a change in `DeletionRepeated`: a second request while the first waits,
  is worked on, or is still remembered; a romance that appears in between.
* Three messages: one of each topic and one no handler can decode, behind or before it;
  two handlers on a topic, so that one may fail and the other succeed.

`MaxVersion`, `LastHour`, `MaxVotes`, `MaxFaults`, `MaxRequests` and `MaxChanges` are
the only artificial bounds.

Deadlock. In the runs of `Romances` and in `CountersSafety` TLC's deadlock check is on.
It is off where the system may really rest: the deletion pipeline once its queues are
empty and the bounds of requests, changes and faults are used up; the message processor
while it waits for a message; `Voting` once its counter groups are used up. What must
not stop is stated as liveness there.

Fairness. The specifications with fairness are `FairSpec` of `Romances`,
`DeletionPipeline` and `MessageProcessor`. All of it is weak.

* `Romances`: `Step(w)`, the steps of a goroutine that has a request. A goroutine is
  scheduled until it returns, and every DynamoDB call ends, because the client times out
  and gives up after its last send. None of `Begin` (clients need not come) or `Crash`.
  Whether a call is answered or lost is left open.
* `DeletionPipeline`: the same for the goroutine, the operation and the group handler of
  each process; the queues deliver a message that is not in flight to a listener that
  waits, and a stopped process is replaced (SQS and the container platform, outside the
  code). None of any fault, of users, or of the end of the deduplication. One action
  covers several outcomes of a step, so that a batch, say, may fail as often as
  `MaxFaults` allows.
* `MessageProcessor`: the steps of the subscriber and of the listener of each topic, the
  feed's offers, watermill's answer to a cancelled context, the return of `main`, and
  the start by the supervisor. None of `Publish`, of a stop or of a fault.

There is none in `Counters` and `Voting`: their operations have no loop of their own.

## 4. Findings

1. **A stale update overwrites a Crush** (`RomancesCrushOverwritten`). A request reads
   version 1, `DeleteRomance` removes the item, a new first vote is Crush and creates
   version 1 again; the first request's update passes `#version = :expectedV` and
   replaces the Crush. The operation's test calls Crush a terminal state
   (`V/application/operation/change_user_vote_operation_test.go:138`). Versions restart
   because `DeleteItem` is unconditional and keeps no tombstone.
2. **A change applies to a vote that is not there** (`RomancesChangeOfNothing`). By the
   same route, a change finds a romance created by the peer and leaves a type without
   `votedAt` and `createdAt`. The guard against it (`romances_repository.go:440`) looks
   at the romance read before.
3. **The longest accepted offset is not served** (`CountersLongestOffset`). Hourly rows
   expire `CountersTtlHours` after the start of their hour; the window of offset
   `CountersTtlHours` begins with exactly that hour, but the request is accepted
   (`hours_offset_groups.go:39-40`). Its count can lack votes though no error is
   reported. Shorter offsets are exact (`HourlyReadIsExact`).
4. **Peers on the second index are forgotten** (`DeletionPages`). When the base table
   has more than one page of a user's peers, `lastEvaluatedKey` keeps the key its last
   page started after (`romances_repository.go:189-192`) and is passed to the query of
   the index, which DynamoDB refuses. The error is only logged (`:142-145`), the channel
   is closed, the operation takes the peers so far for all, and the message is
   acknowledged. The romances with the peers of smaller id stay, though the request is
   described as "Delete all active user romances"
   (`V/interface/api/rest/v1/register.go:78`).

Without `DeleteRomance` the first two cannot happen: `RomancesSafety` checks stronger
properties with all other faults. With it, `NoLostUpdate` says exactly what is left: an
update is right if its item was not removed since the read, or the read found none.
`VoteLedger` has the step `Forget` for the removal, but with `DeleteRomance` the code
does not implement the ledger, for the reason of finding 1. The ledger's steps carry no
request: that each is atomic does not say that a request takes only one. A withdrawal
that is tried again after a lost response takes two, and so may an Add whose vote
somebody withdrew in between.

`NothingElseLost` says what is left of the fourth: apart from what the code lets go of
on an error, nothing is lost. It exempts by name what each swallowed error loses: the
rest of a query that failed, was stopped or met an item it cannot read, romances a stale
query misses, unprocessed deletes, and groups or requests deduplicated too late
(`dropped`). Whether these losses are acceptable is not for the model to say.

What `CountsFollowVotes` leaves uncounted is by the same token no finding: an Add whose
update was applied without an answer, or whose answer could not be decoded, stores its
vote and is never counted. The property says so of every such Add, and
`VotesAreConserved` has these votes in `missed`.

Met on the way, not checked: a vote dated after 2038 is written as 64-bit and read as
32-bit, after which the romance cannot be read and the enumeration of its users'
romances ends at it (the model has such an item as the fault `unreadable`); the TTL
attribute of a romance holds a duration where DynamoDB expects a point in time, so
romances never expire.

## 5. Proofs

| Theorem | For all constants |
|---|---|
| `RomancesProofs!TypeCorrect` | `Spec => []TypeOK` |
| `RomancesProofs!LockingCorrect` | `Spec => []NoLostUpdate` |
| `RomancesProofs!ConflictsAreEarned` | `Spec => ConflictImpliesContention` |
| `RomancesProofs!RequestsAreBounded` | `Spec => RequestsRunOut` |
| `VotesProofs!StoredTtlsFit` | without `DeleteRomance`, `Spec => []TtlMatchesVotes` |
| `VotesProofs!StoredVotesAreStamped` | without `DeleteRomance`, `Spec => []VotesAreStamped` |
| `VotesProofs!TableImplementsLedger` | without `DeleteRomance`, `Spec => ImplementsLedger` |
| `VotesProofs!CountingFollowsVotes` | `Spec => CountsFollowVotes` |
| `CountersProofs!CountersTypeCorrect` | `Spec => []TypeOK` |
| `CountersProofs!LifetimeCorrect` | `Spec => []LifetimeCountsVotes` |
| `CountersProofs!HourlyRowsCorrect` | `Spec => []HourlyRowsCountVotes` |
| `CountersProofs!HourlyReadCorrect` | `Spec => []HourlyReadIsExact` |
| `CountersProofs!WindowsCorrect` | `Spec => []WindowsNested` |
| `VotingProofs!VotingImplementsCounters` | `VotingSpec => Spec` of `Counters` |
| `VotingProofs!ConservationCorrect` | `VotingSpec => []VotesAreConserved` |
| `DeletionProofs!TypeCorrect` | `Spec => []TypeOK` |
| `DeletionProofs!NothingElseIsLost` | `Spec => []NothingElseLost` |
| `DeletionProofs!PublishedGroupsAreDeletable` | `Spec => []GroupsAreDeletable` |
| `DeletionProofs!ChannelIsAlwaysServed` | `Spec => []ChannelIsServed` |
| `DeletionProofs!PipelineImplementsCleanup` | `Spec => ImplementsCleanup` |
| `MessageProcessorProofs!TypeCorrect` | `Spec => []TypeOK` |
| `MessageProcessorProofs!NothingLeavesUnhandled` | `Spec => LeavesHandled` |
| `MessageProcessorProofs!NobodyIsLeftWaiting` | `Spec => []NobodyWaitsInVain` |

They rest only on the named assumptions of the modules: users are integers (so a pair
has an order), bounds are natural numbers and limits positive ones, TLC's sets are
subsets of the full ones, `NoProcess` is no process, the maps of topics and handlers are
maps. They hold for any number of users, workers, processes, messages, retries, resends,
hours, requests and faults, and any page size, channel and group limit. Three of them
assume that clients never send `DeleteRomance`, and say so; so does `Voting` in its
`VotePathAssumption`, as its path has no removals, and it counts over finite sets of
users and workers (`FiniteAssumption`).

**Types.** `TypeOK` of `Romances` is not inductive: a worker that is not idle must have
a real command, or the key of its update would be no key. `TypeInv` adds that.

**Locking.** `NoLostUpdate` speaks of the moment when the condition holds, and says
nothing about the steps between read and write. The inductive invariant `LockInv` adds
three parts:

* `VersionZeroIsAbsent`: an item has version 0 exactly when it is `Absent`; so the
  version read tells whether there was an item, and both forms of condition come down to
  "the version is the one that was read" (`ConditionIsVersion`);
* `SnapshotInv(w)`: while `w` is about to write and its item was not removed, the stored
  version is at least the one it read, and when they are equal the romances are equal
  too. It is kept because every write raises the version by one (`StoreRaisesVersion`),
  and a removal clears `fresh`;
* `RetryInv(w)`: each retry used is due to a change of the item by others or to an own
  update without an answer, and so is a stored item that is no longer what was read. It
  gives `ConflictsAreEarned`: when the last attempt fails, there was one per attempt.

A request's own update can be in its way: it is applied, its response is lost, and the
resend fails the condition. An Add or a Change then reads its own vote and stops with a
duplicate, unless the retries are used up; so at most its last attempt fails that way,
and its vote stands. A withdrawal reads a romance in which the peer voted, writes again,
and can use up all its attempts against itself. `OwnConflicts` says which of
`unanswered` may count; `moves` counts only what other requests do.

Other workers' steps either leave a worker's locals and item alone (another key), move
the item (`ItemStored`), or remove it (`ItemRemoved`).

**Calls.** `CallsLeft` counts what a request may still send: a read and `MaxSends` sends
of the update for each attempt left, and the call of the counters. With the invariant
that a call in progress has a send left (`SendsLeft`), each of the ways a step can take
a handler (`StepUses`) lowers it, and others do not touch it. It is the variant that a
proof of `RequestsEnd` would use; what is missing is the step from fairness to progress.

**Votes.** Without `DeleteRomance`, `fresh` stays true (`NoRemovals`), so by
`NoLostUpdate` every update that passes was computed from the stored item
(`TrustedWrite`): one side becomes the new vote, the TTL is that of the two stored
votes, the other side stays. This keeps `VotesInv`, and, with the checks the handler
made on the same romance (`TrustedDecision`), makes the step a `Cast` or a `Withdraw` of
the ledger. `CountsFollowVotes` needs no such assumption, as it is about trusted
updates; it uses that nothing is due before a vote is stored (`DueInv`) and that a type
may replace another only if it is positive or replaces no vote (`AllowedCrossing`). An
update without an answer ends the request or leaves it at its write
(`UnansweredIsNotCounted`). About an update whose item was removed since the read it
says nothing: by finding 1 such an update may replace a vote the handler never saw, and
what it counts follows the vote it read.

**Counters.** `TypeOK /\ LifetimeCountsVotes` is inductive. `IncrCountersLifetime` says
what the four nested updates do to lifetime rows: one more in the attribute of each
side, nothing elsewhere; it needs that the two users differ and that no hour is the
lifetime key. `VotesGrow` says that the set of counted votes grows by the same vote for
the same users; the cardinalities follow. A resent transaction finds its vote counted;
an expiring row is never a lifetime row. For hourly rows the same argument runs by hour,
and an expiring row is one the property no longer asks about.

What `GetHourlyCounters` returns is a sum of rows. `CallInv` says what a call knows of
the clock: each window start was computed from a reading between the beginning of the
call and now, the filter, read last, cuts into no window, and the hour changes at most
once. Within one hour the rows of a window short of the TTL have not expired, so each is
the number of votes of its hour, and their sum the number of votes of the window. For
`WindowsNested` the hour may change and rows may be gone: then a row is at most that
number (`RowsAtMost`), a shorter window is a subset of a longer one, and all windows of
the lifetime.

**Sums.** `FiniteSums` has the laws used there: a sum over a set takes one element more,
is monotonic in its summands and in its set, and of the sizes of disjoint parts is the
size of the whole. The provers cannot instantiate an induction principle, so each proof
supposes a subset without the law and takes a minimal one (`MinimalSet`, from the
well-foundedness of the strict subset order), which its proper subsets contradict.

**Both tables.** Every step of `Voting` is a step of `Romances` or leaves it alone, by
definition (`RomancesNext`); that it is a step of `Counters` or leaves that alone needs
the type invariant of `Romances`, for the vote a group is made of is the request's. So
all that is proved of either holds of both. `VotesAreConserved`, the balance of the
votes that crossed over by an Add, is about neither alone. Its invariant `Known` adds
that no two workers hold the same group, and that the group of a worker is for its own
request, not counted before the worker stores its vote, and of the counter that is then
due (`GroupsInv`). `BalanceInv` is the balance of one vote id and one counter: votes
that crossed over are the groups counted, the workers about to count, and the votes
missed. A step changes at most one id and counter by at most one, on both sides of the
equation: `CrossingOfWrite` connects the vote that crosses over in the table with the
counter that the handler derived from what it had read, which is where optimistic
locking comes in. Summing over the ids of a user, on each side, gives the property:
`SumOfCounted` turns the groups counted into the user's votes, and these are on the
lifetime row by `LifetimeCorrect`.

**Deletion.** `NothingElseLost` is far from inductive: a request is in its queue also
after all its peers were enumerated and published. The invariant `PipelineInv` says
where each owed romance is on its way (`LossInv`): in a request nobody works on, in the
group, channel or remaining pages of the goroutine that works on one (`Coming`), in a
group nobody works on, or in the peers a group's handler has left. With it go: the
process that holds a message works on exactly that message (`RequestHeld`, `GroupHeld`);
the goroutine lives while its operation does, and the operation ends only with a drained
channel (`ThreadsInv`); every message was asked for (`AskedInv`); and what was sent is
distinct, within its limit and not ahead of the goroutine any more (`SendsInv`), which
gives `GroupsAreDeletable`. A late handler, whose message is in flight to another
process, accounts for nothing, and it can do no harm: it can only remove romances of a
user who asked, or publish another group of them.

The refinement maps the debt to `owed \ dropped`, and the acts of users to
`used.changes`. Each removal and each error of the pipeline becomes a `Clean`, which
takes romances of users who asked and leaves the count of acts as it is; each request
becomes an `Ask`, and what users do themselves an `Appear` or a `Disappear`, which raise
the count and touch one romance; the remaining steps stutter. Without the count, a
romance that the pipeline deletes wrongly would pass for one that its user deleted.

**Message processor.** `ProcessorInv` adds to the types that a message in a goroutine's
hands is the first of its queue and that its feed waits for it or is closed
(`MessageInv`), so that the message acknowledged is the one handled; and that, with no
error so far, every handler that can decode it has succeeded or is still to run
(`DispatchInv`). `NobodyWaitsInVain`, the safe half of `QueuesDrain` and
`NoneListensAlone`, needs in addition that a process that is down has neither goroutines
nor open feeds (`DownIsGone`), so that the next one starts from nothing.
`ChannelIsServed` of the deletion pipeline, the same for the channel of peers, follows
from `PipelineInv`.

Only model-checked: liveness (`RequestsEnd`, `OwedIsSettled`, `QueuesDrain`,
`NoneListensAlone`, `StopEnds`), which is out of the prover's reach; their safe halves,
that a request has a bounded number of calls and that nobody waits for somebody who has
gone, are proved. Every invariant and every action property that a run checks is proved.

## 6. Not modelled

* Values of timestamps (`votedAt`, `createdAt`, `updatedAt`): presence only. The codec
  of `votedAt`, 64-bit out and 32-bit in, appears as an item the enumeration cannot
  read.
* The expiry of romances: the TTL attribute holds a duration, which DynamoDB ignores.
* A request that reaches DynamoDB after the client has given it up: it would be one more
  write at a later time.
* uint32 overflow of counters; formatting of keys and messages; logging; rendering.
* A `GetHourlyCounters` call that lasts longer than an hour: the model lets the hour
  change once during a call.
* Time zones: the hour of a vote is taken from `time.Now()`, the windows and the filter
  from `time.Now().UTC()`; the single `now` stands for both, as in the image that is
  shipped, whose zone is UTC.
* Process shutdown in the middle of a request of the REST service, beyond `Crash`.
* The goroutine an operation leaves behind when a publication fails: it waits on its
  channel until the process ends, and the model forgets it, as nothing waits for it.
* Several message groups of a FIFO topic: the publisher always uses one.
* Dead-letter queues: a message that fails comes again without end.
* Routing, validation and rendering of the REST interface, and the start and stop of its
  server; of each endpoint the model has the request it makes.
* Configuration, dependency injection, logging, the construction of the clients;
  infrastructure stacks, docker and CI; helpers of the tests. They are descriptions and
  wiring without a state of their own; the values that matter appear as constants.

## 7. Order of work, and what is left

Written in this order: `VoteTypes`, `VoteLedger`, `Romances` and `Counters`, since every
request goes through them, with their types and locking proved; then `DeletionPipeline`
over `RomanceCleanup`, `MessageProcessor`, and `Voting`; then the proofs of the second
half of section 5.

Left, in order of importance:

1. `MessageProcessor` as the delivery of `DeletionPipeline`: a refinement from the
   composition of both to `DeletionPipeline` with its `DeliverRequest` and `AckRequest`.
2. How far finding 4 reaches: without faults, and with the peers of each user on one
   page, `NothingLost` itself should hold and be provable.
3. Two faults together in the deletion runs, for the liveness property; safety is proved
   for any number.
4. Timestamps with their order, and a clock for `createdAt` and `updatedAt`.
