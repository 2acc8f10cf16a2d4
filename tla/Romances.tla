------------------------------- MODULE Romances -------------------------------
(***************************************************************************)
(* The Romances table and the request handlers of the REST service that    *)
(* read and write it: AddUserVote, ChangeUserVote, DeleteUserVote,         *)
(* DeleteRomance, GetRomance and GetUserVote.                              *)
(*                                                                         *)
(* A romance is one DynamoDB item per unordered pair of users.  A handler  *)
(* that changes a vote reads the item, decides, and writes it back under   *)
(* the condition that its version has not moved; on a version conflict it  *)
(* starts over, a bounded number of times.  DeleteRomance removes the item *)
(* without a condition.  Handlers of different requests interleave at      *)
(* every call to DynamoDB, and the AWS client may lose a request or a      *)
(* response and send the same request again.                               *)
(***************************************************************************)
EXTENDS Integers, VoteTypes

CONSTANTS
  Users,        \* user ids, ordered: the smaller id of a pair is its partition key
  Workers,      \* the goroutines that serve requests, one request at a time each
  Kinds,        \* the kinds of request the clients send
  Types,        \* the vote types the clients send
  Faults,       \* what may go wrong: losses, unreadable answers and crashes
  MaxRetries,   \* config.DynamoDbVersionConflictRetriesCount
  MaxSends,     \* how often the AWS client sends one request, the first included
  MaxVersion    \* bound: no vote request begins on an item of this version or above

Kind == {"Add", "Change", "DeleteVote", "DeleteRomance", "Get"}
Fault == {"requestLost", "responseLost", "unreadable", "crash"}

ASSUME UsersAssumption == Users \subseteq Int
ASSUME KindsAssumption == Kinds \subseteq Kind
ASSUME TypesAssumption == Types \subseteq VoteType \ {"Empty"}
ASSUME FaultsAssumption == Faults \subseteq Fault
ASSUME MaxRetriesAssumption == MaxRetries \in Nat
ASSUME MaxSendsAssumption == MaxSends \in Nat \ {0}
ASSUME MaxVersionAssumption == MaxVersion \in Nat

VARIABLES
  romances,     \* the table: the item stored under each primary key
  pc,           \* where each worker is in its handler
  cmd,          \* the request it serves
  snap,         \* the romance its last GetRomance returned
  tries,        \* the version conflicts it has retried
  sends,        \* the sends of its current DynamoDB call that got no answer
  due,          \* the counters it still has to increment
  reply,        \* the answer to its last request
  fresh,        \* history: the item it read has not been removed since
  moves,        \* history: changes of its item by others since it began
  unanswered    \* history: its own updates that were applied without an answer

vars == <<romances, pc, cmd, snap, tries, sends, due, reply, fresh, moves, unanswered>>

-----------------------------------------------------------------------------
(* Vote ids, primary keys, items and romances                              *)

VoteId == {id \in Users \X Users : id[1] # id[2]}
PrimaryKey == {key \in Users \X Users : key[1] < key[2]}

NewRomancePrimaryKey(id) == IF id[1] < id[2] THEN id ELSE <<id[2], id[1]>>
isPartitionKey(id) == NewRomancePrimaryKey(id)[1] = id[1]

\* stamped: votedAt and createdAt are there (the code sets and removes them together).
Vote == [type : VoteType, stamped : BOOLEAN]
EmptyVote == [type |-> "Empty", stamped |-> FALSE]

\* A stored item; Absent stands for no item under the key.
Item == [pk : Vote, sk : Vote, version : Nat, ttl : Ttl \cup {"none"}]
Absent == [pk |-> EmptyVote, sk |-> EmptyVote, version |-> 0, ttl |-> "none"]

\* A romance as the active user of a vote id sees it.
Romance == [active : Vote, peer : Vote, version : Nat]
EmptyRomance == [active |-> EmptyVote, peer |-> EmptyVote, version |-> 0]

transformRomanceItemToEntity(item, id) ==
  [active  |-> IF isPartitionKey(id) THEN item.pk ELSE item.sk,
   peer    |-> IF isPartitionKey(id) THEN item.sk ELSE item.pk,
   version |-> item.version]

StoredItem(id) == romances[NewRomancePrimaryKey(id)]

GetRomance(id) ==
  IF StoredItem(id) = Absent THEN EmptyRomance
  ELSE transformRomanceItemToEntity(StoredItem(id), id)

RomanceIsEmpty(rom) == IsEmpty(rom.active.type) /\ IsEmpty(rom.peer.type)

-----------------------------------------------------------------------------
(* The conditional updates: the condition, and the item they leave         *)

SetActiveVote(item, id, vote) ==
  IF isPartitionKey(id) THEN [item EXCEPT !.pk = vote] ELSE [item EXCEPT !.sk = vote]

\* Mutant: the condition asks for the item only, not for its version.
ItemExists(item, rom) == item # Absent

VersionIsExpected(item, rom) == item # Absent /\ item.version = rom.version

\* Mutant: a first vote is written without attribute_not_exists.
UnguardedFirstAdd(item, rom) == rom.version = 0 \/ VersionIsExpected(item, rom)

\* Mutant: a first vote, too, expects the version it read.
FirstAddExpectsVersion(item, rom) == VersionIsExpected(item, rom)

AddCondition(item, rom) ==
  IF rom.version = 0 THEN item = Absent ELSE VersionIsExpected(item, rom)

\* Mutant: the TTL is taken from the votes as they were read.
UpdateWithOldTtl(item, id, rom, vote) ==
  [SetActiveVote(item, id, vote) EXCEPT
     !.version = rom.version + 1,
     !.ttl = getTtlSecondsForVotesPair(rom.active.type, rom.peer.type)]

\* Mutant: the update leaves the version as it was.
UpdateKeepsVersion(item, id, rom, vote) ==
  [SetActiveVote(item, id, vote) EXCEPT
     !.version = IF rom.version = 0 THEN 1 ELSE rom.version,
     !.ttl = getTtlSecondsForVotesPair(vote.type, rom.peer.type)]

\* What every update sets: the active user's vote, the next version, and the
\* TTL for the new vote and the vote of the peer as it was read.
UpdateItem(item, id, rom, vote) ==
  [SetActiveVote(item, id, vote) EXCEPT
     !.version = rom.version + 1,
     !.ttl = getTtlSecondsForVotesPair(vote.type, rom.peer.type)]

AddActiveUserVoteToRomance(item, id, rom, type) ==
  UpdateItem(item, id, rom, [type |-> type, stamped |-> TRUE])

\* The stamps stay as the stored item has them: only type and updatedAt are set.
ChangeActiveUserVoteTypeInRomance(item, id, rom, type) ==
  LET stored == transformRomanceItemToEntity(item, id).active
  IN  UpdateItem(item, id, rom, [type |-> type, stamped |-> stored.stamped])

DeleteActiveUserVoteFromRomance(item, id, rom) ==
  UpdateItem(item, id, rom, EmptyVote)

-----------------------------------------------------------------------------
(* What a handler decides on the romance it read: "none" to go on to the   *)
(* write, otherwise the answer it returns at once.                         *)

AddRefusal(rom, type) ==
  IF ~isVoteTypeChangeAllowed(rom.active.type, type) THEN "ErrWrongVote"
  ELSE IF type = rom.active.type THEN "ErrVoteDuplicate"
  ELSE "none"

\* Mutant: a change does not ask whether there is a vote.
ChangeRefusalWithoutVote(rom, type) ==
  IF ~isVoteTypeChangeAllowed(rom.active.type, type) THEN "ErrWrongVote" ELSE "none"

ChangeRefusal(rom, type) ==
  IF ~isVoteTypeChangeAllowed(rom.active.type, type) THEN "ErrWrongVote"
  ELSE IF type = rom.active.type THEN "ErrVoteDuplicate"
  ELSE IF IsEmpty(rom.active.type) THEN "ErrVoteNotFound"
  ELSE "none"

DeleteVoteRefusal(rom) == IF RomanceIsEmpty(rom) THEN "ok" ELSE "none"

Refusal(c, rom) ==
  CASE c.kind = "Add"        -> AddRefusal(rom, c.type)
    [] c.kind = "Change"     -> ChangeRefusal(rom, c.type)
    [] c.kind = "DeleteVote" -> DeleteVoteRefusal(rom)
    [] OTHER                 -> "ok"

\* Mutant: the counters look at the new vote only.
CountersDueForNewVote(old, new) ==
  IF IsPositive(new) THEN "yes" ELSE IF IsNegative(new) THEN "no" ELSE "none"

\* Which counters a stored Add increments, given the vote type it replaced.
CountersDue(old, new) ==
  IF IsPositive(new) /\ ~IsPositive(old) THEN "yes"
  ELSE IF IsNegative(new) /\ ~IsNegative(old) THEN "no"
  ELSE "none"

-----------------------------------------------------------------------------
Command ==
       [kind : Kinds \cap {"Add"}, id : VoteId, type : Types \cap AddUserVoteType]
  \cup [kind : Kinds \cap {"Change"}, id : VoteId, type : Types \cap ChangeUserVoteType]
  \cup [kind : Kinds \cap {"DeleteVote", "DeleteRomance", "Get"}, id : VoteId, type : {"Empty"}]

NoCommand == [kind |-> "none", id |-> <<>>, type |-> "Empty"]

Replies == {"none", "ok", "ErrWrongVote", "ErrVoteDuplicate", "ErrVoteNotFound",
            "ErrVersionConflict", "error", "crashed"}

TypeOK ==
  /\ romances \in [PrimaryKey -> Item]
  /\ pc \in [Workers -> {"idle", "get", "write", "remove", "count"}]
  /\ cmd \in [Workers -> Command \cup {NoCommand}]
  /\ snap \in [Workers -> Romance]
  /\ tries \in [Workers -> 0..MaxRetries]
  /\ sends \in [Workers -> 0..MaxSends]
  /\ due \in [Workers -> {"none", "yes", "no"}]
  /\ reply \in [Workers -> Replies]
  /\ fresh \in [Workers -> BOOLEAN]
  /\ moves \in [Workers -> 0..(MaxRetries + 1)]
  /\ unanswered \in [Workers -> 0..(MaxRetries + 1)]

Init ==
  /\ romances = [key \in PrimaryKey |-> Absent]
  /\ pc = [w \in Workers |-> "idle"]
  /\ cmd = [w \in Workers |-> NoCommand]
  /\ snap = [w \in Workers |-> EmptyRomance]
  /\ tries = [w \in Workers |-> 0]
  /\ sends = [w \in Workers |-> 0]
  /\ due = [w \in Workers |-> "none"]
  /\ reply = [w \in Workers |-> "none"]
  /\ fresh = [w \in Workers |-> TRUE]
  /\ moves = [w \in Workers |-> 0]
  /\ unanswered = [w \in Workers |-> 0]

-----------------------------------------------------------------------------
(* Pieces of the steps                                                     *)

Key(w) == NewRomancePrimaryKey(cmd[w].id)

\* The request ends: the handler returns r and its locals are gone.
Finish(w, r) ==
  /\ pc' = [pc EXCEPT ![w] = "idle"]
  /\ cmd' = [cmd EXCEPT ![w] = NoCommand]
  /\ snap' = [snap EXCEPT ![w] = EmptyRomance]
  /\ tries' = [tries EXCEPT ![w] = 0]
  /\ sends' = [sends EXCEPT ![w] = 0]
  /\ due' = [due EXCEPT ![w] = "none"]
  /\ reply' = [reply EXCEPT ![w] = r]
  /\ unanswered' = [unanswered EXCEPT ![w] = 0]

\* History counts up to one more than the retries.
OneMore(n) == IF n <= MaxRetries THEN n + 1 ELSE n

\* No answer came to a send, an update that was applied or not: the AWS client
\* sends again, or gives up with an error.
Resend(w, applied) ==
  \/ /\ sends[w] + 1 < MaxSends
     /\ sends' = [sends EXCEPT ![w] = @ + 1]
     /\ unanswered' = [unanswered EXCEPT ![w] = IF applied THEN OneMore(@) ELSE @]
     /\ UNCHANGED <<pc, cmd, snap, tries, due, reply>>
  \/ /\ sends[w] + 1 = MaxSends
     /\ Finish(w, "error")

\* History: the workers in the middle of a vote request on a key, and what they
\* remember when another worker w changes the item under it, or removes it.
Concerned(key) == {v \in Workers : pc[v] \in {"get", "write"} /\ Key(v) = key}

Moved(w, key) ==
  moves' = [v \in Workers |-> IF v \in Concerned(key) \ {w} THEN OneMore(moves[v]) ELSE moves[v]]

Removed(key) ==
  fresh' = [v \in Workers |-> fresh[v] /\ v \notin Concerned(key)]

-----------------------------------------------------------------------------
(* The steps of a handler                                                  *)

\* The bound on versions limits when a request begins, never what it does.
Begin(w, c) ==
  /\ pc[w] = "idle"
  /\ c.kind \in {"Add", "Change", "DeleteVote"} => StoredItem(c.id).version < MaxVersion
  /\ pc' = [pc EXCEPT ![w] = IF c.kind = "DeleteRomance" THEN "remove" ELSE "get"]
  /\ cmd' = [cmd EXCEPT ![w] = c]
  /\ tries' = [tries EXCEPT ![w] = 0]
  /\ reply' = [reply EXCEPT ![w] = "none"]
  /\ moves' = [moves EXCEPT ![w] = 0]
  /\ UNCHANGED <<romances, snap, sends, due, fresh, unanswered>>

\* The consistent read, then an early return.
GetAndReturn(w) ==
  /\ pc[w] = "get"
  /\ LET answer == Refusal(cmd[w], GetRomance(cmd[w].id))
     IN  answer # "none" /\ Finish(w, answer)
  /\ UNCHANGED <<romances, fresh, moves>>

\* The consistent read, then on to the conditional write.
GetAndProceed(w) ==
  /\ pc[w] = "get"
  /\ Refusal(cmd[w], GetRomance(cmd[w].id)) = "none"
  /\ snap' = [snap EXCEPT ![w] = GetRomance(cmd[w].id)]
  /\ pc' = [pc EXCEPT ![w] = "write"]
  /\ fresh' = [fresh EXCEPT ![w] = TRUE]
  /\ UNCHANGED <<romances, cmd, tries, sends, due, reply, moves, unanswered>>

\* A failed read ends the request (the client's own resends change nothing).
GetFails(w) ==
  /\ pc[w] = "get"
  /\ "requestLost" \in Faults
  /\ Finish(w, "error")
  /\ UNCHANGED <<romances, fresh, moves>>

ConditionHolds(w) ==
  IF cmd[w].kind = "Add" THEN AddCondition(StoredItem(cmd[w].id), snap[w])
  ELSE VersionIsExpected(StoredItem(cmd[w].id), snap[w])

ItemWritten(w) ==
  LET c == cmd[w]
      item == StoredItem(c.id)
  IN  CASE c.kind = "Add"    -> AddActiveUserVoteToRomance(item, c.id, snap[w], c.type)
        [] c.kind = "Change" -> ChangeActiveUserVoteTypeInRomance(item, c.id, snap[w], c.type)
        [] OTHER             -> DeleteActiveUserVoteFromRomance(item, c.id, snap[w])

Store(w) ==
  /\ romances' = [romances EXCEPT ![Key(w)] = ItemWritten(w)]
  /\ Moved(w, Key(w))

\* The update is applied and answered; an Add that crossed over goes on to count.
WriteSucceeds(w) ==
  /\ pc[w] = "write"
  /\ ConditionHolds(w)
  /\ Store(w)
  /\ LET counters == IF cmd[w].kind = "Add"
                     THEN CountersDue(snap[w].active.type, cmd[w].type) ELSE "none"
     IN  \/ /\ counters = "none"
            /\ Finish(w, "ok")
         \/ /\ counters # "none"
            /\ pc' = [pc EXCEPT ![w] = "count"]
            /\ due' = [due EXCEPT ![w] = counters]
            /\ UNCHANGED <<cmd, snap, tries, sends, reply, unanswered>>
  /\ UNCHANGED fresh

\* Mutant: one retry too many.
WriteRetriesOnceMore(w) ==
  /\ pc[w] = "write"
  /\ ~ConditionHolds(w)
  /\ tries[w] <= MaxRetries
  /\ tries' = [tries EXCEPT ![w] = @ + 1]
  /\ sends' = [sends EXCEPT ![w] = 0]
  /\ snap' = [snap EXCEPT ![w] = EmptyRomance]
  /\ pc' = [pc EXCEPT ![w] = "get"]
  /\ UNCHANGED <<romances, cmd, due, reply, fresh, moves, unanswered>>

\* Mutant: the retries are not counted.
WriteRetriesUncounted(w) ==
  /\ pc[w] = "write"
  /\ ~ConditionHolds(w)
  /\ sends' = [sends EXCEPT ![w] = 0]
  /\ snap' = [snap EXCEPT ![w] = EmptyRomance]
  /\ pc' = [pc EXCEPT ![w] = "get"]
  /\ UNCHANGED <<romances, cmd, tries, due, reply, fresh, moves, unanswered>>

\* The condition fails with retries left: read again.
WriteRetries(w) ==
  /\ pc[w] = "write"
  /\ ~ConditionHolds(w)
  /\ tries[w] < MaxRetries
  /\ tries' = [tries EXCEPT ![w] = @ + 1]
  /\ sends' = [sends EXCEPT ![w] = 0]
  /\ snap' = [snap EXCEPT ![w] = EmptyRomance]
  /\ pc' = [pc EXCEPT ![w] = "get"]
  /\ UNCHANGED <<romances, cmd, due, reply, fresh, moves, unanswered>>

\* The condition fails and the retries are used up.
WriteConflicts(w) ==
  /\ pc[w] = "write"
  /\ ~ConditionHolds(w)
  /\ tries[w] = MaxRetries
  /\ Finish(w, "ErrVersionConflict")
  /\ UNCHANGED <<romances, fresh, moves>>

\* The response to the update is lost, whatever the table made of it.
WriteResponseLost(w) ==
  /\ pc[w] = "write"
  /\ "responseLost" \in Faults
  /\ \/ ConditionHolds(w) /\ Store(w) /\ Resend(w, TRUE)
     \/ ~ConditionHolds(w) /\ Resend(w, FALSE) /\ UNCHANGED <<romances, moves>>
  /\ UNCHANGED fresh

\* The update is applied, but the item that comes back cannot be decoded.
WriteAnswerUnreadable(w) ==
  /\ pc[w] = "write"
  /\ "unreadable" \in Faults
  /\ ConditionHolds(w)
  /\ Store(w)
  /\ Finish(w, "error")
  /\ UNCHANGED fresh

WriteRequestLost(w) ==
  /\ pc[w] = "write"
  /\ "requestLost" \in Faults
  /\ Resend(w, FALSE)
  /\ UNCHANGED <<romances, fresh, moves>>

\* IncrYesCounters or IncrNoCounters: their errors are logged, never returned.
CallCounters(w) ==
  /\ pc[w] = "count"
  /\ Finish(w, "ok")
  /\ UNCHANGED <<romances, fresh, moves>>

\* DeleteItem, without a condition.
RemoveItem(w, key) ==
  /\ romances' = [romances EXCEPT ![key] = Absent]
  /\ \/ romances[key] # Absent /\ Moved(w, key) /\ Removed(key)
     \/ romances[key] = Absent /\ UNCHANGED <<fresh, moves>>

RemoveSucceeds(w) ==
  /\ pc[w] = "remove"
  /\ RemoveItem(w, Key(w))
  /\ Finish(w, "ok")

RemoveResponseLost(w) ==
  /\ pc[w] = "remove"
  /\ "responseLost" \in Faults
  /\ RemoveItem(w, Key(w))
  /\ Resend(w, FALSE)

RemoveRequestLost(w) ==
  /\ pc[w] = "remove"
  /\ "requestLost" \in Faults
  /\ Resend(w, FALSE)
  /\ UNCHANGED <<romances, fresh, moves>>

\* The process dies, or the request is cancelled, between two steps.
Crash(w) ==
  /\ pc[w] # "idle"
  /\ "crash" \in Faults
  /\ Finish(w, "crashed")
  /\ UNCHANGED <<romances, fresh, moves>>

-----------------------------------------------------------------------------
Step(w) ==
  \/ GetAndReturn(w) \/ GetAndProceed(w) \/ GetFails(w)
  \/ WriteSucceeds(w) \/ WriteRetries(w) \/ WriteConflicts(w)
  \/ WriteResponseLost(w) \/ WriteAnswerUnreadable(w) \/ WriteRequestLost(w)
  \/ CallCounters(w)
  \/ RemoveSucceeds(w) \/ RemoveResponseLost(w) \/ RemoveRequestLost(w)

Next ==
  \E w \in Workers :
    \/ \E c \in Command : Begin(w, c)
    \/ Step(w)
    \/ Crash(w)

Spec == Init /\ [][Next]_vars

\* A goroutine with a request keeps running until it returns.
FairSpec == Spec /\ \A w \in Workers : WF_vars(Step(w))

-----------------------------------------------------------------------------
(* Safety                                                                  *)

\* What a worker may conclude from the version it read: its item was not
\* removed since, or it read that there was none.
Trusted(w) == fresh[w] \/ snap[w].version = 0

\* Optimistic locking works: whenever DynamoDB would let an update through
\* whose item was not removed since the read, the romance the handler decided
\* on, and took the peer's vote for the TTL from, is the romance in the table.
NoLostUpdate ==
  \A w \in Workers :
    pc[w] = "write" /\ Trusted(w) /\ ConditionHolds(w)
      => snap[w] = GetRomance(cmd[w].id)

\* The TTL of a stored romance is the one its two stored votes call for,
\* although the writer computes it from its own new vote and the vote of the
\* peer it read earlier.
TtlMatchesVotes ==
  \A key \in PrimaryKey :
    romances[key] # Absent =>
      romances[key].ttl = getTtlSecondsForVotesPair(romances[key].pk.type, romances[key].sk.type)

\* A vote is stored if and only if it has votedAt and createdAt: no request
\* leaves half a vote behind, in particular no change of a withdrawn vote.
VotesAreStamped ==
  \A key \in PrimaryKey :
    /\ ~IsEmpty(romances[key].pk.type) <=> romances[key].pk.stamped
    /\ ~IsEmpty(romances[key].sk.type) <=> romances[key].sk.stamped

\* The conflicts a request may owe to its own updates that got no answer.  An
\* add or a change that tries again finds its own vote and stops, so only its
\* last attempt can be one; a withdrawal repeats what it has done already.
OwnConflicts(w) ==
  IF cmd[w].kind = "DeleteVote" THEN unanswered[w]
  ELSE IF unanswered[w] > 0 /\ GetRomance(cmd[w].id).active.type = cmd[w].type THEN 1
  ELSE 0

\* A request that gives up with a version conflict met, since it began, one
\* change of its item per attempt that somebody else made, or that was its own
\* update whose response was lost.  Without losses the retry loop never fails a
\* request that nobody interfered with; with them, an add or a change fails
\* only if others spoiled all attempts but the last, and then its vote stands.
ConflictImpliesContention ==
  [][\A w \in Workers :
       pc[w] = "write" /\ pc'[w] = "idle" /\ reply'[w] = "ErrVersionConflict"
         => moves[w] + OwnConflicts(w) > MaxRetries]_vars

\* An Add that is answered is counted exactly when its update turned the vote
\* in the table from outside the counted class into it, judged on the table
\* before and after the step, not on what the handler had read; an update that
\* got no answer is never counted, even if its vote crossed over.  This is said
\* of updates whose item was not removed since the read: the others may replace
\* a vote the handler has not seen.
CountsFollowVotes ==
  [][\A w \in Workers, id \in VoteId :
       pc[w] = "write" /\ cmd[w].kind = "Add" /\ cmd[w].id = id /\ Trusted(w) =>
         LET old == GetRomance(id).active.type
             new == GetRomance(id)'.active.type
             answered == pc'[w] = "count" \/ (pc'[w] = "idle" /\ reply'[w] = "ok")
         IN  /\ due'[w] = "yes" <=> answered /\ IsPositive(new) /\ ~IsPositive(old)
             /\ due'[w] = "no" <=> answered /\ IsNegative(new) /\ ~IsNegative(old)]_vars

\* The calls to the tables that a request may still make: a read and MaxSends
\* sends of the update per attempt, and one call of the counters.
CallsLeft(w) ==
  LET attempts == (MaxRetries - tries[w]) * (MaxSends + 1)
  IN  CASE pc[w] = "get"    -> attempts + MaxSends + 2
        [] pc[w] = "write"  -> attempts + (MaxSends - sends[w]) + 1
        [] pc[w] = "count"  -> 1
        [] pc[w] = "remove" -> MaxSends - sends[w]
        [] OTHER            -> 0

\* Every step of a handler uses up one of a bounded number of calls, and no
\* step of another gives any back: whatever the others do to its item, no
\* request makes more than (MaxRetries + 1) * (MaxSends + 1) + 1.
RequestsRunOut ==
  [][\A w \in Workers :
       pc[w] # "idle" =>
         /\ 0 <= CallsLeft(w)' /\ CallsLeft(w)' <= CallsLeft(w)
         /\ Step(w) => CallsLeft(w)' < CallsLeft(w)
         /\ CallsLeft(w) <= (MaxRetries + 1) * (MaxSends + 1) + 1]_vars

\* The table with its version conditions implements a ledger of votes in which
\* every request is one atomic step.
LedgerOfTable == [id \in VoteId |-> GetRomance(id).active.type]
Ledger == INSTANCE VoteLedger WITH ledger <- LedgerOfTable
ImplementsLedger == Ledger!LedgerSpec

-----------------------------------------------------------------------------
(* Properties the code violates (see the README, findings)                 *)

\* Crush is a terminal vote: once stored it stays until withdrawn or removed.
CrushIsTerminal ==
  [][\A id \in VoteId :
       GetRomance(id).active.type = "Crush" =>
         GetRomance(id)'.active.type \in {"Crush", "Empty"}]_vars

\* A change of a vote is only ever applied to a vote that is there.
ChangeNeedsVote ==
  \A w \in Workers :
    pc[w] = "write" /\ cmd[w].kind = "Change" /\ ConditionHolds(w)
      => ~IsEmpty(GetRomance(cmd[w].id).active.type)

-----------------------------------------------------------------------------
(* Liveness                                                                *)

\* Every request is answered, whatever the other requests do: the retry bound
\* keeps a handler from chasing the version for ever.
RequestsEnd == \A w \in Workers : pc[w] # "idle" ~> pc[w] = "idle"

=============================================================================
