----------------------------- MODULE VotesProofs -----------------------------
(***************************************************************************)
(* What the optimistic locking of Romances is for: the votes in the table. *)
(* As long as no client sends DeleteRomance, stored romances are whole and *)
(* the table implements the ledger of votes; whatever the clients send, a  *)
(* handler counts an answered vote by what its update replaced.            *)
(***************************************************************************)
EXTENDS RomancesProofs

-----------------------------------------------------------------------------
(* Facts about the table                                                   *)

\* A romance shows the two sides of its item, also when there is none.
LEMMA RomanceOfItem ==
  ASSUME NEW id
  PROVE  GetRomance(id) = transformRomanceItemToEntity(StoredItem(id), id)
BY DEF GetRomance, StoredItem, transformRomanceItemToEntity, Absent, EmptyRomance

LEMMA TtlIsSymmetric ==
  ASSUME NEW a, NEW b
  PROVE  getTtlSecondsForVotesPair(a, b) = getTtlSecondsForVotesPair(b, a)
BY DEF getTtlSecondsForVotesPair

\* The vote a write stores for its user.
VoteWritten(w) ==
  CASE cmd[w].kind = "Add" -> [type |-> cmd[w].type, stamped |-> TRUE]
    [] cmd[w].kind = "Change" ->
         [type |-> cmd[w].type, stamped |-> GetRomance(cmd[w].id).active.stamped]
    [] OTHER -> EmptyVote

LEMMA WriteUpdates ==
  ASSUME NEW w
  PROVE  ItemWritten(w) = UpdateItem(StoredItem(cmd[w].id), cmd[w].id, snap[w], VoteWritten(w))
BY RomanceOfItem
DEF ItemWritten, VoteWritten, AddActiveUserVoteToRomance, ChangeActiveUserVoteTypeInRomance,
    DeleteActiveUserVoteFromRomance

LEMMA VoteWrittenType ==
  ASSUME IInv, NEW w \in Workers, pc[w] = "write"
  PROVE  VoteWritten(w) \in Vote
<1>1. /\ cmd[w].type \in VoteType
      /\ GetRomance(cmd[w].id).active \in Vote
  BY WriterKind, CommandType, VersionRead DEF Romance
<1> QED
  BY <1>1, AbsentType DEF VoteWritten, Vote

\* An update as the table sees it, when its handler decided on what is stored:
\* one side of the item becomes the new vote, the other stays.
LEMMA TrustedWrite ==
  ASSUME IInv, NEW w \in Workers, pc[w] = "write", Trusted(w), ConditionHolds(w)
  PROVE  LET id == cmd[w].id
             item == romances[Key(w)]
             written == ItemWritten(w)
         IN  /\ snap[w] = GetRomance(id)
             /\ written.ttl = getTtlSecondsForVotesPair(written.pk.type, written.sk.type)
             /\ isPartitionKey(id) => written.pk = VoteWritten(w) /\ written.sk = item.sk
             /\ ~isPartitionKey(id) => written.sk = VoteWritten(w) /\ written.pk = item.pk
<1> DEFINE id == cmd[w].id
           item == romances[Key(w)]
           written == ItemWritten(w)
<1>1. snap[w] = GetRomance(id)
  BY LockInvNoLostUpdate DEF NoLostUpdate
<1>2. item \in Item /\ item = StoredItem(id)
  BY WriterKind, VersionRead DEF StoredItem, Key
<1>3. snap[w] = transformRomanceItemToEntity(item, id)
  BY <1>1, <1>2, RomanceOfItem
<1>4. /\ written = UpdateItem(item, id, snap[w], VoteWritten(w))
      /\ VoteWritten(w) \in Vote
  BY <1>2, WriteUpdates, VoteWrittenType
<1>5. CASE isPartitionKey(id)
  <2>1. snap[w].peer = item.sk
    BY <1>3, <1>5 DEF transformRomanceItemToEntity
  <2>2. /\ written.pk = VoteWritten(w)
        /\ written.sk = item.sk
        /\ written.ttl = getTtlSecondsForVotesPair(VoteWritten(w).type, snap[w].peer.type)
    BY <1>2, <1>4, <1>5 DEF UpdateItem, SetActiveVote, Item
  <2> QED
    BY <1>1, <1>5, <2>1, <2>2
<1>6. CASE ~isPartitionKey(id)
  <2>1. snap[w].peer = item.pk
    BY <1>3, <1>6 DEF transformRomanceItemToEntity
  <2>2. /\ written.sk = VoteWritten(w)
        /\ written.pk = item.pk
        /\ written.ttl = getTtlSecondsForVotesPair(VoteWritten(w).type, snap[w].peer.type)
    BY <1>2, <1>4, <1>6 DEF UpdateItem, SetActiveVote, Item
  <2> QED
    BY <1>1, <1>6, <2>1, <2>2, TtlIsSymmetric
<1> QED
  BY <1>5, <1>6

\* A handler that writes passed the checks on the vote in the table.
LEMMA TrustedDecision ==
  ASSUME IInv, NEW w \in Workers, pc[w] = "write", Trusted(w), ConditionHolds(w)
  PROVE  LET old == GetRomance(cmd[w].id).active.type
         IN  /\ cmd[w].kind \in {"Add", "Change"} =>
                  /\ isVoteTypeChangeAllowed(old, cmd[w].type)
                  /\ VoteWritten(w).type = cmd[w].type
                  /\ ~IsEmpty(cmd[w].type)
             /\ cmd[w].kind = "Change" => ~IsEmpty(old)
             /\ cmd[w].kind = "DeleteVote" => VoteWritten(w) = EmptyVote
<1>1. /\ snap[w] = GetRomance(cmd[w].id)
      /\ Refusal(cmd[w], snap[w]) = "none"
      /\ cmd[w].kind \in {"Add", "Change", "DeleteVote"}
      /\ cmd[w].kind \in {"Add", "Change"} => ~IsEmpty(cmd[w].type)
  BY TrustedWrite, WriterKind, CommandType DEF IInv, LockInv, SnapshotInv
<1>2. /\ cmd[w].kind = "Add" => AddRefusal(snap[w], cmd[w].type) = "none"
      /\ cmd[w].kind = "Change" => ChangeRefusal(snap[w], cmd[w].type) = "none"
  BY <1>1 DEF Refusal
<1> QED
  BY <1>1, <1>2 DEF AddRefusal, ChangeRefusal, VoteWritten

-----------------------------------------------------------------------------
(* Without DeleteRomance every read romance stays trusted                  *)

\* No worker is about to remove an item, and nobody has seen one removed.
NoRemovals == \A w \in Workers : pc[w] # "remove" /\ fresh[w]

LEMMA NextNoRemovals ==
  ASSUME "DeleteRomance" \notin Kinds, IInv, NoRemovals, [Next]_vars
  PROVE  NoRemovals'
<1>1. pc \in [Workers -> {"idle", "get", "write", "remove", "count"}]
      /\ fresh \in [Workers -> BOOLEAN]
  BY DEF IInv, TypeInv, LocalsOK, HistoryOK
<1>2. ASSUME NEW w \in Workers, NEW c \in Command, Begin(w, c) PROVE NoRemovals'
  <2>1. c.kind # "DeleteRomance"
    BY DEF Command
  <2> QED
    BY <1>1, <1>2, <2>1 DEF Begin, NoRemovals
<1>3. ASSUME NEW w \in Workers, Step(w) PROVE NoRemovals'
  <2>1. ~(RemoveSucceeds(w) \/ RemoveResponseLost(w) \/ RemoveRequestLost(w))
    BY DEF NoRemovals, RemoveSucceeds, RemoveResponseLost, RemoveRequestLost
  <2> QED
    BY <1>1, <1>3, <2>1
    DEF Step, NoRemovals, GetAndReturn, GetAndProceed, GetFails, WriteSucceeds, WriteRetries,
        WriteConflicts, WriteResponseLost, WriteAnswerUnreadable, WriteRequestLost, CallCounters,
        Finish, Resend
<1>4. ASSUME NEW w \in Workers, Crash(w) PROVE NoRemovals'
  BY <1>1, <1>4 DEF Crash, Finish, NoRemovals
<1>5. CASE UNCHANGED vars
  BY <1>5 DEF vars, NoRemovals
<1> QED
  BY <1>2, <1>3, <1>4, <1>5 DEF Next

\* The table changes by a trusted update only.
LEMMA TableSteps ==
  ASSUME IInv, NoRemovals, [Next]_vars
  PROVE  \/ romances' = romances
         \/ \E w \in Workers : pc[w] = "write" /\ Trusted(w) /\ ConditionHolds(w) /\ Store(w)
<1>1. ASSUME NEW w \in Workers, Step(w), romances' # romances
      PROVE  pc[w] = "write" /\ ConditionHolds(w) /\ Store(w)
  BY <1>1
  DEF Step, NoRemovals, RemoveSucceeds, RemoveResponseLost, RemoveRequestLost, GetAndReturn,
      GetAndProceed, GetFails, WriteSucceeds, WriteRetries, WriteConflicts, WriteResponseLost,
      WriteAnswerUnreadable, WriteRequestLost, CallCounters
<1> QED
  BY <1>1 DEF Next, Begin, Crash, vars, NoRemovals, Trusted

-----------------------------------------------------------------------------
(* Stored romances are whole                                               *)

Whole(vote) == ~IsEmpty(vote.type) <=> vote.stamped
ItemFits(item) ==
  /\ item # Absent => item.ttl = getTtlSecondsForVotesPair(item.pk.type, item.sk.type)
  /\ Whole(item.pk) /\ Whole(item.sk)

\* The inductive invariant: a romance that nobody removes is always rewritten
\* from what is stored, hence stays whole.
VotesInv == IInv /\ NoRemovals /\ \A key \in PrimaryKey : ItemFits(romances[key])

LEMMA VotesInvFits == VotesInv => TtlMatchesVotes /\ VotesAreStamped
BY DEF VotesInv, ItemFits, Whole, TtlMatchesVotes, VotesAreStamped

LEMMA InitVotesInv == Init => VotesInv
<1> SUFFICES ASSUME Init PROVE VotesInv
  OBVIOUS
<1>1. NoRemovals
  BY DEF Init, NoRemovals
<1>2. ItemFits(Absent)
  BY DEF ItemFits, Whole, Absent, EmptyVote, IsEmpty
<1> QED
  BY <1>1, <1>2, InitIInv DEF Init, VotesInv

LEMMA WrittenVoteWhole ==
  ASSUME VotesInv, NEW w \in Workers, pc[w] = "write", Trusted(w), ConditionHolds(w)
  PROVE  Whole(VoteWritten(w))
<1>0. IInv
  BY DEF VotesInv
<1>1. cmd[w].kind \in {"Add", "Change", "DeleteVote"} /\ Key(w) \in PrimaryKey
  BY <1>0, WriterKind
<1>2. CASE cmd[w].kind = "Add"
  BY <1>0, <1>2, TrustedDecision DEF Whole, VoteWritten
<1>3. CASE cmd[w].kind = "Change"
  <2>1. Whole(GetRomance(cmd[w].id).active)
    BY <1>1, RomanceOfItem DEF VotesInv, ItemFits, StoredItem, Key, transformRomanceItemToEntity
  <2>2. ~IsEmpty(GetRomance(cmd[w].id).active.type) /\ ~IsEmpty(cmd[w].type)
    BY <1>0, <1>3, TrustedDecision
  <2> QED
    BY <1>3, <2>1, <2>2 DEF Whole, VoteWritten
<1>4. CASE cmd[w].kind = "DeleteVote"
  BY <1>0, <1>4, TrustedDecision DEF Whole, EmptyVote, IsEmpty
<1> QED
  BY <1>1, <1>2, <1>3, <1>4

LEMMA NextVotesInv ==
  ASSUME "DeleteRomance" \notin Kinds, VotesInv, [Next]_vars
  PROVE  VotesInv'
<1>0. IInv /\ NoRemovals
  BY DEF VotesInv
<1>1. IInv' /\ NoRemovals'
  BY <1>0, NextIInv, NextNoRemovals
<1>2. ASSUME NEW w \in Workers, pc[w] = "write", Trusted(w), ConditionHolds(w), Store(w),
             NEW key \in PrimaryKey
      PROVE  ItemFits(romances'[key])
  <2>1. Key(w) \in PrimaryKey /\ romances'[Key(w)] = ItemWritten(w)
    BY <1>0, <1>2, WriterKind, StoreRaisesVersion
  <2>2. ItemFits(ItemWritten(w))
    <3>1. Whole(VoteWritten(w))
      BY <1>2, WrittenVoteWhole
    <3>2. Whole(romances[Key(w)].pk) /\ Whole(romances[Key(w)].sk)
      BY <2>1 DEF VotesInv, ItemFits
    <3> QED
      BY <1>0, <1>2, <3>1, <3>2, TrustedWrite DEF ItemFits
  <2>3. key # Key(w) => romances'[key] = romances[key]
    BY <1>0, <1>2 DEF Store, IInv, TypeInv, TableOK
  <2> QED
    BY <2>1, <2>2, <2>3 DEF VotesInv
<1> QED
  BY <1>0, <1>1, <1>2, TableSteps DEF VotesInv

LEMMA VotesInvCorrect == ASSUME "DeleteRomance" \notin Kinds PROVE Spec => []VotesInv
<1>1. VotesInv /\ [Next]_vars => VotesInv'
  BY NextVotesInv
<1> QED
  BY <1>1, InitVotesInv, PTL DEF Spec

\* As long as no client removes a romance, its TTL is the one its two stored
\* votes call for, although each writer computed it from a vote it read.
THEOREM StoredTtlsFit ==
  ASSUME "DeleteRomance" \notin Kinds
  PROVE  Spec => []TtlMatchesVotes
BY VotesInvCorrect, VotesInvFits, PTL

\* As long as no client removes a romance, every stored vote has its stamps,
\* and no withdrawn vote keeps them: a change is never applied to a vote that
\* is not there.
THEOREM StoredVotesAreStamped ==
  ASSUME "DeleteRomance" \notin Kinds
  PROVE  Spec => []VotesAreStamped
BY VotesInvCorrect, VotesInvFits, PTL

-----------------------------------------------------------------------------
(* The table implements the ledger                                         *)

\* The type the table has of a vote id, by the side of the item.
LEMMA LedgerEntry ==
  ASSUME NEW id \in VoteId
  PROVE  LedgerOfTable[id] = IF isPartitionKey(id) THEN StoredItem(id).pk.type
                             ELSE StoredItem(id).sk.type
BY RomanceOfItem DEF LedgerOfTable, transformRomanceItemToEntity

\* Two vote ids on one item are the two sides of it.
LEMMA SameItemOtherSide ==
  ASSUME NEW id \in VoteId, NEW other \in VoteId, other # id,
         NewRomancePrimaryKey(other) = NewRomancePrimaryKey(id)
  PROVE  isPartitionKey(other) = ~isPartitionKey(id)
<1>1. PICK a \in Users, b \in Users : id = <<a, b>> /\ a # b
  BY DEF VoteId
<1>2. PICK c \in Users, d \in Users : other = <<c, d>> /\ c # d
  BY DEF VoteId
<1>3. a \in Int /\ b \in Int /\ c \in Int /\ d \in Int
  BY UsersAssumption
<1> QED
  BY <1>1, <1>2, <1>3 DEF NewRomancePrimaryKey, isPartitionKey

\* A trusted update changes one entry of the ledger.
LEMMA StoreWritesLedger ==
  ASSUME IInv, NEW w \in Workers, pc[w] = "write", Trusted(w), ConditionHolds(w), Store(w)
  PROVE  LedgerOfTable' = [LedgerOfTable EXCEPT ![cmd[w].id] = VoteWritten(w).type]
<1> DEFINE id == cmd[w].id
<1>1. /\ id \in VoteId
      /\ Key(w) \in PrimaryKey
      /\ romances'[Key(w)] = ItemWritten(w)
      /\ \A key \in PrimaryKey : key # Key(w) => romances'[key] = romances[key]
  BY WriterKind, StoreRaisesVersion DEF Store, IInv, TypeInv, TableOK
<1>2. ASSUME NEW other \in VoteId
      PROVE  LedgerOfTable'[other] = IF other = id THEN VoteWritten(w).type
                                     ELSE LedgerOfTable[other]
  <2>1. LedgerOfTable'[other] = IF isPartitionKey(other) THEN StoredItem(other)'.pk.type
                                ELSE StoredItem(other)'.sk.type
    <3>1. GetRomance(other)' = transformRomanceItemToEntity(StoredItem(other)', other)
      BY DEF GetRomance, StoredItem, transformRomanceItemToEntity, Absent, EmptyRomance
    <3> QED
      BY <3>1 DEF LedgerOfTable, transformRomanceItemToEntity
  <2>2. CASE NewRomancePrimaryKey(other) # Key(w)
    <3>1. StoredItem(other)' = StoredItem(other)
      BY <1>1, <2>2, KeyIsPrimary DEF StoredItem
    <3>2. other # id
      BY <2>2 DEF Key
    <3> QED
      BY <2>1, <3>1, <3>2, LedgerEntry
  <2>3. CASE NewRomancePrimaryKey(other) = Key(w)
    <3>1. StoredItem(other)' = ItemWritten(w) /\ StoredItem(other) = romances[Key(w)]
      BY <1>1, <2>3 DEF StoredItem
    <3>2. other # id => isPartitionKey(other) = ~isPartitionKey(id)
      BY <1>1, <2>3, SameItemOtherSide DEF Key
    <3>3. CASE other = id
      <4>1. /\ isPartitionKey(id) => ItemWritten(w).pk = VoteWritten(w)
            /\ ~isPartitionKey(id) => ItemWritten(w).sk = VoteWritten(w)
        BY TrustedWrite
      <4> QED
        BY <2>1, <3>1, <3>3, <4>1
    <3>4. CASE other # id
      <4>1. /\ isPartitionKey(id) => ItemWritten(w).sk = StoredItem(other).sk
            /\ ~isPartitionKey(id) => ItemWritten(w).pk = StoredItem(other).pk
        BY <3>1, TrustedWrite
      <4> QED
        BY <2>1, <3>1, <3>2, <3>4, <4>1, LedgerEntry
    <3> QED
      BY <3>3, <3>4
  <2> QED
    BY <2>2, <2>3
<1>3. LedgerOfTable' = [other \in VoteId |-> LedgerOfTable'[other]]
  BY DEF LedgerOfTable
<1>4. LedgerOfTable = [other \in VoteId |-> LedgerOfTable[other]]
  BY DEF LedgerOfTable
<1> QED
  BY <1>1, <1>2, <1>3, <1>4

\* As long as no client removes a romance, the handlers of any number of
\* workers, with their retries, resends and crashes, amount to a ledger in
\* which each request takes effect in one step, or none.
THEOREM TableImplementsLedger ==
  ASSUME "DeleteRomance" \notin Kinds
  PROVE  Spec => ImplementsLedger
<1>1. Init => Ledger!LedgerInit
  <2> SUFFICES ASSUME Init PROVE LedgerOfTable = [id \in VoteId |-> "Empty"]
    BY DEF Ledger!LedgerInit, Ledger!VoteIds, VoteId
  <2>1. ASSUME NEW id \in VoteId PROVE StoredItem(id) = Absent
    BY KeyIsPrimary DEF Init, StoredItem
  <2> QED
    BY <2>1 DEF LedgerOfTable, GetRomance, EmptyRomance, EmptyVote
<1>2. ASSUME VotesInv, [Next]_vars
      PROVE  [Ledger!LedgerNext]_LedgerOfTable
  <2>0. IInv /\ NoRemovals
    BY <1>2 DEF VotesInv
  <2>1. CASE romances' = romances
    BY <2>1 DEF LedgerOfTable, GetRomance, StoredItem
  <2>2. ASSUME NEW w \in Workers, pc[w] = "write", Trusted(w), ConditionHolds(w), Store(w)
        PROVE  Ledger!LedgerNext
    <3>1. /\ cmd[w].id \in Ledger!VoteIds
          /\ cmd[w].kind \in {"Add", "Change", "DeleteVote"}
          /\ cmd[w].type \in VoteType
      BY <2>0, <2>2, WriterKind, CommandType DEF Ledger!VoteIds, VoteId
    <3>2. LedgerOfTable' = [LedgerOfTable EXCEPT ![cmd[w].id] = VoteWritten(w).type]
      BY <2>0, <2>2, StoreWritesLedger
    <3>3. CASE cmd[w].kind = "DeleteVote"
      <4>1. VoteWritten(w).type = "Empty"
        BY <2>0, <2>2, <3>3, TrustedDecision DEF EmptyVote
      <4> QED
        BY <3>1, <3>2, <4>1 DEF Ledger!LedgerNext, Ledger!Withdraw
    <3>4. CASE cmd[w].kind \in {"Add", "Change"}
      <4>1. LedgerOfTable[cmd[w].id] = GetRomance(cmd[w].id).active.type
        BY <2>0, <2>2, WriterKind DEF LedgerOfTable
      <4>2. /\ isVoteTypeChangeAllowed(LedgerOfTable[cmd[w].id], cmd[w].type)
            /\ VoteWritten(w).type = cmd[w].type
        BY <2>0, <2>2, <3>4, <4>1, TrustedDecision
      <4>3. Ledger!Cast(cmd[w].id, cmd[w].type)
        BY <3>2, <4>2
        DEF Ledger!Cast, Ledger!isVoteTypeChangeAllowed, Ledger!allowedVoteTransitions,
            Ledger!VoteType, isVoteTypeChangeAllowed, allowedVoteTransitions, VoteType
      <4> QED
        BY <3>1, <4>3 DEF Ledger!LedgerNext, Ledger!VoteType, VoteType
    <3> QED
      BY <3>1, <3>3, <3>4
  <2> QED
    BY <1>2, <2>0, <2>1, <2>2, TableSteps
<1>3. VotesInv /\ [Next]_vars => VotesInv'
  BY NextVotesInv
<1> QED
  BY <1>1, <1>2, <1>3, InitVotesInv, PTL DEF Spec, ImplementsLedger, Ledger!LedgerSpec

-----------------------------------------------------------------------------
(* Counting follows the votes, whatever the clients send                   *)

\* Nothing is due before the vote is stored.
DueInv == \A w \in Workers : pc[w] # "count" => due[w] = "none"

LEMMA NextDueInv ==
  ASSUME IInv, DueInv, [Next]_vars
  PROVE  DueInv'
<1>1. /\ pc \in [Workers -> {"idle", "get", "write", "remove", "count"}]
      /\ due \in [Workers -> {"none", "yes", "no"}]
  BY DEF IInv, TypeInv, LocalsOK
<1>2. ASSUME NEW w \in Workers, NEW c \in Command, Begin(w, c) PROVE DueInv'
  BY <1>1, <1>2 DEF Begin, DueInv
<1>3. ASSUME NEW w \in Workers, Step(w) PROVE DueInv'
  BY <1>1, <1>3
  DEF Step, DueInv, GetAndReturn, GetAndProceed, GetFails, WriteSucceeds, WriteRetries,
      WriteConflicts, WriteResponseLost, WriteAnswerUnreadable, WriteRequestLost, CallCounters,
      RemoveSucceeds, RemoveResponseLost, RemoveRequestLost, Finish, Resend
<1>4. ASSUME NEW w \in Workers, Crash(w) PROVE DueInv'
  BY <1>1, <1>4 DEF Crash, Finish, DueInv
<1>5. CASE UNCHANGED vars
  BY <1>5 DEF vars, DueInv
<1> QED
  BY <1>2, <1>3, <1>4, <1>5 DEF Next

\* Of two votes the table allows one after the other, the counter that is due
\* is the one of the class the vote comes into.
LEMMA AllowedCrossing ==
  ASSUME NEW old \in VoteType, NEW new, isVoteTypeChangeAllowed(old, new)
  PROVE  /\ CountersDue(old, new) = "yes" <=> IsPositive(new) /\ ~IsPositive(old)
         /\ CountersDue(old, new) = "no" <=> IsNegative(new) /\ ~IsNegative(old)
BY DEF CountersDue, isVoteTypeChangeAllowed, allowedVoteTransitions, VoteType, IsPositive,
       IsNegative

\* Whether the handler of a worker hears in this step that its update is stored.
Answered(w) == pc'[w] = "count" \/ (pc'[w] = "idle" /\ reply'[w] = "ok")

\* An update whose answer the handler does not get is not counted.
LEMMA UnansweredIsNotCounted ==
  ASSUME IInv, DueInv, Next, NEW w \in Workers, pc[w] = "write", ~WriteSucceeds(w)
  PROVE  ~Answered(w) /\ due'[w] = "none"
<1>0. /\ pc \in [Workers -> {"idle", "get", "write", "remove", "count"}]
      /\ due \in [Workers -> {"none", "yes", "no"}]
      /\ reply \in [Workers -> Replies]
      /\ due[w] = "none"
  BY DEF IInv, TypeInv, LocalsOK, DueInv
<1>1. pc'[w] # "count" => due'[w] = "none"
  BY NextDueInv DEF DueInv
<1>2. ASSUME NEW v \in Workers, v # w, Step(v) \/ Crash(v) \/ (\E c \in Command : Begin(v, c))
      PROVE  ~Answered(w)
  BY <1>2, OthersStay DEF SameLocals, SameAttempt, Answered
<1>3. ASSUME Step(w)
      PROVE  ~Answered(w)
  BY <1>0, <1>3
  DEF Step, GetAndReturn, GetAndProceed, GetFails, WriteRetries, WriteConflicts,
      WriteResponseLost, WriteAnswerUnreadable, WriteRequestLost, CallCounters, RemoveSucceeds,
      RemoveResponseLost, RemoveRequestLost, Resend, Finish, Answered
<1>4. ASSUME Crash(w) \/ (\E c \in Command : Begin(w, c))
      PROVE  ~Answered(w)
  BY <1>0, <1>4 DEF Crash, Finish, Begin, Answered
<1>5. ~Answered(w)
  BY <1>2, <1>3, <1>4 DEF Next
<1> QED
  BY <1>1, <1>5 DEF Answered

\* For any users, workers, requests and faults, removals included: of the Adds
\* whose item was not removed since they read it, those that are answered are
\* counted exactly when their update made the vote in the table cross over into
\* the counted class, and those that get no answer are never counted.
THEOREM CountingFollowsVotes == Spec => CountsFollowVotes
<1> DEFINE Follows ==
      \A w \in Workers, id \in VoteId :
        pc[w] = "write" /\ cmd[w].kind = "Add" /\ cmd[w].id = id /\ Trusted(w) =>
          LET old == GetRomance(id).active.type
              new == GetRomance(id)'.active.type
              answered == pc'[w] = "count" \/ (pc'[w] = "idle" /\ reply'[w] = "ok")
          IN  /\ due'[w] = "yes" <=> answered /\ IsPositive(new) /\ ~IsPositive(old)
              /\ due'[w] = "no" <=> answered /\ IsNegative(new) /\ ~IsNegative(old)
<1>1. ASSUME IInv, DueInv, Next
      PROVE  Follows
  <2> SUFFICES ASSUME NEW w \in Workers, NEW id \in VoteId, pc[w] = "write",
                      cmd[w].kind = "Add", cmd[w].id = id, Trusted(w)
               PROVE  LET old == GetRomance(id).active.type
                          new == GetRomance(id)'.active.type
                      IN  /\ due'[w] = "yes" <=>
                               Answered(w) /\ IsPositive(new) /\ ~IsPositive(old)
                          /\ due'[w] = "no" <=>
                               Answered(w) /\ IsNegative(new) /\ ~IsNegative(old)
    BY Zenon DEF Answered
  <2>1. CASE ~WriteSucceeds(w)
    BY <1>1, <2>1, UnansweredIsNotCounted
  <2>2. CASE WriteSucceeds(w)
    <3>1. ConditionHolds(w) /\ Store(w)
      BY <2>2 DEF WriteSucceeds
    <3> DEFINE old == GetRomance(id).active.type
    <3>2. /\ old \in VoteType
          /\ snap[w] = GetRomance(id)
          /\ isVoteTypeChangeAllowed(old, cmd[w].type)
          /\ VoteWritten(w).type = cmd[w].type
      BY <1>1, <3>1, WriterKind, VersionRead, TrustedWrite, TrustedDecision DEF Romance, Vote
    <3>3. GetRomance(id)'.active.type = cmd[w].type
      <4>1. LedgerOfTable'[id] = cmd[w].type
        BY <1>1, <3>1, <3>2, StoreWritesLedger DEF LedgerOfTable
      <4> QED
        BY <3>2, <4>1 DEF LedgerOfTable
    <3>4. Answered(w) /\ due'[w] = CountersDue(old, cmd[w].type)
      <4>1. /\ pc \in [Workers -> {"idle", "get", "write", "remove", "count"}]
            /\ due \in [Workers -> {"none", "yes", "no"}]
            /\ reply \in [Workers -> Replies]
        BY <1>1 DEF IInv, TypeInv, LocalsOK
      <4> QED
        BY <2>2, <3>2, <4>1 DEF WriteSucceeds, Finish, Answered
    <3> QED
      BY <3>2, <3>3, <3>4, AllowedCrossing
  <2> QED
    BY <2>1, <2>2
<1>2. Init => DueInv
  BY DEF Init, DueInv
<1>3. IInv /\ DueInv /\ [Next]_vars => DueInv'
  BY NextDueInv
<1>4. IInv /\ DueInv /\ [Next]_vars => [Follows]_vars
  BY <1>1
<1> QED
  BY <1>2, <1>3, <1>4, InitIInv, NextIInv, PTL DEF Spec, CountsFollowVotes

=============================================================================
