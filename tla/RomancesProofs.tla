---------------------------- MODULE RomancesProofs ----------------------------
(***************************************************************************)
(* Proofs about Romances: type correctness and the correctness of its      *)
(* optimistic locking, for any users, workers, request kinds, faults and   *)
(* retry bounds.                                                           *)
(***************************************************************************)
EXTENDS Romances, TLAPS

-----------------------------------------------------------------------------
(* Facts about the operators                                               *)

\* The primary key of a vote id is an ordered pair of different users.
LEMMA KeyIsPrimary ==
  ASSUME NEW id \in VoteId
  PROVE  NewRomancePrimaryKey(id) \in PrimaryKey
<1>1. PICK a \in Users, b \in Users : id = <<a, b>> /\ a # b
  BY DEF VoteId
<1>2. a \in Int /\ b \in Int
  BY UsersAssumption
<1>3. CASE a < b
  BY <1>1, <1>2, <1>3 DEF PrimaryKey, NewRomancePrimaryKey
<1>4. CASE b < a
  BY <1>1, <1>2, <1>4 DEF PrimaryKey, NewRomancePrimaryKey
<1> QED
  BY <1>1, <1>2, <1>3, <1>4

\* Both directions of a pair of users have the same item, and are different
\* sides of it.
LEMMA KeyIsSymmetric ==
  ASSUME NEW id \in VoteId
  PROVE  /\ <<id[2], id[1]>> \in VoteId
         /\ NewRomancePrimaryKey(<<id[2], id[1]>>) = NewRomancePrimaryKey(id)
         /\ isPartitionKey(<<id[2], id[1]>>) = ~isPartitionKey(id)
<1>1. PICK a \in Users, b \in Users : id = <<a, b>> /\ a # b
  BY DEF VoteId
<1>2. a \in Int /\ b \in Int
  BY UsersAssumption
<1>3. <<b, a>> \in VoteId
  BY <1>1 DEF VoteId
<1> QED
  BY <1>1, <1>2, <1>3 DEF NewRomancePrimaryKey, isPartitionKey

LEMMA AbsentType == Absent \in Item /\ EmptyRomance \in Romance /\ EmptyVote \in Vote
BY DEF Absent, Item, EmptyVote, Vote, VoteType, EmptyRomance, Romance

LEMMA TtlType ==
  ASSUME NEW a, NEW p
  PROVE  getTtlSecondsForVotesPair(a, p) \in Ttl
BY DEF getTtlSecondsForVotesPair, Ttl

LEMMA EntityType ==
  ASSUME NEW item \in Item, NEW id
  PROVE  transformRomanceItemToEntity(item, id) \in Romance
BY DEF transformRomanceItemToEntity, Item, Romance

LEMMA GetRomanceType ==
  ASSUME romances \in [PrimaryKey -> Item], NEW id \in VoteId
  PROVE  /\ StoredItem(id) \in Item
         /\ GetRomance(id) \in Romance
BY KeyIsPrimary, EntityType, AbsentType DEF GetRomance, StoredItem

LEMMA SetActiveVoteType ==
  ASSUME NEW item \in Item, NEW id, NEW vote \in Vote
  PROVE  SetActiveVote(item, id, vote) \in Item
BY DEF SetActiveVote, Item

LEMMA RefusalType ==
  ASSUME NEW c, NEW rom
  PROVE  Refusal(c, rom) \in Replies
BY DEF Refusal, AddRefusal, ChangeRefusal, DeleteVoteRefusal, Replies

LEMMA CommandType ==
  ASSUME NEW c \in Command
  PROVE  /\ c.kind \in Kind
         /\ c.id \in VoteId
         /\ c.type \in VoteType
         /\ c.kind \in {"Add", "Change"} => ~IsEmpty(c.type)
BY TypesAssumption DEF Command, Kind, IsEmpty, VoteType, AddUserVoteType, ChangeUserVoteType

-----------------------------------------------------------------------------
(* Type correctness                                                        *)

\* The conjuncts of TypeOK, by the steps that disturb them together.
TableOK == romances \in [PrimaryKey -> Item]
LocalsOK ==
  /\ pc \in [Workers -> {"idle", "get", "write", "remove", "count"}]
  /\ cmd \in [Workers -> Command \cup {NoCommand}]
  /\ snap \in [Workers -> Romance]
  /\ tries \in [Workers -> 0..MaxRetries]
  /\ sends \in [Workers -> 0..MaxSends]
  /\ due \in [Workers -> {"none", "yes", "no"}]
  /\ reply \in [Workers -> Replies]
  /\ unanswered \in [Workers -> 0..(MaxRetries + 1)]
HistoryOK ==
  /\ fresh \in [Workers -> BOOLEAN]
  /\ moves \in [Workers -> 0..(MaxRetries + 1)]
\* A worker that is not idle has a request.
Busy == \A w \in Workers : pc[w] # "idle" => cmd[w] \in Command

\* A worker with a vote request in hand serves an add, a change or a deletion.
TypeInv == TableOK /\ LocalsOK /\ HistoryOK /\ Busy

LEMMA FinishType ==
  ASSUME LocalsOK, Busy, NEW w \in Workers, NEW r \in Replies, Finish(w, r)
  PROVE  LocalsOK' /\ Busy'
BY MaxRetriesAssumption, MaxSendsAssumption, AbsentType DEF LocalsOK, Busy, Finish

LEMMA OneMoreType ==
  ASSUME NEW n \in 0..(MaxRetries + 1)
  PROVE  /\ OneMore(n) \in 0..(MaxRetries + 1)
         /\ OneMore(n) = n + 1 \/ (OneMore(n) = n /\ n = MaxRetries + 1)
BY MaxRetriesAssumption DEF OneMore

LEMMA ResendType ==
  ASSUME LocalsOK, Busy, NEW w \in Workers, NEW applied, Resend(w, applied)
  PROVE  LocalsOK' /\ Busy'
<1>1. CASE Finish(w, "error")
  BY <1>1, FinishType DEF Replies
<1>2. CASE /\ sends[w] + 1 < MaxSends
           /\ sends' = [sends EXCEPT ![w] = @ + 1]
           /\ unanswered' = [unanswered EXCEPT ![w] = IF applied THEN OneMore(@) ELSE @]
           /\ UNCHANGED <<pc, cmd, snap, tries, due, reply>>
  BY <1>2, MaxSendsAssumption, OneMoreType DEF LocalsOK, Busy
<1> QED
  BY <1>1, <1>2 DEF Resend

LEMMA HistoryType ==
  ASSUME HistoryOK, NEW w, NEW key
  PROVE  /\ Moved(w, key) => moves' \in [Workers -> 0..(MaxRetries + 1)]
         /\ Removed(key) => fresh' \in [Workers -> BOOLEAN]
<1>1. Moved(w, key) => moves' \in [Workers -> 0..(MaxRetries + 1)]
  BY OneMoreType DEF HistoryOK, Moved
<1>2. Removed(key) => fresh' \in [Workers -> BOOLEAN]
  BY Zenon DEF HistoryOK, Removed
<1> QED
  BY <1>1, <1>2

\* What an update stores is an item, one version up from the romance it was
\* computed from.
LEMMA UpdateItemType ==
  ASSUME NEW item \in Item, NEW id, NEW rom \in Romance, NEW vote \in Vote
  PROVE  /\ UpdateItem(item, id, rom, vote) \in Item
         /\ UpdateItem(item, id, rom, vote).version = rom.version + 1
<1>1. SetActiveVote(item, id, vote) \in Item
  BY SetActiveVoteType
<1>2. rom.version + 1 \in Nat
  BY DEF Romance
<1> QED
  BY <1>1, <1>2, TtlType DEF UpdateItem, Item

LEMMA WrittenType ==
  ASSUME TypeInv, NEW w \in Workers, pc[w] = "write"
  PROVE  /\ ItemWritten(w) \in Item
         /\ ItemWritten(w).version = snap[w].version + 1
<1>1. /\ StoredItem(cmd[w].id) \in Item
      /\ cmd[w].type \in VoteType
      /\ snap[w] \in Romance
  BY CommandType, GetRomanceType DEF TypeInv, TableOK, LocalsOK, Busy
<1>2. PICK vote \in Vote :
        ItemWritten(w) = UpdateItem(StoredItem(cmd[w].id), cmd[w].id, snap[w], vote)
  <2> DEFINE stored == transformRomanceItemToEntity(StoredItem(cmd[w].id), cmd[w].id).active
  <2>1. /\ [type |-> cmd[w].type, stamped |-> TRUE] \in Vote
        /\ [type |-> cmd[w].type, stamped |-> stored.stamped] \in Vote
        /\ EmptyVote \in Vote
    BY <1>1, EntityType, AbsentType DEF Vote, Romance
  <2> QED
    BY <2>1 DEF ItemWritten, AddActiveUserVoteToRomance, ChangeActiveUserVoteTypeInRomance,
                DeleteActiveUserVoteFromRomance
<1> QED
  BY <1>1, <1>2, UpdateItemType

LEMMA StoreType ==
  ASSUME TypeInv, NEW w \in Workers, pc[w] = "write", Store(w)
  PROVE  TableOK' /\ moves' \in [Workers -> 0..(MaxRetries + 1)]
<1>1. Key(w) \in PrimaryKey
  BY CommandType, KeyIsPrimary DEF Key, TypeInv, Busy
<1> QED
  BY <1>1, WrittenType, HistoryType DEF Store, TypeInv, TableOK

LEMMA RemoveItemType ==
  ASSUME TypeInv, NEW w, NEW key \in PrimaryKey, RemoveItem(w, key)
  PROVE  TableOK' /\ HistoryOK'
<1>1. TableOK'
  BY AbsentType DEF RemoveItem, TypeInv, TableOK
<1>2. HistoryOK'
  BY HistoryType DEF RemoveItem, TypeInv, HistoryOK
<1> QED
  BY <1>1, <1>2

LEMMA InitTypeInv == Init => TypeInv
BY AbsentType, MaxRetriesAssumption, MaxSendsAssumption
DEF Init, TypeInv, TableOK, LocalsOK, HistoryOK, Busy, Replies

LEMMA StepTypeInv ==
  ASSUME TypeInv, NEW w \in Workers, Step(w)
  PROVE  TypeInv'
<1>0. TableOK /\ LocalsOK /\ HistoryOK /\ Busy
  BY DEF TypeInv
<1>1. CASE GetAndReturn(w)
  BY <1>0, <1>1, FinishType, RefusalType DEF GetAndReturn, TypeInv, TableOK, HistoryOK
<1>2. CASE GetAndProceed(w)
  <2>1. GetRomance(cmd[w].id) \in Romance
    BY <1>0, <1>2, CommandType, GetRomanceType DEF GetAndProceed, TableOK, Busy
  <2> QED
    BY <1>0, <1>2, <2>1 DEF GetAndProceed, TypeInv, TableOK, LocalsOK, HistoryOK, Busy
<1>3. CASE GetFails(w)
  BY <1>0, <1>3, FinishType DEF GetFails, Replies, TypeInv, TableOK, HistoryOK
<1>4. CASE WriteSucceeds(w)
  <2>1. TableOK' /\ HistoryOK'
    BY <1>0, <1>4, StoreType DEF WriteSucceeds, HistoryOK
  <2>2. LocalsOK' /\ Busy'
    <3>1. CASE Finish(w, "ok")
      BY <1>0, <3>1, FinishType DEF Replies
    <3>2. CASE /\ pc' = [pc EXCEPT ![w] = "count"]
               /\ \E d \in {"yes", "no"} : due' = [due EXCEPT ![w] = d]
               /\ UNCHANGED <<cmd, snap, tries, sends, reply, unanswered>>
      <4> PICK d \in {"yes", "no"} : due' = [due EXCEPT ![w] = d]
        BY <3>2
      <4> QED
        BY <1>0, <1>4, <3>2 DEF WriteSucceeds, LocalsOK, Busy
    <3> QED
      BY <1>4, <3>1, <3>2 DEF WriteSucceeds, CountersDue
  <2> QED
    BY <2>1, <2>2 DEF TypeInv
<1>5. CASE WriteRetries(w)
  BY <1>0, <1>5, AbsentType, MaxRetriesAssumption, MaxSendsAssumption
  DEF WriteRetries, TypeInv, TableOK, LocalsOK, HistoryOK, Busy
<1>6. CASE WriteConflicts(w)
  BY <1>0, <1>6, FinishType DEF WriteConflicts, Replies, TypeInv, TableOK, HistoryOK
<1>7. CASE WriteResponseLost(w)
  <2>1. TableOK' /\ HistoryOK'
    BY <1>0, <1>7, StoreType DEF WriteResponseLost, TableOK, HistoryOK
  <2> QED
    BY <1>0, <1>7, <2>1, ResendType DEF WriteResponseLost, TypeInv
<1>8. CASE WriteRequestLost(w)
  BY <1>0, <1>8, ResendType DEF WriteRequestLost, TypeInv, TableOK, HistoryOK
<1>12. CASE WriteAnswerUnreadable(w)
  <2>1. TableOK' /\ HistoryOK'
    BY <1>0, <1>12, StoreType DEF WriteAnswerUnreadable, HistoryOK
  <2> QED
    BY <1>0, <1>12, <2>1, FinishType DEF WriteAnswerUnreadable, Replies, TypeInv
<1>9. CASE CallCounters(w)
  BY <1>0, <1>9, FinishType DEF CallCounters, Replies, TypeInv, TableOK, HistoryOK
<1>10. CASE RemoveSucceeds(w) \/ RemoveResponseLost(w)
  <2>1. Key(w) \in PrimaryKey
    BY <1>0, <1>10, CommandType, KeyIsPrimary DEF RemoveSucceeds, RemoveResponseLost, Key, Busy
  <2>2. TableOK' /\ HistoryOK'
    BY <1>10, <2>1, RemoveItemType DEF RemoveSucceeds, RemoveResponseLost
  <2>3. LocalsOK' /\ Busy'
    BY <1>0, <1>10, FinishType, ResendType DEF RemoveSucceeds, RemoveResponseLost, Replies
  <2> QED
    BY <2>2, <2>3 DEF TypeInv
<1>11. CASE RemoveRequestLost(w)
  BY <1>0, <1>11, ResendType DEF RemoveRequestLost, TypeInv, TableOK, HistoryOK
<1> QED
  BY <1>1, <1>2, <1>3, <1>4, <1>5, <1>6, <1>7, <1>8, <1>9, <1>10, <1>11, <1>12 DEF Step

LEMMA BeginTypeInv ==
  ASSUME TypeInv, NEW w \in Workers, NEW c \in Command, Begin(w, c)
  PROVE  TypeInv'
BY MaxRetriesAssumption
DEF Begin, TypeInv, TableOK, LocalsOK, HistoryOK, Busy, Replies

LEMMA CrashTypeInv ==
  ASSUME TypeInv, NEW w \in Workers, Crash(w)
  PROVE  TypeInv'
BY FinishType DEF Crash, Replies, TypeInv, TableOK, HistoryOK

LEMMA NextTypeInv == TypeInv /\ [Next]_vars => TypeInv'
<1>1. TypeInv /\ UNCHANGED vars => TypeInv'
  BY DEF vars, TypeInv, TableOK, LocalsOK, HistoryOK, Busy
<1> QED
  BY <1>1, StepTypeInv, BeginTypeInv, CrashTypeInv DEF Next

\* Every variable keeps its type, whatever the requests, the faults and the
\* number of users and workers.
THEOREM TypeCorrect == Spec => []TypeOK
<1>1. TypeInv => TypeOK
  BY DEF TypeInv, TableOK, LocalsOK, HistoryOK, TypeOK
<1> QED
  BY <1>1, InitTypeInv, NextTypeInv, PTL DEF Spec

-----------------------------------------------------------------------------
(* The inductive invariant of the optimistic locking                       *)

\* Version 0 means no item: a stored item has been written at least once.
VersionZeroIsAbsent ==
  \A key \in PrimaryKey : romances[key].version = 0 => romances[key] = Absent

\* What a worker about to write knows: its request passed the checks on the
\* romance it read, and while the item was not removed, the version it read is
\* at most the stored one and equal only if the romance is still the same.
SnapshotInv(w) ==
  pc[w] = "write" =>
    /\ Refusal(cmd[w], snap[w]) = "none"
    /\ snap[w].version = 0 => snap[w] = EmptyRomance
    /\ fresh[w] =>
         /\ snap[w].version <= GetRomance(cmd[w].id).version
         /\ snap[w].version = GetRomance(cmd[w].id).version => snap[w] = GetRomance(cmd[w].id)

\* How often a withdrawal has been applied without an answer: its repetitions.
Repeated(w) == IF cmd[w].kind = "DeleteVote" THEN unanswered[w] ELSE 0

\* Every conflict it has retried, and the difference it is about to run into,
\* is paid for by a change of the item since it began: one by somebody else, or
\* one of its own that got no answer.  A read that lets an add or a change go
\* on has not found its own vote, so nothing of its own is left to pay with.
RetryInv(w) ==
  /\ pc[w] = "get" => tries[w] <= moves[w] + OwnConflicts(w)
  /\ pc[w] = "write" => tries[w] <= moves[w] + Repeated(w)
  /\ pc[w] = "write" /\ snap[w] # GetRomance(cmd[w].id) => tries[w] < moves[w] + OwnConflicts(w)

LockInv ==
  /\ VersionZeroIsAbsent
  /\ \A w \in Workers : SnapshotInv(w) /\ RetryInv(w)

IInv == TypeInv /\ LockInv

\* The stored version is the version a reader sees.
LEMMA VersionRead ==
  ASSUME IInv, NEW id \in VoteId
  PROVE  /\ StoredItem(id) \in Item
         /\ GetRomance(id) \in Romance
         /\ GetRomance(id).version = StoredItem(id).version
         /\ GetRomance(id).version = 0 => StoredItem(id) = Absent /\ GetRomance(id) = EmptyRomance
<1>1. /\ StoredItem(id) \in Item
      /\ GetRomance(id) \in Romance
  BY GetRomanceType DEF IInv, TypeInv, TableOK
<1>2. StoredItem(id).version = 0 => StoredItem(id) = Absent
  BY KeyIsPrimary DEF IInv, LockInv, VersionZeroIsAbsent, StoredItem
<1>3. StoredItem(id) = Absent => GetRomance(id) = EmptyRomance /\ StoredItem(id).version = 0
  BY DEF GetRomance, Absent
<1>4. StoredItem(id) # Absent => GetRomance(id).version = StoredItem(id).version
  BY DEF GetRomance, transformRomanceItemToEntity
<1> QED
  BY <1>1, <1>2, <1>3, <1>4 DEF EmptyRomance

\* The worker that writes serves a vote request, and a romance it read as
\* absent can only be added to.
LEMMA WriterKind ==
  ASSUME IInv, NEW w \in Workers, pc[w] = "write"
  PROVE  /\ cmd[w] \in Command
         /\ cmd[w].id \in VoteId
         /\ Key(w) \in PrimaryKey
         /\ snap[w] \in Romance
         /\ cmd[w].kind \in {"Add", "Change", "DeleteVote"}
         /\ snap[w].version = 0 => cmd[w].kind = "Add"
<1>1. /\ cmd[w] \in Command
      /\ cmd[w].id \in VoteId
      /\ snap[w] \in Romance
  BY CommandType DEF IInv, TypeInv, Busy, LocalsOK
<1>2. Key(w) \in PrimaryKey
  BY <1>1, KeyIsPrimary DEF Key
<1>3. /\ Refusal(cmd[w], snap[w]) = "none"
      /\ snap[w].version = 0 => snap[w] = EmptyRomance
  BY DEF IInv, LockInv, SnapshotInv
<1>4. cmd[w].kind \in {"Add", "Change", "DeleteVote"}
  BY <1>3 DEF Refusal
<1>5. snap[w].version = 0 => cmd[w].kind = "Add"
  BY <1>3, <1>4
  DEF Refusal, ChangeRefusal, DeleteVoteRefusal, RomanceIsEmpty, EmptyRomance, EmptyVote, IsEmpty
<1> QED
  BY <1>1, <1>2, <1>4, <1>5

\* An update passes its condition exactly when the version it read is the
\* stored one.
LEMMA ConditionIsVersion ==
  ASSUME IInv, NEW w \in Workers, pc[w] = "write"
  PROVE  ConditionHolds(w) <=> snap[w].version = GetRomance(cmd[w].id).version
<1>1. /\ cmd[w].id \in VoteId
      /\ snap[w] \in Romance
      /\ cmd[w].kind \in {"Add", "Change", "DeleteVote"}
      /\ snap[w].version = 0 => cmd[w].kind = "Add"
  BY WriterKind
<1>2. StoredItem(cmd[w].id) = Absent <=> GetRomance(cmd[w].id).version = 0
  BY <1>1, VersionRead DEF Absent
<1>3. GetRomance(cmd[w].id).version = StoredItem(cmd[w].id).version
  BY <1>1, VersionRead
<1> QED
  BY <1>1, <1>2, <1>3 DEF ConditionHolds, AddCondition, VersionIsExpected

\* The invariant implies that no update is lost.
LEMMA LockInvNoLostUpdate == IInv => NoLostUpdate
<1> SUFFICES ASSUME IInv, NEW w \in Workers, pc[w] = "write", Trusted(w), ConditionHolds(w)
             PROVE  snap[w] = GetRomance(cmd[w].id)
  BY DEF NoLostUpdate
<1>1. snap[w].version = GetRomance(cmd[w].id).version
  BY ConditionIsVersion
<1>2. CASE fresh[w]
  BY <1>1, <1>2 DEF IInv, LockInv, SnapshotInv
<1>3. CASE snap[w].version = 0
  BY <1>1, <1>3, WriterKind, VersionRead DEF IInv, LockInv, SnapshotInv
<1> QED
  BY <1>2, <1>3 DEF Trusted

-----------------------------------------------------------------------------
(* The invariant is preserved: first for a worker whose own locals stay,   *)
(* by what the step does to the table.                                     *)

WorkerInv(v) == SnapshotInv(v) /\ RetryInv(v)
SameAttempt(v) == pc'[v] = pc[v] /\ cmd'[v] = cmd[v] /\ snap'[v] = snap[v] /\ tries'[v] = tries[v]
SameLocals(v) == SameAttempt(v) /\ unanswered'[v] = unanswered[v]

\* A worker that is neither reading nor writing owes nothing.
LEMMA AtRest ==
  ASSUME NEW v \in Workers, pc'[v] \notin {"get", "write"}
  PROVE  WorkerInv(v)'
BY DEF WorkerInv, SnapshotInv, RetryInv

\* The vote an unanswered add or change left is worth one conflict, and no more.
LEMMA OwnBounds ==
  ASSUME TypeInv, NEW v \in Workers
  PROVE  /\ Repeated(v) \in Nat
         /\ OwnConflicts(v) \in Nat
         /\ Repeated(v) <= OwnConflicts(v)
         /\ OwnConflicts(v) <= Repeated(v) + 1
BY MaxRetriesAssumption DEF TypeInv, LocalsOK, Repeated, OwnConflicts

LEMMA CountsAreNumbers ==
  ASSUME TypeInv, NEW v \in Workers
  PROVE  /\ tries[v] \in Nat /\ tries[v] <= MaxRetries
         /\ moves[v] \in Nat /\ moves[v] <= MaxRetries + 1
         /\ unanswered[v] \in Nat /\ unanswered[v] <= MaxRetries + 1
BY MaxRetriesAssumption DEF TypeInv, LocalsOK, HistoryOK

LEMMA TableStays ==
  ASSUME IInv, NEW v \in Workers, SameLocals(v),
         romances' = romances, fresh'[v] = fresh[v], moves'[v] = moves[v]
  PROVE  WorkerInv(v)'
<1>1. GetRomance(cmd[v].id)' = GetRomance(cmd[v].id)
  BY DEF SameLocals, SameAttempt, GetRomance, StoredItem
<1>2. SnapshotInv(v) /\ RetryInv(v)
  BY DEF IInv, LockInv
<1>3. OwnConflicts(v)' = OwnConflicts(v) /\ Repeated(v)' = Repeated(v)
  BY <1>1 DEF SameLocals, SameAttempt, OwnConflicts, Repeated
<1> QED
  BY <1>1, <1>2, <1>3 DEF WorkerInv, SnapshotInv, RetryInv, SameLocals, SameAttempt

\* Another key's item changes.
LEMMA OtherItemChanges ==
  ASSUME IInv, NEW v \in Workers, SameLocals(v), NEW key, NEW item,
         romances' = [romances EXCEPT ![key] = item], v \notin Concerned(key),
         fresh'[v] = fresh[v], moves'[v] = moves[v]
  PROVE  WorkerInv(v)'
<1>1. CASE pc[v] \notin {"get", "write"}
  BY <1>1, AtRest DEF SameLocals, SameAttempt
<1>2. CASE pc[v] \in {"get", "write"}
  <2>1. Key(v) # key
    BY <1>2 DEF Concerned
  <2>2. Key(v) \in PrimaryKey
    BY <1>2, CommandType, KeyIsPrimary DEF Key, IInv, TypeInv, Busy
  <2>3. romances'[Key(v)] = romances[Key(v)]
    BY <2>1, <2>2 DEF IInv, TypeInv, TableOK
  <2>4. GetRomance(cmd[v].id)' = GetRomance(cmd[v].id)
    BY <2>3 DEF SameLocals, SameAttempt, GetRomance, StoredItem, Key
  <2>5. SnapshotInv(v) /\ RetryInv(v)
    BY DEF IInv, LockInv
  <2>6. OwnConflicts(v)' = OwnConflicts(v) /\ Repeated(v)' = Repeated(v)
    BY <2>4 DEF SameLocals, SameAttempt, OwnConflicts, Repeated
  <2> QED
    BY <2>4, <2>5, <2>6 DEF WorkerInv, SnapshotInv, RetryInv, SameLocals, SameAttempt
<1> QED
  BY <1>1, <1>2

\* The history variables after a change, by w, of the item under a key.
LEMMA MovedCounts ==
  ASSUME IInv, NEW w, NEW key, NEW v \in Workers
  PROVE  /\ Moved(w, key) /\ v \in Concerned(key) \ {w} =>
              moves'[v] \in Nat /\ (moves'[v] = moves[v] + 1 \/ tries[v] < moves'[v])
         /\ Moved(w, key) /\ v \notin Concerned(key) \ {w} => moves'[v] = moves[v]
         /\ Removed(key) /\ v \in Concerned(key) => ~fresh'[v]
         /\ Removed(key) /\ v \notin Concerned(key) => fresh'[v] = fresh[v]
<1>1. /\ tries[v] \in 0..MaxRetries
      /\ moves[v] \in 0..(MaxRetries + 1)
      /\ fresh[v] \in BOOLEAN
  BY DEF IInv, TypeInv, LocalsOK, HistoryOK
<1>2. Moved(w, key) => moves'[v] = IF v \in Concerned(key) \ {w} THEN OneMore(moves[v])
                                  ELSE moves[v]
  BY DEF Moved
<1>3. Removed(key) => fresh'[v] = (fresh[v] /\ v \notin Concerned(key))
  BY Zenon DEF Removed
<1>4. Moved(w, key) /\ v \in Concerned(key) \ {w} =>
        moves'[v] \in Nat /\ (moves'[v] = moves[v] + 1 \/ tries[v] < moves'[v])
  <2> SUFFICES ASSUME Moved(w, key), v \in Concerned(key) \ {w}
               PROVE  moves'[v] \in Nat /\ (moves'[v] = moves[v] + 1 \/ tries[v] < moves'[v])
    OBVIOUS
  <2>1. moves'[v] = OneMore(moves[v])
    BY <1>2
  <2> QED
    BY <1>1, <2>1, OneMoreType, MaxRetriesAssumption
<1>5. Moved(w, key) /\ v \notin Concerned(key) \ {w} => moves'[v] = moves[v]
  BY <1>2
<1>6. Removed(key) /\ v \in Concerned(key) => ~fresh'[v]
  BY <1>3
<1>7. Removed(key) /\ v \notin Concerned(key) => fresh'[v] = fresh[v]
  BY <1>1, <1>3
<1> QED
  BY <1>4, <1>5, <1>6, <1>7

\* A change by somebody else pays for one more conflict, whatever it does to
\* the vote an unanswered update had left.
LEMMA OtherMoves ==
  ASSUME IInv, NEW v \in Workers, SameLocals(v), pc[v] \in {"get", "write"},
         moves'[v] \in Nat, moves'[v] = moves[v] + 1 \/ tries[v] < moves'[v]
  PROVE  RetryInv(v)'
<1>1. /\ tries[v] \in Nat /\ moves[v] \in Nat
      /\ Repeated(v) \in Nat /\ OwnConflicts(v) \in Nat
      /\ OwnConflicts(v) <= Repeated(v) + 1
      /\ Repeated(v) <= OwnConflicts(v)
  BY CountsAreNumbers, OwnBounds DEF IInv
<1>2. /\ Repeated(v)' = Repeated(v)
      /\ OwnConflicts(v)' \in Nat /\ Repeated(v)' <= OwnConflicts(v)'
  <2>1. unanswered[v] \in Nat
    BY CountsAreNumbers DEF IInv
  <2> QED
    BY <2>1 DEF SameLocals, SameAttempt, Repeated, OwnConflicts
<1>3. /\ pc[v] = "get" => tries[v] <= moves[v] + OwnConflicts(v)
      /\ pc[v] = "write" => tries[v] <= moves[v] + Repeated(v)
  BY DEF IInv, LockInv, RetryInv
<1>4. pc[v] = "get" => tries[v] <= moves'[v] + OwnConflicts(v)'
  BY <1>1, <1>2, <1>3
<1>5. pc[v] = "write" =>
        tries[v] < moves'[v] + Repeated(v)' /\ tries[v] < moves'[v] + OwnConflicts(v)'
  BY <1>1, <1>2, <1>3
<1>6. pc[v] = "write" => tries[v] <= moves'[v] + Repeated(v)'
  BY <1>1, <1>2, <1>5
<1> QED
  BY <1>4, <1>5, <1>6 DEF RetryInv, SameLocals, SameAttempt

\* What an update leaves under its key: one version above what was there.
LEMMA StoreRaisesVersion ==
  ASSUME IInv, NEW w \in Workers, pc[w] = "write", ConditionHolds(w), Store(w)
  PROVE  /\ romances' = [romances EXCEPT ![Key(w)] = ItemWritten(w)]
         /\ romances'[Key(w)] = ItemWritten(w)
         /\ ItemWritten(w).version = romances[Key(w)].version + 1
         /\ romances[Key(w)].version \in Nat
<1>1. /\ cmd[w].id \in VoteId
      /\ Key(w) \in PrimaryKey
  BY WriterKind
<1>2. romances[Key(w)].version = GetRomance(cmd[w].id).version
  BY <1>1, VersionRead DEF StoredItem, Key
<1>3. ItemWritten(w).version = snap[w].version + 1
  BY WrittenType DEF IInv
<1>4. snap[w].version = GetRomance(cmd[w].id).version
  BY ConditionIsVersion
<1>5. romances'[Key(w)] = ItemWritten(w)
  BY <1>1 DEF Store, IInv, TypeInv, TableOK
<1>6. romances[Key(w)].version \in Nat
  BY <1>1 DEF IInv, TypeInv, TableOK, Item
<1> QED
  BY <1>2, <1>3, <1>4, <1>5, <1>6 DEF Store

\* A worker on the same item as an update by w, w itself included, knows that
\* the version it read is behind.
LEMMA StoreLeavesBehind ==
  ASSUME IInv, NEW w \in Workers, pc[w] = "write", ConditionHolds(w), Store(w),
         NEW v \in Concerned(Key(w)), SameAttempt(v), fresh'[v] = fresh[v]
  PROVE  SnapshotInv(v)'
<1>1. /\ v \in Workers
      /\ pc[v] \in {"get", "write"}
      /\ Key(v) = Key(w)
  BY DEF Concerned
<1>2. cmd[v].id \in VoteId
  BY <1>1, CommandType DEF IInv, TypeInv, Busy
<1>3. GetRomance(cmd[v].id)'.version = GetRomance(cmd[v].id).version + 1
  <2>1. /\ romances'[Key(v)].version = romances[Key(v)].version + 1
        /\ romances[Key(v)].version \in Nat
    BY <1>1, StoreRaisesVersion
  <2>2. romances'[Key(v)] # Absent
    BY <2>1 DEF Absent
  <2>3. GetRomance(cmd[v].id)'.version = romances'[Key(v)].version
    BY <2>2 DEF GetRomance, StoredItem, transformRomanceItemToEntity, SameAttempt, Key
  <2> QED
    BY <1>2, <2>1, <2>3, VersionRead DEF StoredItem, Key
<1>4. /\ GetRomance(cmd[v].id).version \in Nat
      /\ snap[v].version \in Nat
  BY <1>1, <1>2, VersionRead DEF Romance, IInv, TypeInv, LocalsOK
<1> SUFFICES ASSUME pc[v] = "write"
             PROVE  SnapshotInv(v)'
  BY DEF SnapshotInv, SameAttempt
<1>5. SnapshotInv(v)
  BY <1>1 DEF IInv, LockInv
<1>6. fresh[v] => snap[v].version < GetRomance(cmd[v].id)'.version
  BY <1>3, <1>4, <1>5 DEF SnapshotInv
<1>7. GetRomance(cmd[v].id)'.version \in Nat
  BY <1>3, <1>4
<1> QED
  BY <1>4, <1>5, <1>6, <1>7 DEF SnapshotInv, SameAttempt

\* Another worker than w while w updates its item.
LEMMA ItemStored ==
  ASSUME IInv, NEW w \in Workers, pc[w] = "write", ConditionHolds(w), Store(w),
         NEW v \in Workers, v # w, SameLocals(v), fresh'[v] = fresh[v]
  PROVE  WorkerInv(v)'
<1>1. romances' = [romances EXCEPT ![Key(w)] = ItemWritten(w)] /\ Moved(w, Key(w))
  BY DEF Store
<1>2. CASE v \notin Concerned(Key(w))
  BY <1>1, <1>2, MovedCounts, OtherItemChanges
<1>3. CASE v \in Concerned(Key(w))
  <2>1. pc[v] \in {"get", "write"}
    BY <1>3 DEF Concerned
  <2>2. moves'[v] \in Nat /\ (moves'[v] = moves[v] + 1 \/ tries[v] < moves'[v])
    BY <1>1, <1>3, MovedCounts
  <2>3. RetryInv(v)'
    BY <2>1, <2>2, OtherMoves
  <2>4. SnapshotInv(v)'
    BY <1>3, StoreLeavesBehind DEF SameLocals
  <2> QED
    BY <2>3, <2>4 DEF WorkerInv
<1> QED
  BY <1>2, <1>3

\* The vote an update of an add or a change leaves is the one it asked for.
LEMMA VoteStored ==
  ASSUME IInv, NEW w \in Workers, pc[w] = "write", ConditionHolds(w), Store(w),
         cmd'[w] = cmd[w], cmd[w].kind \in {"Add", "Change"}
  PROVE  GetRomance(cmd[w].id)'.active.type = cmd[w].type
<1> DEFINE id == cmd[w].id
<1>1. PICK stamped : ItemWritten(w) = UpdateItem(StoredItem(id), id, snap[w],
                                               [type |-> cmd[w].type, stamped |-> stamped])
  BY DEF ItemWritten, AddActiveUserVoteToRomance, ChangeActiveUserVoteTypeInRomance
<1>2. StoredItem(id) \in Item
  BY WriterKind, VersionRead
<1>3. transformRomanceItemToEntity(ItemWritten(w), id).active.type = cmd[w].type
  BY <1>1, <1>2 DEF UpdateItem, SetActiveVote, transformRomanceItemToEntity, Item
<1>4. romances'[Key(w)] = ItemWritten(w) /\ ItemWritten(w) # Absent
  BY StoreRaisesVersion DEF Absent
<1> QED
  BY <1>3, <1>4 DEF GetRomance, StoredItem, Key

\* The writer itself, whose update was applied without an answer.
LEMMA OwnUnanswered ==
  ASSUME IInv, NEW w \in Workers, pc[w] = "write", ConditionHolds(w), Store(w),
         SameAttempt(w), unanswered'[w] = OneMore(unanswered[w]), fresh'[w] = fresh[w]
  PROVE  WorkerInv(w)'
<1>1. w \in Concerned(Key(w))
  BY DEF Concerned
<1>2. SnapshotInv(w)'
  BY <1>1, StoreLeavesBehind
<1>3. moves'[w] = moves[w]
  BY MovedCounts DEF Store
<1>4. /\ tries[w] \in Nat /\ tries[w] <= MaxRetries /\ moves[w] \in Nat
      /\ unanswered[w] \in 0..(MaxRetries + 1)
      /\ tries[w] <= moves[w] + Repeated(w)
  BY CountsAreNumbers DEF IInv, LockInv, RetryInv, TypeInv, LocalsOK
<1>5. /\ unanswered'[w] \in Nat /\ unanswered'[w] > 0
      /\ unanswered'[w] = unanswered[w] + 1 \/ unanswered'[w] > tries[w]
  BY <1>4, OneMoreType, MaxRetriesAssumption
<1>6. CASE cmd[w].kind = "DeleteVote"
  <2>1. Repeated(w) = unanswered[w] /\ Repeated(w)' = unanswered'[w]
        /\ OwnConflicts(w)' = unanswered'[w]
    BY <1>6 DEF Repeated, OwnConflicts, SameAttempt
  <2>2. tries[w] < moves[w] + unanswered'[w]
    BY <1>4, <1>5, <2>1
  <2>3. tries[w] <= moves[w] + unanswered'[w]
    BY <1>4, <1>5, <2>2
  <2> QED
    BY <1>2, <1>3, <2>1, <2>2, <2>3 DEF WorkerInv, RetryInv, SameAttempt
<1>7. CASE cmd[w].kind \in {"Add", "Change"}
  <2>1. GetRomance(cmd[w].id)'.active.type = cmd[w].type
    BY <1>7, VoteStored DEF SameAttempt
  <2>2. Repeated(w) = 0 /\ Repeated(w)' = 0 /\ OwnConflicts(w)' = 1
    BY <1>5, <1>7, <2>1 DEF Repeated, OwnConflicts, SameAttempt, GetRomance, StoredItem
  <2>3. tries[w] <= moves[w] + 0 /\ tries[w] < moves[w] + 1
    BY <1>4, <2>2
  <2> QED
    BY <1>2, <1>3, <2>2, <2>3 DEF WorkerInv, RetryInv, SameAttempt
<1> QED
  BY <1>6, <1>7, WriterKind

\* A worker while another one removes an item.
LEMMA ItemRemoved ==
  ASSUME IInv, NEW w \in Workers, pc[w] = "remove", NEW key \in PrimaryKey, RemoveItem(w, key),
         NEW v \in Workers, SameLocals(v)
  PROVE  WorkerInv(v)'
<1>1. CASE romances[key] = Absent
  <2>1. romances' = romances
    BY <1>1 DEF RemoveItem, IInv, TypeInv, TableOK
  <2> QED
    BY <1>1, <2>1, TableStays DEF RemoveItem
<1>2. CASE romances[key] # Absent /\ v \notin Concerned(key)
  <2>1. fresh'[v] = fresh[v] /\ moves'[v] = moves[v]
    BY <1>2, MovedCounts DEF RemoveItem
  <2> QED
    BY <1>2, <2>1, OtherItemChanges DEF RemoveItem
<1>3. CASE romances[key] # Absent /\ v \in Concerned(key)
  <2>1. pc[v] \in {"get", "write"} /\ v # w
    BY <1>3 DEF Concerned
  <2>2. /\ moves'[v] \in Nat /\ (moves'[v] = moves[v] + 1 \/ tries[v] < moves'[v])
        /\ ~fresh'[v]
    BY <1>3, <2>1, MovedCounts DEF RemoveItem
  <2>3. RetryInv(v)'
    BY <2>1, <2>2, OtherMoves
  <2> QED
    BY <2>2, <2>3 DEF IInv, LockInv, WorkerInv, SnapshotInv, SameLocals, SameAttempt
<1> QED
  BY <1>1, <1>2, <1>3

-----------------------------------------------------------------------------
(* The invariant is preserved: one case per step                           *)

\* A step of w that writes no other worker's locals.
LEMMA OthersStay ==
  ASSUME IInv, NEW w \in Workers, Step(w) \/ Crash(w) \/ (\E c \in Command : Begin(w, c)),
         NEW v \in Workers, v # w
  PROVE  SameLocals(v)
<1>1. /\ pc' = [pc EXCEPT ![w] = pc'[w]]
      /\ cmd' = [cmd EXCEPT ![w] = cmd'[w]]
      /\ snap' = [snap EXCEPT ![w] = snap'[w]]
      /\ tries' = [tries EXCEPT ![w] = tries'[w]]
      /\ unanswered' = [unanswered EXCEPT ![w] = unanswered'[w]]
  BY DEF IInv, TypeInv, LocalsOK, Step, Crash, Begin, Finish, Resend, GetAndReturn, GetAndProceed,
         GetFails, WriteSucceeds, WriteRetries, WriteConflicts, WriteResponseLost,
         WriteAnswerUnreadable, WriteRequestLost, CallCounters, RemoveSucceeds,
         RemoveResponseLost, RemoveRequestLost
<1> QED
  BY <1>1 DEF IInv, TypeInv, LocalsOK, SameLocals, SameAttempt

LEMMA FinishRests ==
  ASSUME IInv, NEW w \in Workers, NEW r, Finish(w, r)
  PROVE  pc'[w] = "idle"
BY DEF Finish, IInv, TypeInv, LocalsOK

\* A resend leaves the caller where it is, or at rest; what it remembers of it
\* is whether the update was applied.
LEMMA ResendStays ==
  ASSUME IInv, NEW w \in Workers
  PROVE  /\ Resend(w, FALSE) => SameLocals(w) \/ pc'[w] = "idle"
         /\ Resend(w, TRUE) =>
              \/ SameAttempt(w) /\ unanswered'[w] = OneMore(unanswered[w])
              \/ pc'[w] = "idle"
BY FinishRests DEF Resend, SameLocals, SameAttempt, IInv, TypeInv, LocalsOK

LEMMA StoreKeepsLockInv ==
  ASSUME IInv, NEW w \in Workers, pc[w] = "write", ConditionHolds(w), Store(w),
         fresh' = fresh, \A v \in Workers : v # w => SameLocals(v),
         \/ SameAttempt(w) /\ unanswered'[w] = OneMore(unanswered[w])
         \/ pc'[w] \notin {"get", "write"}
  PROVE  LockInv'
<1>1. VersionZeroIsAbsent'
  <2> SUFFICES ASSUME NEW key \in PrimaryKey, romances'[key].version = 0
               PROVE  romances'[key] = Absent
    BY DEF VersionZeroIsAbsent
  <2>1. key # Key(w)
    BY StoreRaisesVersion
  <2>2. romances'[key] = romances[key]
    BY <2>1 DEF Store, IInv, TypeInv, TableOK
  <2> QED
    BY <2>2 DEF IInv, LockInv, VersionZeroIsAbsent
<1>2. ASSUME NEW v \in Workers PROVE WorkerInv(v)'
  BY ItemStored, OwnUnanswered, AtRest
<1> QED
  BY <1>1, <1>2 DEF LockInv, WorkerInv

LEMMA RemoveKeepsLockInv ==
  ASSUME IInv, NEW w \in Workers, pc[w] = "remove", NEW key \in PrimaryKey, RemoveItem(w, key),
         \A v \in Workers : v # w => SameLocals(v),
         SameLocals(w) \/ pc'[w] \notin {"get", "write"}
  PROVE  LockInv'
<1>1. VersionZeroIsAbsent'
  BY DEF RemoveItem, IInv, TypeInv, TableOK, LockInv, VersionZeroIsAbsent
<1>2. ASSUME NEW v \in Workers PROVE WorkerInv(v)'
  BY ItemRemoved, AtRest
<1> QED
  BY <1>1, <1>2 DEF LockInv, WorkerInv

LEMMA TableStaysLockInv ==
  ASSUME IInv, NEW w \in Workers, romances' = romances,
         \A v \in Workers : v # w => SameLocals(v) /\ fresh'[v] = fresh[v] /\ moves'[v] = moves[v],
         WorkerInv(w)'
  PROVE  LockInv'
<1>1. VersionZeroIsAbsent'
  BY DEF IInv, LockInv, VersionZeroIsAbsent
<1>2. ASSUME NEW v \in Workers PROVE WorkerInv(v)'
  BY TableStays
<1> QED
  BY <1>1, <1>2 DEF LockInv, WorkerInv

\* A read lets nobody go on who finds the vote it is to store.
LEMMA ReadFindsOwnVote ==
  ASSUME NEW w \in Workers, Refusal(cmd[w], GetRomance(cmd[w].id)) = "none"
  PROVE  OwnConflicts(w) = Repeated(w)
BY DEF Refusal, AddRefusal, ChangeRefusal, OwnConflicts, Repeated

LEMMA StepLockInv ==
  ASSUME IInv, NEW w \in Workers, Step(w)
  PROVE  LockInv'
<1>0. \A v \in Workers : v # w => SameLocals(v)
  BY OthersStay
<1>1. CASE GetAndReturn(w) \/ GetFails(w) \/ WriteConflicts(w) \/ CallCounters(w)
  <2>1. pc'[w] = "idle"
    BY <1>1, FinishRests DEF GetAndReturn, GetFails, WriteConflicts, CallCounters
  <2> QED
    BY <1>0, <1>1, <2>1, AtRest, TableStaysLockInv
    DEF GetAndReturn, GetFails, WriteConflicts, CallCounters
<1>2. CASE GetAndProceed(w)
  <2>1. cmd[w].id \in VoteId
    BY <1>2, CommandType DEF GetAndProceed, IInv, TypeInv, Busy
  <2>2. /\ snap'[w] = GetRomance(cmd[w].id)
        /\ GetRomance(cmd[w].id)' = GetRomance(cmd[w].id)
        /\ cmd' = cmd /\ tries' = tries /\ moves' = moves /\ unanswered' = unanswered
    BY <1>2 DEF GetAndProceed, IInv, TypeInv, LocalsOK, GetRomance, StoredItem
  <2>3. /\ GetRomance(cmd[w].id).version = 0 => GetRomance(cmd[w].id) = EmptyRomance
        /\ GetRomance(cmd[w].id).version \in Nat
    BY <2>1, VersionRead DEF Romance
  <2>4. /\ Refusal(cmd[w], GetRomance(cmd[w].id)) = "none"
        /\ tries[w] <= moves[w] + Repeated(w)
    BY <1>2, ReadFindsOwnVote DEF GetAndProceed, IInv, LockInv, RetryInv
  <2>5. Refusal(cmd[w], snap[w])' = Refusal(cmd[w], GetRomance(cmd[w].id))
    BY <2>2 DEF Refusal, AddRefusal, ChangeRefusal, DeleteVoteRefusal
  <2>6. SnapshotInv(w)'
    BY <2>2, <2>3, <2>4, <2>5 DEF SnapshotInv
  <2>7. RetryInv(w)'
    <3>1. pc'[w] = "write" /\ snap'[w] = GetRomance(cmd[w].id)' /\ cmd'[w] = cmd[w]
      BY <1>2, <2>2 DEF GetAndProceed, IInv, TypeInv, LocalsOK
    <3>2. Repeated(w)' = Repeated(w)
      BY <2>2 DEF Repeated
    <3> QED
      BY <2>2, <2>4, <3>1, <3>2 DEF RetryInv
  <2>8. ASSUME NEW v \in Workers, v # w PROVE fresh'[v] = fresh[v]
    BY <1>2, <2>8 DEF GetAndProceed, IInv, TypeInv, HistoryOK
  <2> QED
    BY <1>0, <1>2, <2>2, <2>6, <2>7, <2>8, TableStaysLockInv DEF GetAndProceed, WorkerInv
<1>3. CASE WriteSucceeds(w) \/ WriteAnswerUnreadable(w)
  <2>1. pc'[w] \notin {"get", "write"}
    BY <1>3, FinishRests DEF WriteSucceeds, WriteAnswerUnreadable, IInv, TypeInv, LocalsOK
  <2> QED
    BY <1>0, <1>3, <2>1, StoreKeepsLockInv DEF WriteSucceeds, WriteAnswerUnreadable
<1>4. CASE WriteRetries(w)
  <2>1. /\ pc'[w] = "get" /\ tries'[w] = tries[w] + 1 /\ moves'[w] = moves[w]
        /\ cmd' = cmd /\ unanswered' = unanswered /\ romances' = romances
    BY <1>4 DEF WriteRetries, IInv, TypeInv, LocalsOK
  <2>2. snap[w] # GetRomance(cmd[w].id)
    BY <1>4, ConditionIsVersion DEF WriteRetries
  <2>3. /\ tries[w] < moves[w] + OwnConflicts(w)
        /\ tries[w] \in Nat /\ moves[w] \in Nat /\ OwnConflicts(w) \in Nat
    BY <1>4, <2>2, CountsAreNumbers, OwnBounds DEF WriteRetries, IInv, LockInv, RetryInv
  <2>4. OwnConflicts(w)' = OwnConflicts(w)
    BY <2>1 DEF OwnConflicts, GetRomance, StoredItem
  <2>5. tries'[w] <= moves'[w] + OwnConflicts(w)'
    BY <2>1, <2>3, <2>4
  <2>6. WorkerInv(w)'
    BY <2>1, <2>5 DEF WorkerInv, SnapshotInv, RetryInv
  <2> QED
    BY <1>0, <1>4, <2>6, TableStaysLockInv DEF WriteRetries
<1>5. CASE WriteResponseLost(w)
  <2>1. CASE ConditionHolds(w) /\ Store(w) /\ Resend(w, TRUE)
    BY <1>0, <1>5, <2>1, ResendStays, StoreKeepsLockInv DEF WriteResponseLost
  <2>2. CASE Resend(w, FALSE) /\ UNCHANGED <<romances, moves>>
    BY <1>0, <1>5, <2>2, ResendStays, AtRest, TableStays, TableStaysLockInv
    DEF WriteResponseLost
  <2> QED
    BY <1>5, <2>1, <2>2 DEF WriteResponseLost
<1>6. CASE WriteRequestLost(w) \/ RemoveRequestLost(w)
  <2>1. SameLocals(w) \/ pc'[w] \notin {"get", "write"}
    BY <1>6, ResendStays DEF WriteRequestLost, RemoveRequestLost
  <2> QED
    BY <1>0, <1>6, <2>1, AtRest, TableStays, TableStaysLockInv
    DEF WriteRequestLost, RemoveRequestLost
<1>7. CASE RemoveSucceeds(w) \/ RemoveResponseLost(w)
  <2>1. Key(w) \in PrimaryKey
    BY <1>7, CommandType, KeyIsPrimary
    DEF RemoveSucceeds, RemoveResponseLost, Key, IInv, TypeInv, Busy
  <2>2. SameLocals(w) \/ pc'[w] \notin {"get", "write"}
    BY <1>7, FinishRests, ResendStays DEF RemoveSucceeds, RemoveResponseLost
  <2> QED
    BY <1>0, <1>7, <2>1, <2>2, RemoveKeepsLockInv DEF RemoveSucceeds, RemoveResponseLost
<1> QED
  BY <1>1, <1>2, <1>3, <1>4, <1>5, <1>6, <1>7 DEF Step

LEMMA InitIInv == Init => IInv
<1> SUFFICES ASSUME Init PROVE LockInv
  BY InitTypeInv DEF IInv
<1>1. VersionZeroIsAbsent
  BY DEF Init, VersionZeroIsAbsent
<1>2. ASSUME NEW w \in Workers PROVE SnapshotInv(w) /\ RetryInv(w)
  BY DEF Init, SnapshotInv, RetryInv
<1> QED
  BY <1>1, <1>2 DEF LockInv

LEMMA NextIInv == IInv /\ [Next]_vars => IInv'
<1> SUFFICES ASSUME IInv, [Next]_vars PROVE LockInv'
  BY NextTypeInv DEF IInv
<1>1. CASE UNCHANGED vars
  BY <1>1 DEF vars, IInv, LockInv, VersionZeroIsAbsent, SnapshotInv, RetryInv, OwnConflicts,
              Repeated, GetRomance, StoredItem
<1>2. ASSUME NEW w \in Workers, Step(w) PROVE LockInv'
  BY <1>2, StepLockInv
<1>3. ASSUME NEW w \in Workers, NEW c \in Command, Begin(w, c) PROVE LockInv'
  <2>1. \A v \in Workers : v # w => SameLocals(v) /\ fresh'[v] = fresh[v] /\ moves'[v] = moves[v]
    BY <1>3, OthersStay DEF Begin, IInv, TypeInv, HistoryOK
  <2>2. /\ pc'[w] # "write" /\ tries'[w] = 0 /\ moves'[w] = 0
        /\ unanswered' = unanswered /\ unanswered[w] \in Nat
    BY <1>3, CountsAreNumbers DEF Begin, IInv, TypeInv, LocalsOK, HistoryOK
  <2>3. OwnConflicts(w)' \in Nat
    BY <2>2 DEF OwnConflicts
  <2>4. tries'[w] <= moves'[w] + OwnConflicts(w)'
    BY <2>2, <2>3
  <2>5. WorkerInv(w)'
    BY <2>2, <2>4 DEF WorkerInv, SnapshotInv, RetryInv
  <2> QED
    BY <1>3, <2>1, <2>5, TableStaysLockInv DEF Begin
<1>4. ASSUME NEW w \in Workers, Crash(w) PROVE LockInv'
  BY <1>4, OthersStay, FinishRests, AtRest, TableStaysLockInv DEF Crash
<1> QED
  BY <1>1, <1>2, <1>3, <1>4 DEF Next

\* For any users, workers, requests and faults, and any retry bound: when the
\* table would accept an update of an item that was not removed since it was
\* read, the update was computed from the romance that is in the table.
THEOREM LockingCorrect == Spec => []NoLostUpdate
BY InitIInv, NextIInv, LockInvNoLostUpdate, PTL DEF Spec

\* For any retry and send bounds, and whatever requests and faults: a request
\* fails with a version conflict only if each of its attempts met a change of
\* its item by another, or its own update whose response was lost: every one,
\* for a withdrawal; at most that of the last attempt, for an add or a change.
THEOREM ConflictsAreEarned == Spec => ConflictImpliesContention
<1>1. ASSUME IInv, NEW w \in Workers, WriteConflicts(w)
      PROVE  moves[w] + OwnConflicts(w) > MaxRetries
  <2>1. snap[w] # GetRomance(cmd[w].id)
    BY <1>1, ConditionIsVersion DEF WriteConflicts
  <2>2. moves[w] \in Nat /\ OwnConflicts(w) \in Nat
    BY <1>1, CountsAreNumbers, OwnBounds DEF IInv
  <2>3. tries[w] < moves[w] + OwnConflicts(w) /\ tries[w] = MaxRetries
    BY <1>1, <2>1 DEF WriteConflicts, IInv, LockInv, RetryInv
  <2> QED
    BY <2>2, <2>3, MaxRetriesAssumption
<1>2. ASSUME IInv, NEW v \in Workers, Step(v), NEW w \in Workers, pc[w] = "write",
             pc'[w] = "idle", reply'[w] = "ErrVersionConflict"
      PROVE  WriteConflicts(w)
  <2>1. pc \in [Workers -> {"idle", "get", "write", "remove", "count"}]
        /\ reply \in [Workers -> Replies]
    BY <1>2 DEF IInv, TypeInv, LocalsOK
  <2>2. v = w
    BY <1>2, OthersStay DEF SameLocals, SameAttempt
  <2> QED
    BY <1>2, <2>1, <2>2
    DEF Step, GetAndReturn, GetAndProceed, GetFails, WriteSucceeds, WriteRetries,
        WriteResponseLost, WriteAnswerUnreadable, WriteRequestLost, CallCounters,
        RemoveSucceeds, RemoveResponseLost, RemoveRequestLost, Resend, Finish
<1>3. ASSUME IInv, [Next]_vars
      PROVE  [\A w \in Workers :
                pc[w] = "write" /\ pc'[w] = "idle" /\ reply'[w] = "ErrVersionConflict"
                  => moves[w] + OwnConflicts(w) > MaxRetries]_vars
  <2>1. pc \in [Workers -> {"idle", "get", "write", "remove", "count"}]
        /\ reply \in [Workers -> Replies]
    BY <1>3 DEF IInv, TypeInv, LocalsOK
  <2> SUFFICES ASSUME Next, NEW w \in Workers, pc[w] = "write", pc'[w] = "idle",
                      reply'[w] = "ErrVersionConflict"
               PROVE  moves[w] + OwnConflicts(w) > MaxRetries
    BY <1>3
  <2>2. ASSUME NEW v \in Workers, NEW c \in Command, Begin(v, c) PROVE FALSE
    BY <2>1, <2>2 DEF Begin
  <2>3. ASSUME NEW v \in Workers, Crash(v) PROVE FALSE
    BY <2>1, <2>3 DEF Crash, Finish
  <2> QED
    BY <1>1, <1>2, <1>3, <2>2, <2>3 DEF Next
<1> QED
  BY <1>3, InitIInv, NextIInv, PTL DEF Spec, ConflictImpliesContention

-----------------------------------------------------------------------------
(* No handler runs for ever                                                *)

\* A call is given up at its last send.
SendsLeft == \A w \in Workers : sends[w] < MaxSends
CallsInv == TypeInv /\ SendsLeft

\* The calls of the attempts that a number of retries leaves.
AttemptsAfter(n) == (MaxRetries - n) * (MaxSends + 1)

LEMMA AttemptsArithmetic ==
  ASSUME NEW n \in 0..MaxRetries
  PROVE  /\ AttemptsAfter(n) \in Int
         /\ 0 <= AttemptsAfter(n)
         /\ AttemptsAfter(n) + MaxSends + 2 <= (MaxRetries + 1) * (MaxSends + 1) + 1
         /\ n < MaxRetries => AttemptsAfter(n + 1) = AttemptsAfter(n) - (MaxSends + 1)
<1>1. MaxRetries \in Nat /\ MaxSends \in Nat
  BY MaxRetriesAssumption, MaxSendsAssumption
<1>2. PICK m \in Nat : m = MaxRetries - n
  BY <1>1
<1>3. PICK k \in Nat : k = MaxSends + 1
  BY <1>1
<1>4. AttemptsAfter(n) = m * k
  BY <1>2, <1>3 DEF AttemptsAfter
<1>5. m * k \in Nat /\ n * k \in Nat
  BY SMT
<1>6. (MaxRetries + 1) * (MaxSends + 1) = m * k + n * k + k
  <2>1. MaxRetries + 1 = m + n + 1
    BY <1>1, <1>2
  <2>2. (m + n + 1) * k = m * k + n * k + k
    BY SMT
  <2> QED
    BY <1>3, <2>1, <2>2
<1>7. ASSUME n < MaxRetries PROVE AttemptsAfter(n + 1) = AttemptsAfter(n) - (MaxSends + 1)
  <2>1. MaxRetries - (n + 1) = m - 1
    BY <1>1, <1>2
  <2>2. (m - 1) * k = m * k - k
    BY SMT
  <2> QED
    BY <1>3, <1>4, <2>1, <2>2 DEF AttemptsAfter
<1> QED
  BY <1>1, <1>3, <1>4, <1>5, <1>6, <1>7

\* What is left is a natural number, within the bound of a request.
LEMMA CallsBounded ==
  ASSUME CallsInv, NEW w \in Workers
  PROVE  /\ CallsLeft(w) \in Int
         /\ 0 <= CallsLeft(w)
         /\ CallsLeft(w) <= (MaxRetries + 1) * (MaxSends + 1) + 1
         /\ pc[w] # "idle" => 0 < CallsLeft(w)
<1>1. /\ tries[w] \in 0..MaxRetries /\ sends[w] \in Nat /\ sends[w] < MaxSends
      /\ pc[w] \in {"idle", "get", "write", "remove", "count"}
  BY MaxSendsAssumption DEF CallsInv, SendsLeft, TypeInv, LocalsOK
<1>2. PICK a \in Int : a = AttemptsAfter(tries[w])
  BY <1>1, AttemptsArithmetic
<1>3. 0 <= a /\ a + MaxSends + 2 <= (MaxRetries + 1) * (MaxSends + 1) + 1
  BY <1>1, <1>2, AttemptsArithmetic
<1>4. CallsLeft(w) = CASE pc[w] = "get"    -> a + MaxSends + 2
                       [] pc[w] = "write"  -> a + (MaxSends - sends[w]) + 1
                       [] pc[w] = "count"  -> 1
                       [] pc[w] = "remove" -> MaxSends - sends[w]
                       [] OTHER            -> 0
  BY <1>2 DEF CallsLeft, AttemptsAfter
<1>5. (MaxRetries + 1) * (MaxSends + 1) + 1 \in Int
  BY MaxRetriesAssumption, MaxSendsAssumption
<1> QED
  BY <1>1, <1>3, <1>4, <1>5, MaxSendsAssumption

CallsOK == \A w \in Workers : CallsLeft(w) \in Int /\ 0 <= CallsLeft(w)

\* The locals the measure is made of.
SameCalls(v) == pc'[v] = pc[v] /\ tries'[v] = tries[v] /\ sends'[v] = sends[v]

LEMMA SameCallsLeft == ASSUME NEW v, SameCalls(v) PROVE CallsLeft(v)' = CallsLeft(v)
BY DEF SameCalls, CallsLeft

LEMMA OthersCallsStay ==
  ASSUME TypeInv, NEW w \in Workers, Step(w) \/ Crash(w) \/ (\E c \in Command : Begin(w, c)),
         NEW v \in Workers, v # w
  PROVE  SameCalls(v)
<1>1. /\ pc' = [pc EXCEPT ![w] = pc'[w]]
      /\ tries' = [tries EXCEPT ![w] = tries'[w]]
      /\ sends' = [sends EXCEPT ![w] = sends'[w]]
  BY DEF TypeInv, LocalsOK, Step, Crash, Begin, Finish, Resend, GetAndReturn, GetAndProceed,
         GetFails, WriteSucceeds, WriteRetries, WriteConflicts, WriteResponseLost,
         WriteAnswerUnreadable, WriteRequestLost, CallCounters, RemoveSucceeds,
         RemoveResponseLost, RemoveRequestLost
<1> QED
  BY <1>1 DEF TypeInv, LocalsOK, SameCalls

\* Where a step of a handler takes it: to rest, to the next call, to the next
\* attempt, or to the next send.
LEMMA StepUses ==
  ASSUME TypeInv, NEW w \in Workers, Step(w)
  PROVE  /\ pc[w] # "idle"
         /\ \/ pc'[w] = "idle" /\ sends'[w] = 0
            \/ pc[w] = "get" /\ pc'[w] = "write" /\ tries'[w] = tries[w] /\ sends'[w] = sends[w]
            \/ pc[w] = "write" /\ pc'[w] = "count" /\ sends'[w] = sends[w]
            \/ /\ pc[w] = "write" /\ pc'[w] = "get" /\ tries[w] < MaxRetries
               /\ tries'[w] = tries[w] + 1 /\ sends'[w] = 0
            \/ /\ pc[w] \in {"write", "remove"} /\ pc'[w] = pc[w] /\ tries'[w] = tries[w]
               /\ sends[w] + 1 < MaxSends /\ sends'[w] = sends[w] + 1
<1>1. ASSUME NEW r, Finish(w, r) PROVE pc'[w] = "idle" /\ sends'[w] = 0
  BY <1>1 DEF Finish, TypeInv, LocalsOK
<1>2. ASSUME NEW applied, Resend(w, applied)
      PROVE  \/ pc'[w] = "idle" /\ sends'[w] = 0
             \/ /\ pc'[w] = pc[w] /\ tries'[w] = tries[w]
                /\ sends[w] + 1 < MaxSends /\ sends'[w] = sends[w] + 1
  BY <1>1, <1>2 DEF Resend, TypeInv, LocalsOK
<1>3. CASE GetAndReturn(w) \/ GetFails(w)
  BY <1>1, <1>3 DEF GetAndReturn, GetFails
<1>4. CASE GetAndProceed(w)
  BY <1>4 DEF GetAndProceed, TypeInv, LocalsOK
<1>5. CASE WriteSucceeds(w)
  <2>1. CASE Finish(w, "ok")
    BY <1>1, <1>5, <2>1 DEF WriteSucceeds
  <2>2. CASE pc' = [pc EXCEPT ![w] = "count"] /\ UNCHANGED sends
    BY <1>5, <2>2 DEF WriteSucceeds, TypeInv, LocalsOK
  <2> QED
    BY <1>5, <2>1, <2>2 DEF WriteSucceeds
<1>6. CASE WriteRetries(w)
  BY <1>6 DEF WriteRetries, TypeInv, LocalsOK
<1>7. CASE WriteConflicts(w) \/ WriteAnswerUnreadable(w)
  BY <1>1, <1>7 DEF WriteConflicts, WriteAnswerUnreadable
<1>8. CASE WriteResponseLost(w) \/ WriteRequestLost(w)
  BY <1>2, <1>8 DEF WriteResponseLost, WriteRequestLost
<1>9. CASE CallCounters(w) \/ RemoveSucceeds(w)
  BY <1>1, <1>9 DEF CallCounters, RemoveSucceeds
<1>10. CASE RemoveResponseLost(w) \/ RemoveRequestLost(w)
  BY <1>2, <1>10 DEF RemoveResponseLost, RemoveRequestLost
<1> QED
  BY <1>3, <1>4, <1>5, <1>6, <1>7, <1>8, <1>9, <1>10 DEF Step

LEMMA NextCallsInv == CallsInv /\ [Next]_vars => CallsInv'
<1> SUFFICES ASSUME CallsInv, [Next]_vars, NEW v \in Workers PROVE sends'[v] < MaxSends
  BY NextTypeInv DEF CallsInv, SendsLeft
<1>1. sends[v] < MaxSends /\ MaxSends \in Nat \ {0} /\ TypeInv
  BY MaxSendsAssumption DEF CallsInv, SendsLeft
<1>2. CASE UNCHANGED vars
  BY <1>1, <1>2 DEF vars
<1>3. ASSUME NEW w \in Workers, Step(w) PROVE sends'[v] < MaxSends
  <2>1. CASE v = w
    <3>1. sends[w] \in Nat
      BY <1>1 DEF TypeInv, LocalsOK
    <3> QED
      BY <1>1, <1>3, <2>1, <3>1, StepUses
  <2> QED
    BY <1>1, <1>3, <2>1, OthersCallsStay DEF SameCalls
<1>4. ASSUME NEW w \in Workers, NEW c \in Command, Begin(w, c) PROVE sends'[v] < MaxSends
  BY <1>1, <1>4 DEF Begin
<1>5. ASSUME NEW w \in Workers, Crash(w) PROVE sends'[v] < MaxSends
  <2>1. sends' = [sends EXCEPT ![w] = 0]
    BY <1>5 DEF Crash, Finish
  <2> QED
    BY <1>1, <2>1 DEF TypeInv, LocalsOK
<1> QED
  BY <1>2, <1>3, <1>4, <1>5 DEF Next

LEMMA StepSpends ==
  ASSUME CallsInv, NEW w \in Workers, Step(w)
  PROVE  CallsLeft(w)' < CallsLeft(w)
<1>1. /\ tries[w] \in 0..MaxRetries /\ sends[w] \in Nat /\ sends[w] < MaxSends
      /\ TypeInv /\ MaxSends \in Nat
  BY MaxSendsAssumption DEF CallsInv, SendsLeft, TypeInv, LocalsOK
<1>2. PICK a \in Int : a = AttemptsAfter(tries[w])
  BY <1>1, AttemptsArithmetic
<1>3. 0 <= a
  BY <1>1, <1>2, AttemptsArithmetic
<1>4. CallsLeft(w) = CASE pc[w] = "get"    -> a + MaxSends + 2
                       [] pc[w] = "write"  -> a + (MaxSends - sends[w]) + 1
                       [] pc[w] = "count"  -> 1
                       [] pc[w] = "remove" -> MaxSends - sends[w]
                       [] OTHER            -> 0
  BY <1>2 DEF CallsLeft, AttemptsAfter
<1>5. PICK b : b = AttemptsAfter(tries'[w])
  OBVIOUS
<1>6. CallsLeft(w)' = CASE pc'[w] = "get"    -> b + MaxSends + 2
                        [] pc'[w] = "write"  -> b + (MaxSends - sends'[w]) + 1
                        [] pc'[w] = "count"  -> 1
                        [] pc'[w] = "remove" -> MaxSends - sends'[w]
                        [] OTHER             -> 0
  BY <1>5 DEF CallsLeft, AttemptsAfter
<1>7. tries'[w] = tries[w] => b = a
  BY <1>2, <1>5
<1>8. CASE pc'[w] = "idle"
  <2>1. CallsLeft(w)' = 0
    BY <1>6, <1>8
  <2> QED
    BY <1>1, <1>8, <2>1, StepUses, CallsBounded
<1>9. CASE pc[w] = "get" /\ pc'[w] = "write" /\ tries'[w] = tries[w] /\ sends'[w] = sends[w]
  BY <1>1, <1>4, <1>6, <1>7, <1>9
<1>10. CASE pc[w] = "write" /\ pc'[w] = "count"
  BY <1>1, <1>3, <1>4, <1>6, <1>10
<1>11. CASE pc[w] = "write" /\ pc'[w] = "get" /\ tries[w] < MaxRetries /\ tries'[w] = tries[w] + 1
  <2>1. b = a - (MaxSends + 1)
    BY <1>1, <1>2, <1>5, <1>11, AttemptsArithmetic
  <2> QED
    BY <1>1, <1>4, <1>6, <1>11, <2>1
<1>12. CASE /\ pc[w] \in {"write", "remove"} /\ pc'[w] = pc[w] /\ tries'[w] = tries[w]
            /\ sends'[w] = sends[w] + 1
  BY <1>1, <1>4, <1>6, <1>7, <1>12
<1> QED
  BY <1>1, <1>8, <1>9, <1>10, <1>11, <1>12, StepUses

\* For any retry and send bounds, and whatever other requests, faults and
\* removals do: each step of a handler uses up one of the calls its request
\* has, and nothing gives any back.
THEOREM RequestsAreBounded == Spec => RequestsRunOut
<1>1. Init => CallsInv
  BY InitTypeInv, MaxSendsAssumption DEF CallsInv, SendsLeft, Init
<1>2. ASSUME CallsInv, CallsOK', [Next]_vars, NEW w \in Workers, pc[w] # "idle"
      PROVE  /\ 0 <= CallsLeft(w)' /\ CallsLeft(w)' <= CallsLeft(w)
             /\ Step(w) => CallsLeft(w)' < CallsLeft(w)
             /\ CallsLeft(w) <= (MaxRetries + 1) * (MaxSends + 1) + 1
  <2>1. /\ CallsLeft(w) \in Int /\ 0 <= CallsLeft(w)
        /\ CallsLeft(w) <= (MaxRetries + 1) * (MaxSends + 1) + 1
    BY <1>2, CallsBounded
  <2>2. CallsLeft(w)' \in Int /\ 0 <= CallsLeft(w)'
    BY <1>2 DEF CallsOK
  <2>3. Step(w) => CallsLeft(w)' < CallsLeft(w)
    BY <1>2, StepSpends
  <2>4. CallsLeft(w)' <= CallsLeft(w)
    <3>1. CASE UNCHANGED vars
      BY <2>1, <3>1, SameCallsLeft DEF vars, SameCalls
    <3>2. ASSUME NEW v \in Workers, v # w, Step(v) \/ Crash(v) \/ (\E c \in Command : Begin(v, c))
          PROVE  CallsLeft(w)' <= CallsLeft(w)
      BY <1>2, <2>1, <3>2, OthersCallsStay, SameCallsLeft DEF CallsInv
    <3>3. CASE Step(w)
      BY <2>1, <2>2, <2>3, <3>3
    <3>4. CASE Crash(w)
      <4>1. pc'[w] = "idle"
        BY <1>2, <3>4 DEF Crash, Finish, CallsInv, TypeInv, LocalsOK
      <4>2. CallsLeft(w)' = 0
        BY <4>1 DEF CallsLeft
      <4> QED
        BY <2>1, <4>2
    <3>5. ASSUME NEW c \in Command, Begin(w, c) PROVE FALSE
      BY <1>2, <3>5 DEF Begin
    <3> QED
      BY <1>2, <3>1, <3>2, <3>3, <3>4, <3>5 DEF Next
  <2> QED
    BY <2>1, <2>2, <2>3, <2>4
<1>3. CallsInv /\ CallsOK' /\ [Next]_vars
        => [\A w \in Workers :
              pc[w] # "idle" =>
                /\ 0 <= CallsLeft(w)' /\ CallsLeft(w)' <= CallsLeft(w)
                /\ Step(w) => CallsLeft(w)' < CallsLeft(w)
                /\ CallsLeft(w) <= (MaxRetries + 1) * (MaxSends + 1) + 1]_vars
  BY <1>2
<1>4. CallsInv => CallsOK
  BY CallsBounded DEF CallsOK
<1> QED
  BY <1>1, <1>3, <1>4, NextCallsInv, PTL DEF Spec, RequestsRunOut

=============================================================================
