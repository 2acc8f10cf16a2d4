----------------------------- MODULE VotingProofs -----------------------------
(***************************************************************************)
(* Proofs about Voting: the joined vote path takes steps of the romances   *)
(* and implements the counters, so that what is proved of each holds of    *)
(* both together, and the votes that Adds make cross over in the romances  *)
(* table balance with the votes in the lifetime counters, for any users,   *)
(* workers, faults, retries and resends.                                   *)
(***************************************************************************)
EXTENDS Voting, VotesProofs, FiniteSums

\* The proofs about Counters, for the counters of the vote path.
P == INSTANCE CountersProofs WITH Writers <- Workers, Readers <- {},
                                  sends <- countSends, read <- <<>>

-----------------------------------------------------------------------------
(* The joined path takes steps of the romances and steps of the counters   *)

LEMMA VotePathKinds == "DeleteRomance" \notin Kinds
BY VotePathAssumption

LEMMA CountersOperators ==
  /\ P!VoteId = VoteId
  /\ \A vote : /\ C!outgoingAttrName(vote) = P!outgoingAttrName(vote)
               /\ C!incomingAttrName(vote) = P!incomingAttrName(vote)
  /\ \A u : C!GetLifetimeCounter(u) = P!GetLifetimeCounter(u)
BY DEF P!VoteId, VoteId, C!outgoingAttrName, P!outgoingAttrName, C!incomingAttrName,
       P!incomingAttrName, C!GetLifetimeCounter, P!GetLifetimeCounter, C!LifetimeCounterKey,
       P!LifetimeCounterKey

LEMMA CountersActions ==
  ASSUME NEW w
  PROVE  /\ \A id, vote : C!NewCounterUpdateGroup(w, id, vote)
                          => P!NewCounterUpdateGroup(w, id, vote)
         /\ C!IncrSucceeds(w) => P!IncrSucceeds(w)
         /\ C!IncrFails(w) => P!IncrFails(w)
         /\ C!IncrResponseLost(w) => P!IncrResponseLost(w)
<1>1. \A id, vote : C!NewCounterUpdateGroup(w, id, vote) => P!NewCounterUpdateGroup(w, id, vote)
  BY DEF C!NewCounterUpdateGroup, P!NewCounterUpdateGroup
<1>2. C!EndIncr(w) <=> P!EndIncr(w)
  BY DEF C!EndIncr, P!EndIncr
<1>3. C!TransactWriteItems(w) <=> P!TransactWriteItems(w)
  BY DEF C!TransactWriteItems, P!TransactWriteItems, C!incrCounters, P!incrCounters, C!Incr, P!Incr,
         C!outgoingAttrName, P!outgoingAttrName, C!incomingAttrName, P!incomingAttrName,
         C!LifetimeCounterKey, P!LifetimeCounterKey
<1>4. C!IncrSucceeds(w) => P!IncrSucceeds(w)
  BY <1>2, <1>3 DEF C!IncrSucceeds, P!IncrSucceeds
<1>5. C!IncrFails(w) => P!IncrFails(w)
  BY <1>2 DEF C!IncrFails, P!IncrFails
<1>6. C!IncrResponseLost(w) => P!IncrResponseLost(w)
  BY <1>2, <1>3 DEF C!IncrResponseLost, P!IncrResponseLost
<1> QED
  BY <1>1, <1>4, <1>5, <1>6

\* The step one worker takes on the joined path.
VotingStep(w) ==
  \/ PlainStep(w) \/ DecideAdd(w)
  \/ WriteVote(w) \/ WriteUnanswered(w) \/ WriteRefused(w)
  \/ CountVote(w) \/ CountFails(w) \/ CountUnanswered(w)
  \/ Die(w)

LEMMA RomancesSteps ==
  ASSUME NEW w \in Workers, VotingStep(w)
  PROVE  (\E c \in Command : Begin(w, c)) \/ Step(w) \/ Crash(w) \/ UNCHANGED vars
BY DEF VotingStep, PlainStep, DecideAdd, WriteVote, WriteUnanswered, WriteRefused, CountVote,
       CountFails, CountUnanswered, Die, Step

LEMMA RomancesNext == [VotingNext]_votingVars => [Next]_vars
<1>1. VotingNext => [Next]_vars
  BY RomancesSteps DEF VotingNext, VotingStep, Next
<1>2. UNCHANGED votingVars => UNCHANGED vars
  BY DEF votingVars
<1> QED
  BY <1>1, <1>2

LEMMA CounterOfType == \A type : CounterOf(type) \in Counter
BY DEF CounterOf, Counter

LEMMA CountersSteps ==
  ASSUME IInv, NEW w \in Workers, VotingStep(w)
  PROVE  \/ \E id \in P!VoteId, vote \in {"yes", "no"} : P!NewCounterUpdateGroup(w, id, vote)
         \/ P!IncrSucceeds(w) \/ P!IncrFails(w) \/ P!IncrResponseLost(w)
         \/ UNCHANGED countersVars
<1>1. CASE DecideAdd(w)
  <2>1. cmd[w].id \in VoteId
    BY <1>1, CommandType DEF DecideAdd, GetAndProceed, IInv, TypeInv, Busy
  <2>2. P!NewCounterUpdateGroup(w, cmd[w].id, CounterOf(cmd[w].type))
    BY <1>1, CountersActions DEF DecideAdd
  <2> QED
    BY <2>1, <2>2, CountersOperators, CounterOfType DEF Counter
<1> QED
  BY <1>1, CountersActions
  DEF VotingStep, PlainStep, WriteVote, WriteUnanswered, WriteRefused, CountVote,
      CountFails, CountUnanswered, Die, DropGroup

LEMMA CountersNext ==
  ASSUME IInv, [VotingNext]_votingVars
  PROVE  [P!Next]_P!vars
<1>1. UNCHANGED countersVars => UNCHANGED P!vars
  BY DEF countersVars, P!vars
<1>2. CASE UNCHANGED votingVars
  BY <1>1, <1>2 DEF votingVars
<1>3. ASSUME NEW w \in Workers, VotingStep(w) PROVE [P!Next]_P!vars
  BY <1>1, <1>3, CountersSteps DEF P!Next
<1> QED
  BY <1>2, <1>3 DEF VotingNext, VotingStep

LEMMA CountersInit == C!Init => P!Init
BY DEF C!Init, P!Init, C!FirstHour, P!FirstHour, C!CounterKey, P!CounterKey, C!Hours, P!Hours,
       C!EmptyGroup, P!EmptyGroup, C!Attr, P!Attr, C!NoRead, P!NoRead, C!LifetimeCounterKey,
       P!LifetimeCounterKey

\* Seen through the counters alone, the joined path is the Counters module,
\* with a clock that stands still and no readers.
THEOREM VotingImplementsCounters == VotingSpec => P!Spec
<1>1. VotingInit => IInv /\ P!Init
  BY InitIInv, CountersInit DEF VotingInit
<1>2. IInv /\ [VotingNext]_votingVars => IInv'
  BY RomancesNext, NextIInv
<1>3. IInv /\ [VotingNext]_votingVars => [P!Next]_P!vars
  BY CountersNext
<1> QED
  BY <1>1, <1>2, <1>3, PTL DEF VotingSpec, P!Spec

-----------------------------------------------------------------------------
(* Every worker that is to count a vote holds the group of that vote       *)

\* A worker between its decision on an Add and the end of its count.
Holds(w) == pc[w] = "count" \/ (pc[w] = "write" /\ cmd[w].kind = "Add")

\* Its group is the one of its vote, uncounted until the vote is stored.
GroupInv(w) ==
  Holds(w) =>
    /\ event[w] # 0
    /\ log[event[w]].id = cmd[w].id
    /\ log[event[w]].vote = CounterOf(cmd[w].type)
    /\ pc[w] = "write" => ~log[event[w]].counted
    /\ pc[w] = "count" => due[w] = log[event[w]].vote

\* No two workers share a group.
GroupsApart == \A v \in Workers, w \in Workers : event[v] = event[w] /\ event[w] # 0 => v = w

GroupsInv == GroupsApart /\ \A w \in Workers : GroupInv(w)

\* What the step of a worker leaves alone of another.
Aside(v) ==
  /\ pc'[v] = pc[v] /\ cmd'[v] = cmd[v] /\ due'[v] = due[v] /\ event'[v] = event[v]
  /\ event[v] # 0 => log'[event[v]] = log[event[v]]

\* What is known before every step.
Known == IInv /\ NoRemovals /\ P!TypeOK /\ GroupsInv

LEMMA KnownTypes ==
  ASSUME Known
  PROVE  /\ pc \in [Workers -> {"idle", "get", "write", "remove", "count"}]
         /\ cmd \in [Workers -> Command \cup {NoCommand}]
         /\ due \in [Workers -> {"none", "yes", "no"}]
         /\ event \in [Workers -> 0..Len(log)]
         /\ log \in Seq(P!Vote) /\ Len(log) \in Nat
         /\ \A w \in Workers : pc[w] # "idle" => cmd[w] \in Command /\ cmd[w].id \in VoteId
BY CommandType DEF Known, IInv, TypeInv, LocalsOK, Busy, P!TypeOK

\* What a step does to the groups: it appends one that nobody has counted,
\* marks the worker's own as counted, or leaves them as they are.
GroupAdded(w) ==
  /\ event[w] = 0
  /\ log' = Append(log, [id |-> cmd[w].id, vote |-> CounterOf(cmd[w].type), hour |-> now,
                         counted |-> FALSE])
  /\ event' = [event EXCEPT ![w] = Len(log) + 1]
GroupCounted(w) ==
  /\ event[w] # 0
  /\ log' = [log EXCEPT ![event[w]].counted = TRUE]
  /\ event' = event \/ event' = [event EXCEPT ![w] = 0]
GroupKept(w) ==
  /\ log' = log
  /\ event' = event \/ event' = [event EXCEPT ![w] = 0]

LEMMA GroupSteps ==
  ASSUME NEW w \in Workers
  PROVE  /\ DecideAdd(w) => GroupAdded(w)
         /\ CountVote(w) \/ CountUnanswered(w) => GroupCounted(w)
         /\ DropGroup(w) \/ UNCHANGED countersVars => GroupKept(w)
         /\ CountFails(w) => GroupKept(w)
<1>1. DecideAdd(w) => GroupAdded(w)
  BY DEF DecideAdd, C!NewCounterUpdateGroup, GroupAdded
<1>2. CountVote(w) \/ CountUnanswered(w) => GroupCounted(w)
  BY DEF CountVote, CountUnanswered, C!IncrSucceeds, C!IncrResponseLost, C!TransactWriteItems,
         C!EndIncr, GroupCounted
<1>3. C!IncrFails(w) => GroupKept(w)
  BY DEF C!IncrFails, C!EndIncr, GroupKept
<1>4. UNCHANGED countersVars => GroupKept(w)
  BY DEF countersVars, GroupKept
<1> QED
  BY <1>1, <1>2, <1>3, <1>4 DEF DropGroup, CountFails

LEMMA StepGroups ==
  ASSUME NEW w \in Workers, VotingStep(w)
  PROVE  GroupAdded(w) \/ GroupCounted(w) \/ GroupKept(w)
BY GroupSteps
DEF VotingStep, PlainStep, WriteVote, WriteUnanswered, WriteRefused, Die

\* The groups of the log after a step.
LEMMA LogAfter ==
  ASSUME Known, NEW w \in Workers
  PROVE  /\ GroupAdded(w) =>
              /\ Len(log') = Len(log) + 1
              /\ \A n \in 1..Len(log) : log'[n] = log[n]
              /\ log'[Len(log) + 1] = [id |-> cmd[w].id, vote |-> CounterOf(cmd[w].type),
                                       hour |-> now, counted |-> FALSE]
         /\ GroupCounted(w) =>
              /\ event[w] \in 1..Len(log)
              /\ Len(log') = Len(log)
              /\ \A n \in 1..Len(log) : n # event[w] => log'[n] = log[n]
              /\ log'[event[w]] = [log[event[w]] EXCEPT !.counted = TRUE]
         /\ \A n \in 1..Len(log) : log[n] \in P!Vote
<1>1. log \in Seq(P!Vote) /\ Len(log) \in Nat /\ event[w] \in 0..Len(log)
  BY KnownTypes
<1>2. \A n \in 1..Len(log) : log[n] \in P!Vote
  BY <1>1
<1>3. ASSUME GroupAdded(w)
      PROVE  /\ Len(log') = Len(log) + 1
             /\ \A n \in 1..Len(log) : log'[n] = log[n]
             /\ log'[Len(log) + 1] = [id |-> cmd[w].id, vote |-> CounterOf(cmd[w].type),
                                      hour |-> now, counted |-> FALSE]
  BY <1>1, <1>3 DEF GroupAdded
<1>4. ASSUME GroupCounted(w)
      PROVE  /\ event[w] \in 1..Len(log)
             /\ Len(log') = Len(log)
             /\ \A n \in 1..Len(log) : n # event[w] => log'[n] = log[n]
             /\ log'[event[w]] = [log[event[w]] EXCEPT !.counted = TRUE]
  <2>1. event[w] \in 1..Len(log)
    BY <1>1, <1>4 DEF GroupCounted
  <2>2. PICK e : e = [log[event[w]] EXCEPT !.counted = TRUE]
    OBVIOUS
  <2>3. log' = [log EXCEPT ![event[w]] = e]
    BY <1>4, <2>2 DEF GroupCounted
  <2>4. e \in P!Vote
    BY <1>2, <2>1, <2>2 DEF P!Vote
  <2>5. Len(log') = Len(log)
    BY <1>1, <2>1, <2>3, <2>4
  <2>6. \A n \in 1..Len(log) : log'[n] = IF n = event[w] THEN e ELSE log[n]
    BY <1>1, <2>1, <2>3, <2>4
  <2> QED
    BY <2>1, <2>2, <2>5, <2>6
<1> QED
  BY <1>2, <1>3, <1>4

LEMMA StepsAside ==
  ASSUME Known, NEW w \in Workers, VotingStep(w), NEW v \in Workers, v # w
  PROVE  Aside(v)
<1>1. pc'[v] = pc[v] /\ cmd'[v] = cmd[v] /\ due'[v] = due[v]
  <2>1. /\ pc' = pc \/ pc' = [pc EXCEPT ![w] = pc'[w]]
        /\ cmd' = cmd \/ cmd' = [cmd EXCEPT ![w] = cmd'[w]]
        /\ due' = due \/ due' = [due EXCEPT ![w] = due'[w]]
    BY RomancesSteps, KnownTypes
    DEF Begin, Step, Crash, vars, GetAndReturn, GetAndProceed, GetFails, WriteSucceeds,
        WriteRetries, WriteConflicts, WriteResponseLost, WriteAnswerUnreadable,
        WriteRequestLost, CallCounters, RemoveSucceeds, RemoveResponseLost, RemoveRequestLost,
        Finish, Resend
  <2> QED
    BY <2>1, KnownTypes
<1>2. event[v] \in 0..Len(log) /\ (event[v] # 0 => event[v] \in 1..Len(log))
  BY KnownTypes
<1>3. event'[v] = event[v]
  BY StepGroups, KnownTypes DEF GroupAdded, GroupCounted, GroupKept
<1>4. event[v] # 0 => event[v] # event[w]
  BY DEF Known, GroupsInv, GroupsApart
<1>5. event[v] # 0 => log'[event[v]] = log[event[v]]
  BY <1>2, <1>4, StepGroups, LogAfter DEF GroupKept
<1> QED
  BY <1>1, <1>3, <1>5 DEF Aside

LEMMA AsideKeepsGroup ==
  ASSUME GroupsInv, NEW v \in Workers, Aside(v)
  PROVE  GroupInv(v)'
BY DEF GroupsInv, GroupInv, Holds, Aside

LEMMA StepKeepsApart ==
  ASSUME Known, NEW w \in Workers, VotingStep(w)
  PROVE  GroupsApart'
<1>1. \A v \in Workers : v # w => event'[v] = event[v]
  BY StepsAside DEF Aside
<1>2. event'[w] \in {0, event[w], Len(log) + 1}
  BY StepGroups, KnownTypes DEF GroupAdded, GroupCounted, GroupKept
<1>3. \A v \in Workers : event[v] # Len(log) + 1
  BY KnownTypes
<1> QED
  BY <1>1, <1>2, <1>3 DEF Known, GroupsInv, GroupsApart

LEMMA DueIsCounterOf ==
  ASSUME NEW old, NEW new, CountersDue(old, new) # "none"
  PROVE  CountersDue(old, new) = CounterOf(new)
BY DEF CountersDue, CounterOf, IsPositive, IsNegative

\* Where the steps of the joined path leave their worker.
LEMMA Destinations ==
  ASSUME Known, NEW w \in Workers
  PROVE  /\ PlainStep(w) => \/ pc'[w] \in {"idle", "get", "remove"}
                            \/ pc'[w] = "write" /\ cmd'[w].kind # "Add"
         /\ WriteVote(w) =>
              \/ pc'[w] = "idle"
              \/ /\ pc'[w] = "count" /\ cmd[w].kind = "Add" /\ cmd'[w] = cmd[w]
                 /\ due'[w] = CountersDue(snap[w].active.type, cmd[w].type)
                 /\ due'[w] # "none" /\ UNCHANGED countersVars
         /\ WriteUnanswered(w) =>
              \/ pc'[w] = "idle"
              \/ pc'[w] = "write" /\ cmd'[w] = cmd[w] /\ UNCHANGED countersVars
         /\ WriteRefused(w) => pc'[w] \in {"idle", "get"}
         /\ CountVote(w) \/ CountFails(w) \/ Die(w) => pc'[w] = "idle"
         /\ CountUnanswered(w) =>
              \/ pc'[w] = "idle"
              \/ pc'[w] = "count" /\ cmd'[w] = cmd[w] /\ due'[w] = due[w] /\ event'[w] = event[w]
<1>1. /\ pc \in [Workers -> {"idle", "get", "write", "remove", "count"}]
      /\ cmd \in [Workers -> Command \cup {NoCommand}]
      /\ due \in [Workers -> {"none", "yes", "no"}]
      /\ event \in [Workers -> 0..Len(log)]
  BY KnownTypes
<1>2. \A r : Finish(w, r) => pc'[w] = "idle"
  BY <1>1 DEF Finish
<1>3. PlainStep(w) => \/ pc'[w] \in {"idle", "get", "remove"}
                      \/ pc'[w] = "write" /\ cmd'[w].kind # "Add"
  BY <1>1, <1>2 DEF PlainStep, Begin, GetAndReturn, GetFails, GetAndProceed
<1>4. WriteVote(w) =>
        \/ pc'[w] = "idle"
        \/ /\ pc'[w] = "count" /\ cmd[w].kind = "Add" /\ cmd'[w] = cmd[w]
           /\ due'[w] = CountersDue(snap[w].active.type, cmd[w].type)
           /\ due'[w] # "none" /\ UNCHANGED countersVars
  BY <1>1, <1>2 DEF WriteVote, WriteSucceeds
<1>5. \A applied : Resend(w, applied) =>
        pc'[w] = "idle" \/ (pc'[w] = pc[w] /\ cmd'[w] = cmd[w])
  BY <1>2 DEF Resend
<1>6. WriteUnanswered(w) =>
        \/ pc'[w] = "idle"
        \/ pc'[w] = "write" /\ cmd'[w] = cmd[w] /\ UNCHANGED countersVars
  BY <1>2, <1>5 DEF WriteUnanswered, WriteResponseLost, WriteAnswerUnreadable, WriteRequestLost
<1>7. WriteRefused(w) => pc'[w] \in {"idle", "get"}
  BY <1>1, <1>2 DEF WriteRefused, WriteRetries, WriteConflicts
<1>8. CountVote(w) \/ CountFails(w) \/ Die(w) => pc'[w] = "idle"
  BY <1>2 DEF CountVote, CountFails, Die, CallCounters, Crash
<1>9. CountUnanswered(w) =>
        \/ pc'[w] = "idle"
        \/ pc'[w] = "count" /\ cmd'[w] = cmd[w] /\ due'[w] = due[w] /\ event'[w] = event[w]
  BY <1>1, <1>2 DEF CountUnanswered, C!IncrResponseLost, C!EndIncr, CallCounters, vars
<1> QED
  BY <1>3, <1>4, <1>6, <1>7, <1>8, <1>9

LEMMA StepKeepsGroup ==
  ASSUME Known, NEW w \in Workers, VotingStep(w)
  PROVE  GroupInv(w)'
<1>0. GroupInv(w)
  BY DEF Known, GroupsInv
<1>1. CASE PlainStep(w)
  BY <1>1, Destinations DEF GroupInv, Holds
<1>2. CASE DecideAdd(w)
  <2>1. GroupAdded(w) /\ pc'[w] = "write" /\ cmd'[w] = cmd[w]
    BY <1>2, GroupSteps, KnownTypes DEF DecideAdd, GetAndProceed
  <2>2. event'[w] = Len(log) + 1 /\ event'[w] # 0
    BY <2>1, KnownTypes DEF GroupAdded
  <2>3. log'[event'[w]] = [id |-> cmd[w].id, vote |-> CounterOf(cmd[w].type), hour |-> now,
                           counted |-> FALSE]
    BY <2>1, <2>2, LogAfter
  <2> QED
    BY <2>1, <2>2, <2>3 DEF GroupInv
<1>3. CASE WriteVote(w)
  <2>1. CASE pc'[w] = "idle"
    BY <2>1 DEF GroupInv, Holds
  <2>2. CASE pc'[w] = "count"
    <3>1. /\ cmd[w].kind = "Add" /\ cmd'[w] = cmd[w] /\ due'[w] = CounterOf(cmd[w].type)
          /\ event' = event /\ log' = log /\ pc[w] = "write"
      BY <1>3, <2>2, Destinations, DueIsCounterOf DEF countersVars, WriteVote, WriteSucceeds
    <3> QED
      BY <1>0, <2>2, <3>1 DEF GroupInv, Holds
  <2> QED
    BY <1>3, <2>1, <2>2, Destinations
<1>4. CASE WriteUnanswered(w)
  <2>1. pc[w] = "write"
    BY <1>4 DEF WriteUnanswered, WriteResponseLost, WriteAnswerUnreadable, WriteRequestLost
  <2> QED
    BY <1>0, <1>4, <2>1, Destinations DEF GroupInv, Holds, countersVars
<1>5. CASE WriteRefused(w) \/ CountVote(w) \/ CountFails(w) \/ Die(w)
  BY <1>5, Destinations DEF GroupInv, Holds
<1>6. CASE CountUnanswered(w)
  <2>1. CASE pc'[w] = "idle"
    BY <2>1 DEF GroupInv, Holds
  <2>2. CASE pc'[w] = "count" /\ cmd'[w] = cmd[w] /\ due'[w] = due[w] /\ event'[w] = event[w]
    <3>1. pc[w] = "count" /\ GroupCounted(w)
      BY <1>6, GroupSteps DEF CountUnanswered
    <3>2. log[event[w]] \in P!Vote /\ log'[event[w]] = [log[event[w]] EXCEPT !.counted = TRUE]
      BY <3>1, LogAfter
    <3>3. log'[event[w]].id = log[event[w]].id /\ log'[event[w]].vote = log[event[w]].vote
      BY <3>2 DEF P!Vote
    <3> QED
      BY <1>0, <2>2, <3>1, <3>3 DEF GroupInv, Holds
  <2> QED
    BY <1>6, <2>1, <2>2, Destinations
<1> QED
  BY <1>1, <1>2, <1>3, <1>4, <1>5, <1>6 DEF VotingStep

LEMMA StepKeepsGroups ==
  ASSUME Known, NEW w \in Workers, VotingStep(w)
  PROVE  GroupsInv'
<1>1. ASSUME NEW v \in Workers PROVE GroupInv(v)'
  <2>1. CASE v = w
    BY <2>1, StepKeepsGroup
  <2>2. CASE v # w
    BY <2>2, StepsAside, AsideKeepsGroup DEF Known
  <2> QED
    BY <2>1, <2>2
<1> QED
  BY <1>1, StepKeepsApart DEF GroupsInv

LEMMA InitKnown == VotingInit => Known
<1> SUFFICES ASSUME VotingInit PROVE Known
  OBVIOUS
<1>1. IInv /\ P!TypeOK
  <2>1. TtlHours \in Nat \ {0} /\ LastHour \in Nat /\ LastHour > TtlHours /\ MaxVotes \in Nat
        /\ MaxSends \in Nat \ {0}
    BY VotingTtlHoursAssumption, VotingLastHourAssumption, VotingMaxVotesAssumption,
       MaxSendsAssumption
  <2>2. P!Init
    BY CountersInit DEF VotingInit
  <2> QED
    BY <2>1, <2>2, InitIInv, P!InitType DEF VotingInit
<1>2. NoRemovals /\ GroupsInv
  BY DEF VotingInit, Init, C!Init, NoRemovals, GroupsInv, GroupsApart, GroupInv, Holds
<1> QED
  BY <1>1, <1>2 DEF Known

LEMMA NextKnown == Known /\ [VotingNext]_votingVars => Known'
<1> SUFFICES ASSUME Known, [VotingNext]_votingVars PROVE Known'
  OBVIOUS
<1>1. IInv' /\ NoRemovals'
  BY RomancesNext, NextIInv, NextNoRemovals, VotePathKinds DEF Known
<1>2. P!TypeOK'
  <2>1. TtlHours \in Nat \ {0} /\ LastHour \in Nat /\ LastHour > TtlHours /\ MaxVotes \in Nat
        /\ MaxSends \in Nat \ {0}
    BY VotingTtlHoursAssumption, VotingLastHourAssumption, VotingMaxVotesAssumption,
       MaxSendsAssumption
  <2>2. [P!Next]_P!vars /\ P!TypeOK
    BY CountersNext DEF Known
  <2> QED
    BY <2>1, <2>2, P!NextType
<1>3. GroupsInv'
  <2>1. CASE UNCHANGED votingVars
    BY <2>1 DEF votingVars, vars, countersVars, Known, GroupsInv, GroupsApart, GroupInv, Holds
  <2>2. ASSUME NEW w \in Workers, VotingStep(w) PROVE GroupsInv'
    BY <2>2, StepKeepsGroups
  <2> QED
    BY <2>1, <2>2 DEF VotingNext, VotingStep
<1> QED
  BY <1>1, <1>2, <1>3 DEF Known

-----------------------------------------------------------------------------
(* The balance of every vote id                                            *)

One(b) == IF b THEN 1 ELSE 0

\* The counted votes of a vote id on one side, and whether a worker is about
\* to count one.
CountedOf(id, c) == {n \in 1..Len(log) : log[n].counted /\ log[n].id = id /\ log[n].vote = c}
IsPending(w, id, c) ==
  pc[w] = "count" /\ cmd[w].id = id /\ due[w] = c /\ ~log[event[w]].counted

HistoryOfVotes == [VoteId \X Counter -> Nat]

\* A vote that crossed over is counted, about to be counted, or missed.
BalanceInv ==
  /\ crossed \in HistoryOfVotes /\ missed \in HistoryOfVotes
  /\ \A id \in VoteId, c \in Counter :
       crossed[<<id, c>>] =
         Cardinality(CountedOf(id, c)) + Cardinality(Pending({id}, c)) + missed[<<id, c>>]

LEMMA VotesUpTo == ASSUME NEW n \in Nat PROVE IsFiniteSet(1..n)
BY FS_Interval

LEMMA FiniteCounts ==
  ASSUME Known, NEW ids, NEW id, NEW c
  PROVE  /\ IsFiniteSet(CountedOf(id, c)) /\ Cardinality(CountedOf(id, c)) \in Nat
         /\ IsFiniteSet(Pending(ids, c)) /\ Cardinality(Pending(ids, c)) \in Nat
<1>1. IsFiniteSet(1..Len(log))
  BY KnownTypes, VotesUpTo
<1>2. IsFiniteSet(CountedOf(id, c))
  BY <1>1, FS_Subset DEF CountedOf
<1>3. IsFiniteSet(Pending(ids, c))
  BY FiniteAssumption, FS_Subset DEF Pending
<1> QED
  BY <1>2, <1>3, FS_CardinalityType

\* Two sets that differ in one element at most.
LEMMA OneElementApart ==
  ASSUME NEW S, NEW T, IsFiniteSet(S), IsFiniteSet(T), NEW x, S \ {x} = T \ {x}
  PROVE  Cardinality(T) = Cardinality(S) + One(x \in T) - One(x \in S)
<1>1. PICK rest : rest = S \ {x} /\ rest = T \ {x}
  OBVIOUS
<1>2. Cardinality(S) \in Nat /\ Cardinality(T) \in Nat
  BY FS_CardinalityType
<1>3. Cardinality(rest) = IF x \in S THEN Cardinality(S) - 1 ELSE Cardinality(S)
  BY <1>1, FS_RemoveElement
<1>4. Cardinality(rest) = IF x \in T THEN Cardinality(T) - 1 ELSE Cardinality(T)
  BY <1>1, FS_RemoveElement
<1> QED
  BY <1>2, <1>3, <1>4 DEF One

LEMMA PendingChanges ==
  ASSUME Known, Known', NEW w \in Workers, VotingStep(w), NEW id, NEW c
  PROVE  Cardinality(Pending({id}, c)') =
           Cardinality(Pending({id}, c)) + One(IsPending(w, id, c)') - One(IsPending(w, id, c))
<1>1. Pending({id}, c) = {v \in Workers : IsPending(v, id, c)}
  BY DEF Pending, IsPending
<1>2. Pending({id}, c)' = {v \in Workers : IsPending(v, id, c)'}
  BY DEF Pending, IsPending
<1>3. ASSUME NEW v \in Workers, v # w PROVE IsPending(v, id, c)' <=> IsPending(v, id, c)
  <2>1. Aside(v)
    BY <1>3, StepsAside
  <2>2. pc[v] = "count" => event[v] # 0
    BY DEF Known, GroupsInv, GroupInv, Holds
  <2> QED
    BY <2>1, <2>2 DEF Aside, IsPending
<1>4. PICK before, after : before = Pending({id}, c) /\ after = Pending({id}, c)'
  OBVIOUS
<1>5. before \ {w} = after \ {w}
  BY <1>1, <1>2, <1>3, <1>4
<1>6. IsFiniteSet(before) /\ IsFiniteSet(after)
  <2>1. before \subseteq Workers /\ after \subseteq Workers
    BY <1>1, <1>2, <1>4
  <2> QED
    BY <2>1, FiniteAssumption, FS_Subset
<1>7. Cardinality(after) = Cardinality(before) + One(w \in after) - One(w \in before)
  BY <1>5, <1>6, OneElementApart
<1>8. (w \in after <=> IsPending(w, id, c)') /\ (w \in before <=> IsPending(w, id, c))
  BY <1>1, <1>2, <1>4
<1> QED
  BY <1>4, <1>7, <1>8 DEF One

LEMMA CountedChanges ==
  ASSUME Known, NEW w \in Workers, NEW id, NEW c
  PROVE  /\ GroupAdded(w) \/ GroupKept(w) => CountedOf(id, c)' = CountedOf(id, c)
         /\ GroupCounted(w) =>
              Cardinality(CountedOf(id, c)') =
                Cardinality(CountedOf(id, c))
                  + One(~log[event[w]].counted /\ log[event[w]].id = id /\ log[event[w]].vote = c)
<1>0. Len(log) \in Nat /\ \A n \in 1..Len(log) : log[n] \in P!Vote
  BY KnownTypes, LogAfter
<1>1. ASSUME GroupAdded(w) PROVE CountedOf(id, c)' = CountedOf(id, c)
  <2>1. /\ Len(log') = Len(log) + 1
        /\ \A n \in 1..Len(log) : log'[n] = log[n]
        /\ log'[Len(log) + 1] = [id |-> cmd[w].id, vote |-> CounterOf(cmd[w].type), hour |-> now,
                                 counted |-> FALSE]
    BY <1>1, LogAfter
  <2>2. \A n : n \in 1..Len(log') <=> n \in 1..Len(log) \/ n = Len(log) + 1
    BY <1>0, <2>1
  <2>3. ~log'[Len(log) + 1].counted
    BY <2>1
  <2> QED
    BY <2>1, <2>2, <2>3 DEF CountedOf
<1>2. GroupKept(w) => CountedOf(id, c)' = CountedOf(id, c)
  BY DEF GroupKept, CountedOf
<1>3. ASSUME GroupCounted(w)
      PROVE  Cardinality(CountedOf(id, c)') =
               Cardinality(CountedOf(id, c))
                 + One(~log[event[w]].counted /\ log[event[w]].id = id /\ log[event[w]].vote = c)
  <2>1. /\ event[w] \in 1..Len(log)
        /\ Len(log') = Len(log)
        /\ \A n \in 1..Len(log) : n # event[w] => log'[n] = log[n]
        /\ log'[event[w]] = [log[event[w]] EXCEPT !.counted = TRUE]
    BY <1>3, LogAfter
  <2>2. /\ log'[event[w]].id = log[event[w]].id /\ log'[event[w]].vote = log[event[w]].vote
        /\ log'[event[w]].counted = TRUE
    BY <1>0, <2>1 DEF P!Vote
  <2>3. PICK before, after : before = CountedOf(id, c) /\ after = CountedOf(id, c)'
    OBVIOUS
  <2>4. /\ before = {n \in 1..Len(log) : log[n].counted /\ log[n].id = id /\ log[n].vote = c}
        /\ after = {n \in 1..Len(log) : log'[n].counted /\ log'[n].id = id /\ log'[n].vote = c}
    BY <2>1, <2>3 DEF CountedOf
  <2>5. before \ {event[w]} = after \ {event[w]}
    BY <2>1, <2>4
  <2>6. IsFiniteSet(before) /\ IsFiniteSet(after) /\ Cardinality(before) \in Nat
    <3>1. IsFiniteSet(1..Len(log))
      BY <1>0, VotesUpTo
    <3>2. before \subseteq 1..Len(log) /\ after \subseteq 1..Len(log)
      BY <2>4
    <3> QED
      BY <3>1, <3>2, FS_Subset, FS_CardinalityType
  <2>7. Cardinality(after) =
          Cardinality(before) + One(event[w] \in after) - One(event[w] \in before)
    BY <2>5, <2>6, OneElementApart
  <2>8. /\ event[w] \in after <=> log[event[w]].id = id /\ log[event[w]].vote = c
        /\ event[w] \in before <=>
             log[event[w]].counted /\ log[event[w]].id = id /\ log[event[w]].vote = c
    BY <2>1, <2>2, <2>4
  <2> QED
    BY <2>3, <2>6, <2>7, <2>8 DEF One
<1> QED
  BY <1>1, <1>2, <1>3

\* A stored vote crosses over in the table exactly as its handler had decided.
LEMMA CrossingOfStore ==
  ASSUME Known, NEW w \in Workers, pc[w] = "write", ConditionHolds(w), Store(w)
  PROVE  Crossing(w) = IF cmd[w].kind = "Add"
                       THEN CountersDue(snap[w].active.type, cmd[w].type) ELSE "none"
<1>0. IInv /\ Trusted(w)
  BY DEF Known, NoRemovals, Trusted
<1>1. cmd[w].id \in VoteId /\ Key(w) \in PrimaryKey
  BY <1>0, WriterKind
<1>2. romances' # romances
  BY <1>0, StoreRaisesVersion
<1>3. LedgerOfTable' = [LedgerOfTable EXCEPT ![cmd[w].id] = VoteWritten(w).type]
  BY <1>0, StoreWritesLedger
<1>4. LedgerOfTable[cmd[w].id] = snap[w].active.type
  BY <1>0, <1>1, TrustedWrite DEF LedgerOfTable
<1>5. LedgerOfTable'[cmd[w].id] = VoteWritten(w).type
  BY <1>1, <1>3 DEF LedgerOfTable
<1>6. cmd[w].kind = "Add" => VoteWritten(w).type = cmd[w].type
  BY DEF VoteWritten
<1> QED
  BY <1>2, <1>4, <1>5, <1>6 DEF Crossing

LEMMA CrossingOfWrite ==
  ASSUME Known, NEW w \in Workers, pc[w] = "write"
  PROVE  /\ WriteVote(w) /\ pc'[w] = "count" => Crossing(w) = due'[w]
         /\ WriteVote(w) /\ pc'[w] # "count" => Crossing(w) = "none"
         /\ WriteVote(w) \/ WriteUnanswered(w) => Crossing(w) \in {"none"} \cup Counter
<1>0. pc \in [Workers -> {"idle", "get", "write", "remove", "count"}]
      /\ due \in [Workers -> {"none", "yes", "no"}]
  BY KnownTypes
<1>1. CountersDue(snap[w].active.type, cmd[w].type) \in {"none"} \cup Counter
  BY DEF CountersDue, Counter
<1>2. ASSUME WriteVote(w)
      PROVE  Crossing(w) = IF cmd[w].kind = "Add"
                           THEN CountersDue(snap[w].active.type, cmd[w].type) ELSE "none"
  BY <1>2, CrossingOfStore DEF WriteVote, WriteSucceeds
<1>3. ASSUME WriteVote(w), pc'[w] = "count" PROVE Crossing(w) = due'[w]
  BY <1>2, <1>3, Destinations
<1>4. ASSUME WriteVote(w), pc'[w] # "count" PROVE Crossing(w) = "none"
  BY <1>0, <1>2, <1>4 DEF WriteVote, WriteSucceeds, Finish
<1>5. ASSUME WriteUnanswered(w) PROVE Crossing(w) \in {"none"} \cup Counter
  <2>1. CASE romances' = romances
    BY <2>1 DEF Crossing
  <2>2. CASE romances' # romances
    BY <1>1, <1>5, <2>2, CrossingOfStore
    DEF WriteUnanswered, WriteResponseLost, WriteAnswerUnreadable, WriteRequestLost
  <2> QED
    BY <2>1, <2>2
<1> QED
  BY <1>1, <1>2, <1>3, <1>4, <1>5

LEMMA Increased ==
  ASSUME NEW history \in HistoryOfVotes, NEW w, NEW counter \in {"none"} \cup Counter,
         counter # "none" => cmd[w].id \in VoteId
  PROVE  /\ Increase(history, w, counter) \in HistoryOfVotes
         /\ \A id \in VoteId, c \in Counter :
              Increase(history, w, counter)[<<id, c>>] =
                history[<<id, c>>] + One(cmd[w].id = id /\ counter = c)
<1>1. CASE counter = "none"
  BY <1>1 DEF Increase, One, Counter, HistoryOfVotes
<1>2. CASE counter # "none"
  <2>1. PICK key \in VoteId \X Counter : key = <<cmd[w].id, counter>>
    BY <1>2
  <2>2. Increase(history, w, counter) = [history EXCEPT ![key] = history[key] + 1]
    BY <1>2, <2>1 DEF Increase
  <2>3. history[key] + 1 \in Nat
    BY DEF HistoryOfVotes
  <2>4. Increase(history, w, counter) \in HistoryOfVotes
    BY <2>2, <2>3 DEF HistoryOfVotes
  <2>5. ASSUME NEW id \in VoteId, NEW c \in Counter
        PROVE  Increase(history, w, counter)[<<id, c>>] =
                 history[<<id, c>>] + One(cmd[w].id = id /\ counter = c)
    <3>1. <<id, c>> \in VoteId \X Counter /\ history[<<id, c>>] \in Nat
      BY DEF HistoryOfVotes
    <3>2. <<id, c>> = key <=> cmd[w].id = id /\ counter = c
      BY <2>1
    <3> QED
      BY <2>1, <2>2, <3>1, <3>2 DEF HistoryOfVotes, One
  <2> QED
    BY <2>4, <2>5
<1> QED
  BY <1>1, <1>2

\* The balance from the changes of its four numbers.
LEMMA BalanceStep ==
  ASSUME Known, Known', BalanceInv, NEW w \in Workers, VotingStep(w),
         crossed' \in HistoryOfVotes, missed' \in HistoryOfVotes,
         \A id \in VoteId, c \in Counter :
           crossed'[<<id, c>>] - crossed[<<id, c>>] =
             Cardinality(CountedOf(id, c)') - Cardinality(CountedOf(id, c))
               + One(IsPending(w, id, c)') - One(IsPending(w, id, c))
               + missed'[<<id, c>>] - missed[<<id, c>>]
  PROVE  BalanceInv'
<1> SUFFICES ASSUME NEW id \in VoteId, NEW c \in Counter
             PROVE  crossed'[<<id, c>>] = Cardinality(CountedOf(id, c)')
                      + Cardinality(Pending({id}, c)') + missed'[<<id, c>>]
  BY DEF BalanceInv
<1>1. PICK counted, countedAfter, pending, pendingAfter :
        /\ counted = CountedOf(id, c) /\ countedAfter = CountedOf(id, c)'
        /\ pending = Pending({id}, c) /\ pendingAfter = Pending({id}, c)'
  OBVIOUS
<1>2. Cardinality(counted) \in Nat /\ Cardinality(pending) \in Nat
  BY <1>1, FiniteCounts
<1>3. Cardinality(countedAfter) \in Nat /\ Cardinality(pendingAfter) \in Nat
  <2>1. countedAfter \subseteq 1..Len(log') /\ pendingAfter \subseteq Workers
    BY <1>1 DEF CountedOf, Pending
  <2>2. Len(log') \in Nat
    BY DEF Known, P!TypeOK
  <2>3. IsFiniteSet(1..Len(log'))
    BY <2>2, VotesUpTo
  <2>4. IsFiniteSet(countedAfter) /\ IsFiniteSet(pendingAfter)
    BY <2>1, <2>3, FiniteAssumption, FS_Subset
  <2> QED
    BY <2>4, FS_CardinalityType
<1>4. /\ crossed[<<id, c>>] \in Nat /\ missed[<<id, c>>] \in Nat
      /\ crossed'[<<id, c>>] \in Nat /\ missed'[<<id, c>>] \in Nat
  BY DEF BalanceInv, HistoryOfVotes
<1>5. PICK one, oneAfter : one = One(IsPending(w, id, c)) /\ oneAfter = One(IsPending(w, id, c)')
  OBVIOUS
<1>6. one \in Nat /\ oneAfter \in Nat
  BY <1>5 DEF One
<1>7. Cardinality(pendingAfter) = Cardinality(pending) + oneAfter - one
  BY <1>1, <1>5, PendingChanges
<1>8. crossed[<<id, c>>] = Cardinality(counted) + Cardinality(pending) + missed[<<id, c>>]
  BY <1>1 DEF BalanceInv
<1>9. crossed'[<<id, c>>] - crossed[<<id, c>>] =
        Cardinality(countedAfter) - Cardinality(counted) + oneAfter - one
          + missed'[<<id, c>>] - missed[<<id, c>>]
  BY <1>1, <1>5
<1>10. crossed'[<<id, c>>] =
         Cardinality(countedAfter) + Cardinality(pendingAfter) + missed'[<<id, c>>]
  BY <1>2, <1>3, <1>4, <1>6, <1>7, <1>8, <1>9
<1> QED
  BY <1>1, <1>10

\* Steps that count nothing, and do not touch the history.
LEMMA BalanceStays ==
  ASSUME Known, Known', BalanceInv, NEW w \in Workers, VotingStep(w),
         GroupAdded(w) \/ GroupKept(w), crossed' = crossed, missed' = missed,
         \A id \in VoteId, c \in Counter : IsPending(w, id, c)' <=> IsPending(w, id, c)
  PROVE  BalanceInv'
<1>1. crossed' \in HistoryOfVotes /\ missed' \in HistoryOfVotes
  BY DEF BalanceInv
<1>2. ASSUME NEW id \in VoteId, NEW c \in Counter
      PROVE  crossed'[<<id, c>>] - crossed[<<id, c>>] =
               Cardinality(CountedOf(id, c)') - Cardinality(CountedOf(id, c))
                 + One(IsPending(w, id, c)') - One(IsPending(w, id, c))
                 + missed'[<<id, c>>] - missed[<<id, c>>]
  <2>1. CountedOf(id, c)' = CountedOf(id, c) /\ Cardinality(CountedOf(id, c)) \in Nat
    BY CountedChanges, FiniteCounts
  <2>2. One(IsPending(w, id, c)') = One(IsPending(w, id, c)) /\ One(IsPending(w, id, c)) \in Nat
    BY DEF One
  <2>3. crossed[<<id, c>>] \in Nat /\ missed[<<id, c>>] \in Nat
    BY DEF BalanceInv, HistoryOfVotes
  <2>4. PICK n, m : n = Cardinality(CountedOf(id, c)) /\ m = One(IsPending(w, id, c))
    OBVIOUS
  <2>5. n - n + m - m + missed[<<id, c>>] - missed[<<id, c>>] = 0
    BY <2>1, <2>2, <2>3, <2>4
  <2>6. crossed[<<id, c>>] - crossed[<<id, c>>] = 0
    BY <2>3
  <2> QED
    BY <2>1, <2>2, <2>4, <2>5, <2>6
<1> QED
  BY <1>1, <1>2, BalanceStep

LEMMA PlainBalance ==
  ASSUME Known, Known', BalanceInv, NEW w \in Workers,
         PlainStep(w) \/ DecideAdd(w) \/ WriteRefused(w)
  PROVE  BalanceInv'
<1>1. VotingStep(w)
  BY DEF VotingStep
<1>2. crossed' = crossed /\ missed' = missed
  BY DEF PlainStep, DecideAdd, WriteRefused, HistoryUnchanged
<1>3. GroupAdded(w) \/ GroupKept(w)
  BY GroupSteps DEF PlainStep, WriteRefused
<1>4. pc[w] # "count"
  BY DEF PlainStep, DecideAdd, WriteRefused, Begin, GetAndReturn, GetFails, GetAndProceed,
         WriteRetries, WriteConflicts
<1>5. pc'[w] # "count"
  <2>1. CASE DecideAdd(w)
    BY <2>1, KnownTypes DEF DecideAdd, GetAndProceed
  <2>2. CASE PlainStep(w) \/ WriteRefused(w)
    BY <2>2, Destinations
  <2> QED
    BY <2>1, <2>2
<1>6. \A id \in VoteId, c \in Counter : IsPending(w, id, c)' <=> IsPending(w, id, c)
  BY <1>4, <1>5 DEF IsPending
<1> QED
  BY <1>1, <1>2, <1>3, <1>6, BalanceStays

LEMMA WriteBalance ==
  ASSUME Known, Known', BalanceInv, NEW w \in Workers, WriteVote(w) \/ WriteUnanswered(w)
  PROVE  BalanceInv'
<1>1. VotingStep(w) /\ pc[w] = "write"
  BY DEF VotingStep, WriteVote, WriteSucceeds, WriteUnanswered, WriteResponseLost,
         WriteAnswerUnreadable, WriteRequestLost
<1>2. cmd[w].id \in VoteId
  BY <1>1, KnownTypes
<1>3. GroupKept(w)
  BY GroupSteps DEF WriteVote, WriteUnanswered
<1>4. PICK counter \in {"none"} \cup Counter : counter = Crossing(w)
  BY <1>1, CrossingOfWrite
<1>5. /\ crossed' = Increase(crossed, w, counter)
      /\ crossed' \in HistoryOfVotes
      /\ \A id \in VoteId, c \in Counter :
           crossed'[<<id, c>>] = crossed[<<id, c>>] + One(cmd[w].id = id /\ counter = c)
  <2>1. crossed' = Increase(crossed, w, counter)
    BY <1>4 DEF WriteVote, WriteUnanswered
  <2> QED
    BY <1>2, <2>1, Increased DEF BalanceInv
<1>6. ASSUME NEW id \in VoteId, NEW c \in Counter
      PROVE  /\ CountedOf(id, c)' = CountedOf(id, c) /\ Cardinality(CountedOf(id, c)) \in Nat
             /\ crossed[<<id, c>>] \in Nat /\ missed[<<id, c>>] \in Nat
             /\ ~IsPending(w, id, c)
  <2>1. CountedOf(id, c)' = CountedOf(id, c)
    BY <1>3, CountedChanges
  <2>2. Cardinality(CountedOf(id, c)) \in Nat
    BY FiniteCounts
  <2>3. crossed[<<id, c>>] \in Nat /\ missed[<<id, c>>] \in Nat
    BY DEF BalanceInv, HistoryOfVotes
  <2>4. ~IsPending(w, id, c)
    BY <1>1 DEF IsPending
  <2> QED
    BY <2>1, <2>2, <2>3, <2>4
<1>7. CASE WriteVote(w)
  <2>1. missed' = missed
    BY <1>7 DEF WriteVote
  <2>2. ASSUME NEW id \in VoteId, NEW c \in Counter
        PROVE  IsPending(w, id, c)' <=> cmd[w].id = id /\ counter = c
    <3>1. CASE pc'[w] = "count"
      <4>1. due'[w] = counter /\ cmd'[w] = cmd[w] /\ event' = event /\ log' = log /\ Holds(w)
        BY <1>1, <1>4, <1>7, <3>1, CrossingOfWrite, Destinations DEF countersVars, Holds
      <4>2. ~log'[event'[w]].counted
        BY <1>1, <4>1 DEF Known, GroupsInv, GroupInv
      <4> QED
        BY <3>1, <4>1, <4>2 DEF IsPending
    <3>2. CASE pc'[w] # "count"
      BY <1>1, <1>4, <1>7, <3>2, CrossingOfWrite DEF IsPending, Counter
    <3> QED
      BY <3>1, <3>2
  <2>3. ASSUME NEW id \in VoteId, NEW c \in Counter
        PROVE  crossed'[<<id, c>>] - crossed[<<id, c>>] =
                 Cardinality(CountedOf(id, c)') - Cardinality(CountedOf(id, c))
                   + One(IsPending(w, id, c)') - One(IsPending(w, id, c))
                   + missed'[<<id, c>>] - missed[<<id, c>>]
    <3>1. PICK one : one = One(cmd[w].id = id /\ counter = c)
      OBVIOUS
    <3>2. one \in Nat /\ One(IsPending(w, id, c)') = one /\ One(IsPending(w, id, c)) = 0
      BY <1>6, <2>2, <3>1 DEF One
    <3>3. PICK n : n = Cardinality(CountedOf(id, c))
      OBVIOUS
    <3>4. crossed'[<<id, c>>] - crossed[<<id, c>>]
            = n - n + one - 0 + missed[<<id, c>>] - missed[<<id, c>>]
      BY <1>5, <1>6, <3>1, <3>2, <3>3
    <3> QED
      BY <1>6, <2>1, <3>2, <3>3, <3>4
  <2> QED
    BY <1>1, <1>5, <2>1, <2>3, BalanceStep DEF BalanceInv
<1>8. CASE WriteUnanswered(w)
  <2>1. /\ missed' \in HistoryOfVotes
        /\ \A id \in VoteId, c \in Counter :
             missed'[<<id, c>>] = missed[<<id, c>>] + One(cmd[w].id = id /\ counter = c)
    BY <1>2, <1>4, <1>8, Increased DEF WriteUnanswered, BalanceInv
  <2>2. pc'[w] # "count"
    BY <1>8, Destinations
  <2>3. ASSUME NEW id \in VoteId, NEW c \in Counter
        PROVE  crossed'[<<id, c>>] - crossed[<<id, c>>] =
                 Cardinality(CountedOf(id, c)') - Cardinality(CountedOf(id, c))
                   + One(IsPending(w, id, c)') - One(IsPending(w, id, c))
                   + missed'[<<id, c>>] - missed[<<id, c>>]
    <3>1. PICK one : one = One(cmd[w].id = id /\ counter = c)
      OBVIOUS
    <3>2. one \in Nat
      BY <3>1 DEF One
    <3>3. One(IsPending(w, id, c)') = 0 /\ One(IsPending(w, id, c)) = 0
      BY <1>6, <2>2 DEF One, IsPending
    <3>4. PICK n : n = Cardinality(CountedOf(id, c))
      OBVIOUS
    <3>5. crossed'[<<id, c>>] - crossed[<<id, c>>]
            = n - n + 0 - 0 + missed'[<<id, c>>] - missed[<<id, c>>]
      BY <1>5, <1>6, <2>1, <3>1, <3>2, <3>4
    <3> QED
      BY <1>6, <3>3, <3>4, <3>5
  <2> QED
    BY <1>1, <1>5, <2>1, <2>3, BalanceStep
<1> QED
  BY <1>7, <1>8

\* The worker that counts, or gives up counting, holds the group of its vote.
LEMMA CountingWorker ==
  ASSUME Known, NEW w \in Workers, pc[w] = "count"
  PROVE  /\ cmd[w].id \in VoteId /\ due[w] \in Counter
         /\ \A id, c : IsPending(w, id, c) <=>
              ~log[event[w]].counted /\ log[event[w]].id = id /\ log[event[w]].vote = c
<1>1. /\ log[event[w]].id = cmd[w].id /\ log[event[w]].vote = due[w]
      /\ log[event[w]].vote = CounterOf(cmd[w].type)
  BY DEF Known, GroupsInv, GroupInv, Holds
<1> QED
  BY <1>1, KnownTypes, CounterOfType DEF IsPending

LEMMA CountBalance ==
  ASSUME Known, Known', BalanceInv, NEW w \in Workers, CountVote(w) \/ CountUnanswered(w)
  PROVE  BalanceInv'
<1>1. VotingStep(w) /\ GroupCounted(w) /\ pc[w] = "count"
  BY GroupSteps DEF VotingStep, CountVote, CountUnanswered, CallCounters
<1>2. crossed' = crossed /\ missed' = missed
  BY DEF CountVote, CountUnanswered, HistoryUnchanged
<1>3. pc'[w] = "count" => log'[event'[w]].counted
  <2>1. log[event[w]] \in P!Vote /\ log'[event[w]] = [log[event[w]] EXCEPT !.counted = TRUE]
    BY <1>1, LogAfter
  <2>2. pc'[w] = "count" => event'[w] = event[w]
    BY Destinations
  <2> QED
    BY <2>1, <2>2 DEF P!Vote
<1>4. ASSUME NEW id \in VoteId, NEW c \in Counter
      PROVE  crossed'[<<id, c>>] - crossed[<<id, c>>] =
               Cardinality(CountedOf(id, c)') - Cardinality(CountedOf(id, c))
                 + One(IsPending(w, id, c)') - One(IsPending(w, id, c))
                 + missed'[<<id, c>>] - missed[<<id, c>>]
  <2>1. PICK n : n = Cardinality(CountedOf(id, c)) /\ n \in Nat
    BY FiniteCounts
  <2>2. PICK one : one = One(/\ ~log[event[w]].counted
                             /\ log[event[w]].id = id /\ log[event[w]].vote = c)
    OBVIOUS
  <2>3. one \in Nat /\ One(IsPending(w, id, c)) = one
    BY <1>1, <2>2, CountingWorker DEF One
  <2>4. Cardinality(CountedOf(id, c)') = n + one
    <3>1. Cardinality(CountedOf(id, c)') =
            Cardinality(CountedOf(id, c))
              + One(~log[event[w]].counted /\ log[event[w]].id = id /\ log[event[w]].vote = c)
      BY <1>1, CountedChanges
    <3> QED
      BY <2>1, <2>2, <3>1
  <2>5. One(IsPending(w, id, c)') = 0
    BY <1>3 DEF One, IsPending
  <2>6. crossed[<<id, c>>] \in Nat /\ missed[<<id, c>>] \in Nat
    BY DEF BalanceInv, HistoryOfVotes
  <2>7. crossed[<<id, c>>] - crossed[<<id, c>>] =
          (n + one) - n + 0 - one + missed[<<id, c>>] - missed[<<id, c>>]
    BY <2>1, <2>3, <2>6
  <2> QED
    BY <1>2, <2>1, <2>3, <2>4, <2>5, <2>7
<1> QED
  BY <1>1, <1>2, <1>4, BalanceStep DEF BalanceInv

LEMMA DropBalance ==
  ASSUME Known, Known', BalanceInv, NEW w \in Workers, CountFails(w) \/ Die(w)
  PROVE  BalanceInv'
<1>1. VotingStep(w) /\ GroupKept(w) /\ crossed' = crossed /\ pc'[w] = "idle"
  BY GroupSteps, Destinations DEF VotingStep, CountFails, Die
<1>2. \A id \in VoteId, c \in Counter : ~IsPending(w, id, c)'
  BY <1>1 DEF IsPending
<1>3. CASE pc[w] = "count" /\ ~log[event[w]].counted
  <2>1. missed' = Increase(missed, w, due[w])
    BY <1>3 DEF CountFails, Die, Uncounted
  <2>2. cmd[w].id \in VoteId /\ due[w] \in Counter
    BY <1>3, CountingWorker
  <2>3. /\ missed' \in HistoryOfVotes
        /\ \A id \in VoteId, c \in Counter :
             missed'[<<id, c>>] = missed[<<id, c>>] + One(cmd[w].id = id /\ due[w] = c)
    <3>1. PICK counter \in {"none"} \cup Counter : counter = due[w]
      BY <2>2
    <3>2. missed \in HistoryOfVotes
      BY DEF BalanceInv
    <3>3. /\ Increase(missed, w, counter) \in HistoryOfVotes
          /\ \A id \in VoteId, c \in Counter :
               Increase(missed, w, counter)[<<id, c>>] =
                 missed[<<id, c>>] + One(cmd[w].id = id /\ counter = c)
      BY <2>2, <3>2, Increased
    <3> QED
      BY <2>1, <3>1, <3>3
  <2>4. ASSUME NEW id \in VoteId, NEW c \in Counter
        PROVE  crossed'[<<id, c>>] - crossed[<<id, c>>] =
                 Cardinality(CountedOf(id, c)') - Cardinality(CountedOf(id, c))
                   + One(IsPending(w, id, c)') - One(IsPending(w, id, c))
                   + missed'[<<id, c>>] - missed[<<id, c>>]
    <3>1. PICK n : n = Cardinality(CountedOf(id, c)) /\ n \in Nat
      BY FiniteCounts
    <3>2. PICK one : one = One(cmd[w].id = id /\ due[w] = c)
      OBVIOUS
    <3>3. one \in Nat /\ One(IsPending(w, id, c)) = one /\ One(IsPending(w, id, c)') = 0
      BY <1>2, <1>3, <3>2 DEF One, IsPending
    <3>4. Cardinality(CountedOf(id, c)') = n
      BY <1>1, <3>1, CountedChanges
    <3>5. crossed[<<id, c>>] \in Nat /\ missed[<<id, c>>] \in Nat
      BY DEF BalanceInv, HistoryOfVotes
    <3>6. crossed[<<id, c>>] - crossed[<<id, c>>] =
            n - n + 0 - one + (missed[<<id, c>>] + one) - missed[<<id, c>>]
      BY <3>1, <3>3, <3>5
    <3>7. missed'[<<id, c>>] = missed[<<id, c>>] + one
      BY <2>3, <3>2
    <3> QED
      BY <1>1, <3>1, <3>3, <3>4, <3>6, <3>7
  <2> QED
    BY <1>1, <2>3, <2>4, BalanceStep DEF BalanceInv
<1>4. CASE ~(pc[w] = "count" /\ ~log[event[w]].counted)
  <2>1. missed' = missed
    BY <1>4 DEF CountFails, CallCounters, Die, Uncounted, Increase
  <2>2. \A id \in VoteId, c \in Counter : IsPending(w, id, c)' <=> IsPending(w, id, c)
    BY <1>2, <1>4 DEF IsPending
  <2> QED
    BY <1>1, <2>1, <2>2, BalanceStays
<1> QED
  BY <1>3, <1>4

LEMMA InitBalance == VotingInit => BalanceInv
<1> SUFFICES ASSUME VotingInit PROVE BalanceInv
  OBVIOUS
<1>1. crossed \in HistoryOfVotes /\ missed \in HistoryOfVotes
  BY DEF VotingInit, HistoryOfVotes
<1>2. ASSUME NEW id \in VoteId, NEW c \in Counter
      PROVE  /\ CountedOf(id, c) = {} /\ Pending({id}, c) = {}
             /\ crossed[<<id, c>>] = 0 /\ missed[<<id, c>>] = 0
  <2>1. Len(log) = 0
    BY DEF VotingInit, C!Init
  <2> QED
    BY <2>1 DEF VotingInit, Init, CountedOf, Pending
<1>3. Cardinality({}) = 0
  BY FS_EmptySet
<1> QED
  BY <1>1, <1>2, <1>3 DEF BalanceInv

LEMMA NextBalance ==
  ASSUME Known, BalanceInv, [VotingNext]_votingVars
  PROVE  BalanceInv'
<1>0. Known'
  BY NextKnown
<1>1. CASE UNCHANGED votingVars
  BY <1>1 DEF votingVars, vars, countersVars, BalanceInv, CountedOf, Pending
<1>2. CASE VotingNext
  BY <1>0, <1>2, PlainBalance, WriteBalance, CountBalance, DropBalance DEF VotingNext
<1> QED
  BY <1>1, <1>2

-----------------------------------------------------------------------------
(* The balance of every user: the vote ids of its side, summed up          *)

\* The history of one side as a function of the vote id, and its sum.
Side(history, c) == [id \in VoteId |-> history[<<id, c>>]]
SideTotal(history, c, ids) == MapThenSumSet(LAMBDA id : history[<<id, c>>], ids)

LEMMA VoteIdsFinite == IsFiniteSet(VoteId)
<1>1. IsFiniteSet(Users \X Users)
  BY FiniteAssumption, FS_Product
<1> QED
  BY <1>1, FS_Subset DEF VoteId

LEMMA SideTotalIsSum ==
  ASSUME NEW history, NEW c, NEW ids, ids \subseteq VoteId
  PROVE  SideTotal(history, c, ids) = SumOver(Side(history, c), ids)
<1> DEFINE f == Side(history, c)
           Eq(g) == g = [s \in SUBSET ids |->
                           IF s = {} THEN 0
                           ELSE history[<<Pick(s), c>>] + g[s \ {Pick(s)}]]
<1>1. SideTotal(history, c, ids) = (CHOOSE g : Eq(g))[ids]
  BY DEF SideTotal, MapThenSumSet, MapThenFoldSet, Pick
<1>2. IsFiniteSet(ids)
  BY VoteIdsFinite, FS_Subset
<1>3. \A s \in SUBSET ids : s # {} => f[Pick(s)] = history[<<Pick(s), c>>]
  <2>1. \A s \in SUBSET ids : s # {} => Pick(s) \in VoteId
    BY PickType
  <2> QED
    BY <2>1 DEF Side
<1> HIDE DEF f
<1>4. ASSUME NEW g PROVE Eq(g) <=> IsSum(f, ids, g)
  <2>1. [s \in SUBSET ids |-> IF s = {} THEN 0
                              ELSE history[<<Pick(s), c>>] + g[s \ {Pick(s)}]]
          = [s \in SUBSET ids |-> IF s = {} THEN 0 ELSE f[Pick(s)] + g[s \ {Pick(s)}]]
    BY <1>3
  <2> QED
    BY <2>1 DEF IsSum
<1>5. \E g : Eq(g)
  <2>1. \E g : IsSum(f, ids, g)
    BY <1>2, SumIs
  <2> HIDE DEF Eq
  <2> QED
    BY <1>4, <2>1
<1> HIDE DEF Eq
<1>6. PICK sums : sums = CHOOSE g : Eq(g)
  OBVIOUS
<1>7. Eq(sums)
  BY <1>5, <1>6
<1>8. sums[ids] = SumOver(f, ids)
  BY <1>2, <1>4, <1>7, SumIs
<1> QED
  BY <1>1, <1>6, <1>8 DEF f

LEMMA SumOfCounted ==
  ASSUME Known, NEW ids, ids \subseteq VoteId, NEW c
  PROVE  SumOver([id \in VoteId |-> Cardinality(CountedOf(id, c))], ids) =
           Cardinality({n \in 1..Len(log) : log[n].counted /\ log[n].vote = c /\ log[n].id \in ids})
<1>1. PICK key : key = [n \in 1..Len(log) |-> log[n].id]
  OBVIOUS
<1>2. PICK B : B = {n \in 1..Len(log) : log[n].counted /\ log[n].vote = c}
  OBVIOUS
<1>3. PICK f : f = [id \in VoteId |-> Cardinality(CountedOf(id, c))]
  OBVIOUS
<1>4. B \subseteq 1..Len(log) /\ \A n \in B : key[n] = log[n].id
  BY <1>1, <1>2
<1>5. IsFiniteSet(B)
  <2>1. IsFiniteSet(1..Len(log))
    BY KnownTypes, VotesUpTo
  <2> QED
    BY <1>4, <2>1, FS_Subset
<1>6. IsFiniteSet(ids)
  BY VoteIdsFinite, FS_Subset
<1>7. ASSUME NEW id \in ids PROVE f[id] = Cardinality(With(B, key, {id}))
  <2>1. CountedOf(id, c) = With(B, key, {id})
    BY <1>2, <1>4 DEF CountedOf, With
  <2> QED
    BY <1>3, <2>1
<1>8. SumOver(f, ids) = Cardinality(With(B, key, ids))
  BY <1>5, <1>6, <1>7, SumOfCardinalities
<1>9. With(B, key, ids) =
        {n \in 1..Len(log) : log[n].counted /\ log[n].vote = c /\ log[n].id \in ids}
  BY <1>2, <1>4 DEF With
<1> QED
  BY <1>3, <1>8, <1>9

LEMMA SumOfPending ==
  ASSUME Known, NEW ids, ids \subseteq VoteId, NEW c
  PROVE  SumOver([id \in VoteId |-> Cardinality(Pending({id}, c))], ids)
           = Cardinality(Pending(ids, c))
<1>1. PICK key : key = [w \in Workers |-> cmd[w].id]
  OBVIOUS
<1>2. PICK B : B = {w \in Workers : pc[w] = "count" /\ due[w] = c /\ ~log[event[w]].counted}
  OBVIOUS
<1>3. PICK f : f = [id \in VoteId |-> Cardinality(Pending({id}, c))]
  OBVIOUS
<1>4. B \subseteq Workers /\ \A w \in B : key[w] = cmd[w].id
  BY <1>1, <1>2
<1>5. IsFiniteSet(B)
  BY <1>4, FiniteAssumption, FS_Subset
<1>6. IsFiniteSet(ids)
  BY VoteIdsFinite, FS_Subset
<1>7. ASSUME NEW id \in ids PROVE f[id] = Cardinality(With(B, key, {id}))
  <2>1. Pending({id}, c) = With(B, key, {id})
    BY <1>2, <1>4 DEF Pending, With
  <2> QED
    BY <1>3, <2>1
<1>8. SumOver(f, ids) = Cardinality(With(B, key, ids))
  BY <1>5, <1>6, <1>7, SumOfCardinalities
<1>9. With(B, key, ids) = Pending(ids, c)
  BY <1>2, <1>4 DEF Pending, With
<1> QED
  BY <1>3, <1>8, <1>9

\* The balance of any set of vote ids on one side.
LEMMA SideBalances ==
  ASSUME Known, BalanceInv, NEW ids, ids \subseteq VoteId, NEW c \in Counter
  PROVE  SideTotal(crossed, c, ids) =
           Cardinality({n \in 1..Len(log) : log[n].counted /\ log[n].vote = c /\ log[n].id \in ids})
             + Cardinality(Pending(ids, c)) + SideTotal(missed, c, ids)
<1>1. PICK counted, pending :
        /\ counted = [id \in VoteId |-> Cardinality(CountedOf(id, c))]
        /\ pending = [id \in VoteId |-> Cardinality(Pending({id}, c))]
  OBVIOUS
<1>2. PICK stored, lost : stored = Side(crossed, c) /\ lost = Side(missed, c)
  OBVIOUS
<1>3. PICK both : both = [id \in VoteId |-> counted[id] + pending[id]]
  OBVIOUS
<1>4. IsFiniteSet(ids)
  BY VoteIdsFinite, FS_Subset
<1>5. ASSUME NEW id \in ids
      PROVE  /\ counted[id] \in Int /\ pending[id] \in Int /\ lost[id] \in Int
             /\ both[id] = counted[id] + pending[id]
             /\ stored[id] = both[id] + lost[id]
  <2>1. id \in VoteId
    OBVIOUS
  <2>2. /\ Cardinality(CountedOf(id, c)) \in Nat /\ Cardinality(Pending({id}, c)) \in Nat
    BY FiniteCounts
  <2>3. counted[id] = Cardinality(CountedOf(id, c)) /\ pending[id] = Cardinality(Pending({id}, c))
    BY <1>1, <2>1
  <2>4. stored[id] = crossed[<<id, c>>] /\ lost[id] = missed[<<id, c>>]
    BY <1>2, <2>1 DEF Side
  <2>5. missed[<<id, c>>] \in Nat
    BY <2>1 DEF BalanceInv, HistoryOfVotes
  <2>6. crossed[<<id, c>>] =
          Cardinality(CountedOf(id, c)) + Cardinality(Pending({id}, c)) + missed[<<id, c>>]
    BY <2>1 DEF BalanceInv
  <2> QED
    BY <1>3, <2>1, <2>2, <2>3, <2>4, <2>5, <2>6
<1>6. SumOver(both, ids) = SumOver(counted, ids) + SumOver(pending, ids)
  BY <1>4, <1>5, SumPlus
<1>7. SumOver(stored, ids) = SumOver(both, ids) + SumOver(lost, ids)
  <2>1. \A id \in ids : both[id] \in Int /\ lost[id] \in Int /\ stored[id] = both[id] + lost[id]
    BY <1>5
  <2> QED
    BY <1>4, <2>1, SumPlus
<1>8. SumOver(counted, ids) =
        Cardinality({n \in 1..Len(log) : log[n].counted /\ log[n].vote = c /\ log[n].id \in ids})
  BY <1>1, SumOfCounted
<1>9. SumOver(pending, ids)
           = Cardinality(Pending(ids, c))
  BY <1>1, SumOfPending
<1>10. /\ SideTotal(crossed, c, ids) = SumOver(stored, ids)
       /\ SideTotal(missed, c, ids) = SumOver(lost, ids)
  BY <1>2, SideTotalIsSum
<1> QED
  BY <1>6, <1>7, <1>8, <1>9, <1>10

\* The counted votes of a user on one side, by vote id.
LEMMA VotesOfSide ==
  ASSUME Known, NEW u \in Users, NEW c \in Counter
  PROVE  /\ P!Votes(u, P!outgoingAttrName(c), 0) =
              {n \in 1..Len(log) : log[n].counted /\ log[n].vote = c
                                   /\ log[n].id \in {id \in VoteId : id[1] = u}}
         /\ P!Votes(u, P!incomingAttrName(c), 0) =
              {n \in 1..Len(log) : log[n].counted /\ log[n].vote = c
                                   /\ log[n].id \in {id \in VoteId : id[2] = u}}
<1>1. ASSUME NEW n \in 1..Len(log)
      PROVE  log[n].id \in VoteId /\ log[n].vote \in {"yes", "no"} /\ log[n].hour >= 0
  <2>1. log[n] \in P!Vote
    BY KnownTypes
  <2>2. log[n].hour \in Nat
    BY <2>1, VotingTtlHoursAssumption, VotingLastHourAssumption DEF P!Vote, P!Hours, P!FirstHour
  <2> QED
    BY <2>1, <2>2, CountersOperators DEF P!Vote
<1>2. c \in {"yes", "no"}
  BY DEF Counter
<1>3. ASSUME NEW vote \in {"yes", "no"}
      PROVE  /\ P!outgoingAttrName(vote) = P!outgoingAttrName(c) <=> vote = c
             /\ P!incomingAttrName(vote) = P!incomingAttrName(c) <=> vote = c
             /\ P!outgoingAttrName(vote) # P!incomingAttrName(c)
             /\ P!incomingAttrName(vote) # P!outgoingAttrName(c)
  BY <1>2, <1>3 DEF P!outgoingAttrName, P!incomingAttrName
<1>4. P!Votes(u, P!outgoingAttrName(c), 0) =
        {n \in 1..Len(log) : log[n].counted /\ log[n].vote = c
                             /\ log[n].id \in {id \in VoteId : id[1] = u}}
  BY <1>1, <1>3 DEF P!Votes
<1>5. P!Votes(u, P!incomingAttrName(c), 0) =
        {n \in 1..Len(log) : log[n].counted /\ log[n].vote = c
                             /\ log[n].id \in {id \in VoteId : id[2] = u}}
  BY <1>1, <1>3 DEF P!Votes
<1> QED
  BY <1>4, <1>5

LEMMA Conserved ==
  ASSUME Known, BalanceInv, P!LifetimeCountsVotes
  PROVE  VotesAreConserved
<1> SUFFICES ASSUME NEW u \in Users, NEW c \in Counter
             PROVE  /\ SideTotal(crossed, c, {id \in VoteId : id[1] = u})
                         = C!GetLifetimeCounter(u)[C!outgoingAttrName(c)]
                           + Cardinality(Pending({id \in VoteId : id[1] = u}, c))
                           + SideTotal(missed, c, {id \in VoteId : id[1] = u})
                    /\ SideTotal(crossed, c, {id \in VoteId : id[2] = u})
                         = C!GetLifetimeCounter(u)[C!incomingAttrName(c)]
                           + Cardinality(Pending({id \in VoteId : id[2] = u}, c))
                           + SideTotal(missed, c, {id \in VoteId : id[2] = u})
  BY DEF VotesAreConserved, SideTotal
<1>1. P!outgoingAttrName(c) \in P!Attr /\ P!incomingAttrName(c) \in P!Attr
  BY DEF P!outgoingAttrName, P!incomingAttrName, P!Attr
<1>2. /\ C!GetLifetimeCounter(u)[C!outgoingAttrName(c)]
           = Cardinality(P!Votes(u, P!outgoingAttrName(c), 0))
      /\ C!GetLifetimeCounter(u)[C!incomingAttrName(c)]
           = Cardinality(P!Votes(u, P!incomingAttrName(c), 0))
  BY <1>1, CountersOperators DEF P!LifetimeCountsVotes, P!Cardinality, Cardinality
<1>3. PICK given, received : /\ given = {id \in VoteId : id[1] = u}
                             /\ received = {id \in VoteId : id[2] = u}
  OBVIOUS
<1>4. given \subseteq VoteId /\ received \subseteq VoteId
  BY <1>3
<1>5. SideTotal(crossed, c, given) =
        Cardinality({n \in 1..Len(log) : log[n].counted /\ log[n].vote = c /\ log[n].id \in given})
          + Cardinality(Pending(given, c)) + SideTotal(missed, c, given)
  BY <1>4, SideBalances
<1>6. SideTotal(crossed, c, received) =
        Cardinality({n \in 1..Len(log) :
                       log[n].counted /\ log[n].vote = c /\ log[n].id \in received})
          + Cardinality(Pending(received, c)) + SideTotal(missed, c, received)
  BY <1>4, SideBalances
<1>7. /\ P!Votes(u, P!outgoingAttrName(c), 0) =
           {n \in 1..Len(log) : log[n].counted /\ log[n].vote = c /\ log[n].id \in given}
      /\ P!Votes(u, P!incomingAttrName(c), 0) =
           {n \in 1..Len(log) : log[n].counted /\ log[n].vote = c /\ log[n].id \in received}
  BY <1>3, VotesOfSide
<1> QED
  BY <1>2, <1>3, <1>5, <1>6, <1>7

\* For any users, workers, faults, retries and resends: for every user, on both
\* sides, the votes that Adds made cross over in the romances table are in the
\* lifetime counters once, about to be counted, or missed for a failure.
THEOREM ConservationCorrect == VotingSpec => []VotesAreConserved
<1>1. VotingSpec => [](Known /\ BalanceInv)
  <2>1. VotingInit => Known /\ BalanceInv
    BY InitKnown, InitBalance
  <2>2. Known /\ BalanceInv /\ [VotingNext]_votingVars => (Known /\ BalanceInv)'
    BY NextKnown, NextBalance
  <2> QED
    BY <2>1, <2>2, PTL DEF VotingSpec
<1>2. P!Spec => []P!LifetimeCountsVotes
  <2>1. TtlHours \in Nat \ {0} /\ LastHour \in Nat /\ LastHour > TtlHours /\ MaxVotes \in Nat
        /\ MaxSends \in Nat \ {0}
    BY VotingTtlHoursAssumption, VotingLastHourAssumption, VotingMaxVotesAssumption,
       MaxSendsAssumption
  <2> QED
    BY <2>1, P!LifetimeCorrect
<1>3. Known /\ BalanceInv /\ P!LifetimeCountsVotes => VotesAreConserved
  BY Conserved
<1> QED
  BY <1>1, <1>2, <1>3, VotingImplementsCounters, PTL

=============================================================================
