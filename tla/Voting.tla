-------------------------------- MODULE Voting --------------------------------
(***************************************************************************)
(* The vote path of the service: the romances of the module Romances and   *)
(* the counters of the module Counters, joined as AddUserVote joins them.  *)
(* Each attempt of an Add fixes a counter update group before it writes;   *)
(* once the vote is stored, the group is counted if the vote crossed over  *)
(* into the counted class.  Nothing ties the two tables together: what     *)
(* fails in between is not made up for.                                    *)
(***************************************************************************)
EXTENDS Romances, Sequences, FiniteSets, FiniteSetsExt

CONSTANTS
  TtlHours, LastHour,   \* as in Counters
  MaxVotes              \* bound: counter update groups

ASSUME VotingTtlHoursAssumption == TtlHours \in Nat \ {0}
ASSUME VotingLastHourAssumption == LastHour \in Nat /\ LastHour > TtlHours
ASSUME VotingMaxVotesAssumption == MaxVotes \in Nat
ASSUME FiniteAssumption == IsFiniteSet(Users) /\ IsFiniteSet(Workers)

\* The vote path has no removals: what they do to the votes is in Romances.
ASSUME VotePathAssumption == Kinds \subseteq {"Add", "Change", "DeleteVote", "Get"}

VARIABLES
  now, counters, log, event,    \* as in Counters
  countSends,   \* sends of a worker's counter transaction that got no answer
  crossed,      \* history: Adds whose vote crossed over, by vote id and counter
  missed        \* history: those that will not be counted

countersVars == <<now, counters, log, event, countSends>>
votingVars == <<vars, countersVars, crossed, missed>>

C == INSTANCE Counters WITH Writers <- Workers, Readers <- {},
                            sends <- countSends, read <- <<>>

Counter == {"yes", "no"}
CounterOf(type) == IF IsPositive(type) THEN "yes" ELSE "no"

VotingInit ==
  /\ Init
  /\ C!Init
  /\ crossed = [key \in VoteId \X Counter |-> 0]
  /\ missed = [key \in VoteId \X Counter |-> 0]

-----------------------------------------------------------------------------
(* Pieces of the steps                                                     *)

HistoryUnchanged == UNCHANGED <<crossed, missed>>

\* The attempt is over and its group with it, counted or not.
DropGroup(w) == IF event[w] # 0 THEN C!IncrFails(w) ELSE UNCHANGED countersVars

\* The counter that the step of an Add makes the stored vote cross over into,
\* judged on the table before and after.  A change crosses over uncounted.
Crossing(w) ==
  IF cmd[w].kind # "Add" \/ romances' = romances THEN "none"
  ELSE CountersDue(LedgerOfTable[cmd[w].id], LedgerOfTable'[cmd[w].id])

Increase(history, w, counter) ==
  IF counter = "none" THEN history ELSE [history EXCEPT ![<<cmd[w].id, counter>>] = @ + 1]

\* What is lost when the worker lets go of the vote it was to count.
Uncounted(w) == IF log[event[w]].counted THEN "none" ELSE due[w]

-----------------------------------------------------------------------------
(* The steps                                                               *)

\* Steps of a handler that do not concern the counters.
PlainStep(w) ==
  /\ \/ \E c \in Command : Begin(w, c)
     \/ GetAndReturn(w) \/ GetFails(w)
     \/ cmd[w].kind # "Add" /\ GetAndProceed(w)
  /\ UNCHANGED countersVars
  /\ HistoryUnchanged

DecideAdd(w) ==
  /\ GetAndProceed(w)
  /\ cmd[w].kind = "Add"
  /\ C!NewCounterUpdateGroup(w, cmd[w].id, CounterOf(cmd[w].type))
  /\ HistoryUnchanged

WriteVote(w) ==
  /\ WriteSucceeds(w)
  /\ IF pc'[w] = "count" THEN UNCHANGED countersVars ELSE DropGroup(w)
  /\ crossed' = Increase(crossed, w, Crossing(w))
  /\ UNCHANGED missed

\* No answer to the write, or none that can be read: if it was applied, its
\* vote will not be counted.
WriteUnanswered(w) ==
  /\ WriteResponseLost(w) \/ WriteAnswerUnreadable(w) \/ WriteRequestLost(w)
  /\ IF pc'[w] = "write" THEN UNCHANGED countersVars ELSE DropGroup(w)
  /\ crossed' = Increase(crossed, w, Crossing(w))
  /\ missed' = Increase(missed, w, Crossing(w))

WriteRefused(w) ==
  /\ WriteRetries(w) \/ WriteConflicts(w)
  /\ DropGroup(w)
  /\ HistoryUnchanged

CountVote(w) ==
  /\ CallCounters(w)
  /\ C!IncrSucceeds(w)
  /\ HistoryUnchanged

\* The transaction fails for good: the handler answers as if it had not.
CountFails(w) ==
  /\ CallCounters(w)
  /\ C!IncrFails(w)
  /\ missed' = Increase(missed, w, Uncounted(w))
  /\ UNCHANGED crossed

\* No answer to the transaction: sent again, or given up.
CountUnanswered(w) ==
  /\ pc[w] = "count"
  /\ C!IncrResponseLost(w)
  /\ IF event'[w] = 0 THEN CallCounters(w) ELSE UNCHANGED vars
  /\ HistoryUnchanged

Die(w) ==
  /\ Crash(w)
  /\ DropGroup(w)
  /\ missed' = Increase(missed, w, IF pc[w] = "count" THEN Uncounted(w) ELSE "none")
  /\ UNCHANGED crossed

VotingNext ==
  \E w \in Workers :
    \/ PlainStep(w) \/ DecideAdd(w)
    \/ WriteVote(w) \/ WriteUnanswered(w) \/ WriteRefused(w)
    \/ CountVote(w) \/ CountFails(w) \/ CountUnanswered(w)
    \/ Die(w)

VotingSpec == VotingInit /\ [][VotingNext]_votingVars

-----------------------------------------------------------------------------
(* Safety                                                                  *)

Pending(ids, counter) ==
  {w \in Workers : pc[w] = "count" /\ cmd[w].id \in ids /\ due[w] = counter
                   /\ ~log[event[w]].counted}

\* Adds and counts balance, for every user, on both sides: a vote that an Add
\* made cross over in the romances table is in the lifetime counters once, or
\* about to be, or was missed for a failure; retries after a version conflict
\* and resent transactions add nothing.  Votes that a change makes cross over
\* are in no counter, in the code as here.
VotesAreConserved ==
  \A u \in Users, counter \in Counter :
    LET Balance(ids, attr) ==
          MapThenSumSet(LAMBDA id : crossed[<<id, counter>>], ids)
            = C!GetLifetimeCounter(u)[attr] + Cardinality(Pending(ids, counter))
              + MapThenSumSet(LAMBDA id : missed[<<id, counter>>], ids)
    IN  /\ Balance({id \in VoteId : id[1] = u}, C!outgoingAttrName(counter))
        /\ Balance({id \in VoteId : id[2] = u}, C!incomingAttrName(counter))

=============================================================================
