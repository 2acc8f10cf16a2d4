------------------------------- MODULE Counters -------------------------------
(***************************************************************************)
(* The Counters table: for every user one row per hour and one lifetime    *)
(* row, each with the yes and no votes the user gave and received.         *)
(*                                                                         *)
(* An operation fixes the hour of its vote, and some time later increments *)
(* four rows in one transaction: the hourly and the lifetime row of both   *)
(* users.  Errors are logged and dropped.  Hourly rows carry a TTL, after  *)
(* which DynamoDB deletes them at a time of its choosing.  GetHourlyCounters *)
(* reads the clock once per requested offset, once more for its filter,    *)
(* and then queries the rows; the clock runs, rows change and rows expire  *)
(* in between.                                                             *)
(***************************************************************************)
EXTENDS Integers, Sequences, FiniteSets, FiniteSetsExt

CONSTANTS
  Users,
  Writers,      \* goroutines that add votes
  Readers,      \* goroutines that serve hourly counters
  TtlHours,     \* config.CountersTtlHours
  LastHour,     \* bound: the last hour of the clock
  MaxVotes,     \* bound: the votes that are counted
  MaxSends      \* how often the AWS client sends one transaction

ASSUME TtlHoursAssumption == TtlHours \in Nat \ {0}
ASSUME LastHourAssumption == LastHour \in Nat /\ LastHour > TtlHours
ASSUME MaxVotesAssumption == MaxVotes \in Nat
ASSUME CountersMaxSendsAssumption == MaxSends \in Nat \ {0}

VARIABLES
  now,          \* the hour the clock shows
  counters,     \* the table: the counts under each key
  log,          \* the votes to be counted; counted is history
  event,        \* the vote each writer counts, an index of log, 0 for none
  sends,        \* the sends of its transaction that got no answer
  read          \* each reader's call of GetHourlyCounters

vars == <<now, counters, log, event, sends, read>>

-----------------------------------------------------------------------------
(* Keys and rows                                                           *)

\* The clock starts late enough for the longest window to end after hour 0.
FirstHour == TtlHours + 1
Hours == FirstHour..LastHour
LifetimeCounterKey == 0
CounterKey == Users \X ({LifetimeCounterKey} \cup Hours)

VoteId == {id \in Users \X Users : id[1] # id[2]}
outgoingAttrName(vote) == IF vote = "yes" THEN "oy" ELSE "on"
incomingAttrName(vote) == IF vote = "yes" THEN "iy" ELSE "in"

\* A row with four zeros stands for no row: reads do not tell them apart.
Attr == {"iy", "in", "oy", "on"}
CountersGroup == [Attr -> Nat]
EmptyGroup == [a \in Attr |-> 0]

Incr(table, key, attr) == [table EXCEPT ![key][attr] = @ + 1]

\* The four updates of the transaction, on four different keys.
incrCounters(table, id, vote, hour) ==
  LET t1 == Incr(table, <<id[1], hour>>, outgoingAttrName(vote))
      t2 == Incr(t1, <<id[1], LifetimeCounterKey>>, outgoingAttrName(vote))
      t3 == Incr(t2, <<id[2], hour>>, incomingAttrName(vote))
  IN  Incr(t3, <<id[2], LifetimeCounterKey>>, incomingAttrName(vote))

\* Mutant: a row expires at the start of the last hour it is still read in.
RowTtlHourEarly(hour) == hour + TtlHours - 1

\* When an hourly row expires; the lifetime row has no TTL.
RowTtl(hour) == hour + TtlHours

GetLifetimeCounter(u) == counters[<<u, LifetimeCounterKey>>]

-----------------------------------------------------------------------------
(* Calls of GetHourlyCounters                                              *)

\* NewHoursOffsetGroups: distinct offsets between 1 and the TTL, at least one.
HoursOffsetGroups == SUBSET (1..TtlHours) \ {{}}

NoRead == [pc |-> "idle", user |-> 0, offsets |-> {}, cutoff |-> <<>>, filter |-> 0, began |-> 0]

\* Mutant: a row counts for the groups that start after it.
BackwardGroup(rd, offset, attr) ==
  MapThenSumSet(LAMBDA h : counters[<<rd.user, h>>][attr],
                {h \in Hours : h >= rd.filter /\ h <= rd.cutoff[offset]})

\* The rows of the query, summed up for the group of one offset.
GroupCount(rd, offset, attr) ==
  MapThenSumSet(LAMBDA h : counters[<<rd.user, h>>][attr],
                {h \in Hours : h >= rd.filter /\ h >= rd.cutoff[offset]})

-----------------------------------------------------------------------------
Vote == [id : VoteId, vote : {"yes", "no"}, hour : Hours, counted : BOOLEAN]

\* What a call knows: nothing, or the start of the window of each offset it has
\* come to, and of all of them once it is past the loop.
Cutoffs(offsets) == UNION {[O -> 1..LastHour] : O \in SUBSET offsets}

Read ==
  {rd \in [pc : {"cutoffs", "filter", "query"}, user : Users, offsets : HoursOffsetGroups,
           cutoff : Cutoffs(1..TtlHours), filter : 0..LastHour, began : Hours] :
     /\ DOMAIN rd.cutoff \subseteq rd.offsets
     /\ rd.pc # "cutoffs" => DOMAIN rd.cutoff = rd.offsets}

TypeOK ==
  /\ now \in Hours
  /\ counters \in [CounterKey -> CountersGroup]
  /\ log \in Seq(Vote)
  /\ Len(log) <= MaxVotes
  /\ event \in [Writers -> 0..Len(log)]
  /\ sends \in [Writers -> 0..(MaxSends - 1)]
  /\ read \in [Readers -> Read \cup {NoRead}]

Init ==
  /\ now = FirstHour
  /\ counters = [key \in CounterKey |-> EmptyGroup]
  /\ log = <<>>
  /\ event = [w \in Writers |-> 0]
  /\ sends = [w \in Writers |-> 0]
  /\ read = [r \in Readers |-> NoRead]

-----------------------------------------------------------------------------
(* The steps of a writer                                                   *)

\* AddUserVote fixes the hour of the vote before it writes the romance.
NewCounterUpdateGroup(w, id, vote) ==
  /\ event[w] = 0
  /\ Len(log) < MaxVotes
  /\ log' = Append(log, [id |-> id, vote |-> vote, hour |-> now, counted |-> FALSE])
  /\ event' = [event EXCEPT ![w] = Len(log) + 1]
  /\ UNCHANGED <<now, counters, sends, read>>

EndIncr(w) ==
  /\ event' = [event EXCEPT ![w] = 0]
  /\ sends' = [sends EXCEPT ![w] = 0]

\* Mutant: the client sends the transaction without an idempotency token.
TransactWriteAgain(w) ==
  LET e == log[event[w]]
  IN  /\ counters' = incrCounters(counters, e.id, e.vote, e.hour)
      /\ log' = [log EXCEPT ![event[w]].counted = TRUE]

\* DynamoDB applies a transaction once: the token the AWS client puts in it
\* tells a second send from a second transaction.
TransactWriteItems(w) ==
  LET e == log[event[w]]
  IN  /\ counters' = IF e.counted THEN counters
                     ELSE incrCounters(counters, e.id, e.vote, e.hour)
      /\ log' = [log EXCEPT ![event[w]].counted = TRUE]

IncrSucceeds(w) ==
  /\ event[w] # 0
  /\ TransactWriteItems(w)
  /\ EndIncr(w)
  /\ UNCHANGED <<now, read>>

\* The transaction is cancelled, or the request is lost or the process dies:
\* the error is logged at most, and the vote stays uncounted.
IncrFails(w) ==
  /\ event[w] # 0
  /\ EndIncr(w)
  /\ UNCHANGED <<now, counters, log, read>>

\* The answer is lost; the client sends again, or gives up.
IncrResponseLost(w) ==
  /\ event[w] # 0
  /\ TransactWriteItems(w)
  /\ \/ sends[w] + 1 < MaxSends /\ sends' = [sends EXCEPT ![w] = @ + 1] /\ UNCHANGED event
     \/ sends[w] + 1 = MaxSends /\ EndIncr(w)
  /\ UNCHANGED <<now, read>>

-----------------------------------------------------------------------------
(* The steps of a reader                                                   *)

GetHourlyCounters(r, u, offsets) ==
  /\ read[r].pc = "idle"
  /\ read' = [read EXCEPT ![r] = [pc |-> "cutoffs", user |-> u, offsets |-> offsets,
                                 cutoff |-> <<>>, filter |-> 0, began |-> now]]
  /\ UNCHANGED <<now, counters, log, event, sends>>

\* Mutant: the loop goes on past the offsets of the request.
NextCutoffOfAny(r) ==
  /\ read[r].pc = "cutoffs"
  /\ LET todo == 1..TtlHours \ DOMAIN read[r].cutoff
     IN  \E o \in todo :
           /\ \A p \in todo : o <= p
           /\ read' = [read EXCEPT
                ![r].cutoff = [p \in DOMAIN @ \cup {o} |-> IF p = o THEN now - o ELSE @[p]],
                ![r].pc = IF todo = {o} THEN "filter" ELSE "cutoffs"]
  /\ UNCHANGED <<now, counters, log, event, sends>>

\* The loop over the sorted offsets reads the clock for each.
NextCutoff(r) ==
  /\ read[r].pc = "cutoffs"
  /\ LET todo == read[r].offsets \ DOMAIN read[r].cutoff
     IN  \E o \in todo :
           /\ \A p \in todo : o <= p
           /\ read' = [read EXCEPT
                ![r].cutoff = [p \in DOMAIN @ \cup {o} |-> IF p = o THEN now - o ELSE @[p]],
                ![r].pc = IF todo = {o} THEN "filter" ELSE "cutoffs"]
  /\ UNCHANGED <<now, counters, log, event, sends>>

\* Mutant: the filter leaves out the hour the longest window starts with.
TimeFilterAfterWindow(r) ==
  /\ read[r].pc = "filter"
  /\ \E longest \in read[r].offsets :
       /\ \A o \in read[r].offsets : o <= longest
       /\ read' = [read EXCEPT ![r].filter = now - longest + 1, ![r].pc = "query"]
  /\ UNCHANGED <<now, counters, log, event, sends>>

\* The filter of the query: the clock is read once more.
TimeFilter(r) ==
  /\ read[r].pc = "filter"
  /\ \E longest \in read[r].offsets :
       /\ \A o \in read[r].offsets : o <= longest
       /\ read' = [read EXCEPT ![r].filter = now - longest, ![r].pc = "query"]
  /\ UNCHANGED <<now, counters, log, event, sends>>

\* The consistent query, or its failure: the call returns.  What it returns
\* is GroupCount of the state it runs in.
Query(r) ==
  /\ read[r].pc = "query"
  /\ read' = [read EXCEPT ![r] = NoRead]
  /\ UNCHANGED <<now, counters, log, event, sends>>

-----------------------------------------------------------------------------
(* The clock and the TTL                                                   *)

\* A call takes less than an hour: the clock shows at most one new hour while
\* it runs.
NextHour ==
  /\ now < LastHour
  /\ \A r \in Readers : read[r].pc # "idle" => read[r].began = now
  /\ now' = now + 1
  /\ UNCHANGED <<counters, log, event, sends, read>>

\* DynamoDB deletes an expired row at any time from its TTL on.
Expire(u, hour) ==
  /\ RowTtl(hour) <= now
  /\ counters[<<u, hour>>] # EmptyGroup
  /\ counters' = [counters EXCEPT ![<<u, hour>>] = EmptyGroup]
  /\ UNCHANGED <<now, log, event, sends, read>>

-----------------------------------------------------------------------------
Next ==
  \/ \E w \in Writers :
       \/ \E id \in VoteId, vote \in {"yes", "no"} : NewCounterUpdateGroup(w, id, vote)
       \/ IncrSucceeds(w) \/ IncrFails(w) \/ IncrResponseLost(w)
  \/ \E r \in Readers :
       \/ \E u \in Users, offsets \in HoursOffsetGroups : GetHourlyCounters(r, u, offsets)
       \/ NextCutoff(r) \/ TimeFilter(r) \/ Query(r)
  \/ NextHour
  \/ \E u \in Users, hour \in Hours : Expire(u, hour)

Spec == Init /\ [][Next]_vars

-----------------------------------------------------------------------------
(* Safety                                                                  *)

\* The counted votes that user u gave or received, by attribute, from an hour on.
Votes(u, attr, from) ==
  {n \in 1..Len(log) :
     /\ log[n].counted /\ log[n].hour >= from
     /\ \/ log[n].id[1] = u /\ outgoingAttrName(log[n].vote) = attr
        \/ log[n].id[2] = u /\ incomingAttrName(log[n].vote) = attr}

\* A lifetime row shows every counted vote once, on both sides of it: no
\* resent transaction counts twice, no failed one counts on one side only.
LifetimeCountsVotes ==
  \A u \in Users, attr \in Attr :
    GetLifetimeCounter(u)[attr] = Cardinality(Votes(u, attr, 0))

VotesIn(u, attr, hour) == {n \in Votes(u, attr, hour) : log[n].hour = hour}

\* For TtlHours hours, its own the first, an hourly row shows every counted vote
\* of its hour once, on both sides of it, though a vote may be counted hours
\* after it was cast, and rows of other hours expire in between.
HourlyRowsCountVotes ==
  \A u \in Users, hour \in Hours, attr \in Attr :
    now < hour + TtlHours =>
      counters[<<u, hour>>][attr] = Cardinality(VotesIn(u, attr, hour))

\* A call of GetHourlyCounters during which the hour does not change returns,
\* for every offset short of the TTL, exactly the votes counted since then:
\* neither the filter nor the TTL cuts into the window, and a vote belongs to
\* the hour it was cast in, however late it is counted.
HourlyReadIsExact ==
  \A r \in Readers : read[r].pc = "query" =>
    \A o \in read[r].offsets : o < TtlHours /\ read[r].cutoff[o] = now - o =>
      \A attr \in Attr :
        GroupCount(read[r], o, attr) = Cardinality(Votes(read[r].user, attr, now - o))

\* A longer window never shows fewer votes than a shorter one of the same
\* call, and none shows more than the lifetime row, though the clock may move
\* between the offsets and rows may expire.
WindowsNested ==
  \A r \in Readers : read[r].pc = "query" =>
    \A o \in read[r].offsets, attr \in Attr :
      /\ GroupCount(read[r], o, attr) <= GetLifetimeCounter(read[r].user)[attr]
      /\ \A p \in read[r].offsets :
           o < p => GroupCount(read[r], o, attr) <= GroupCount(read[r], p, attr)

-----------------------------------------------------------------------------
(* A property the code violates (see the README, findings)                 *)

\* The longest offset the service accepts is served, too: the votes since then
\* are still there.
LongestOffsetIsServed ==
  \A r \in Readers : read[r].pc = "query" =>
    \A o \in read[r].offsets : read[r].cutoff[o] = now - o =>
      \A attr \in Attr :
        GroupCount(read[r], o, attr) = Cardinality(Votes(read[r].user, attr, now - o))

=============================================================================
