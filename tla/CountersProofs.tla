---------------------------- MODULE CountersProofs ----------------------------
(***************************************************************************)
(* Proofs about Counters: type correctness, and that the lifetime rows,    *)
(* and the hourly rows until they expire, count every vote exactly once on *)
(* both sides, for any users, writers, readers, hours, votes and resends.  *)
(***************************************************************************)
EXTENDS Counters, FiniteSums

-----------------------------------------------------------------------------
(* Facts about the operators                                               *)

LEMMA HoursType == Hours \subseteq Nat \ {0} /\ FirstHour \in Hours
BY TtlHoursAssumption, LastHourAssumption DEF Hours, FirstHour

LEMMA HourNumber == \A h \in Hours : h \in Nat /\ h > 0
BY HoursType

LEMMA KeyType ==
  ASSUME NEW u \in Users, NEW hour \in Hours
  PROVE  <<u, hour>> \in CounterKey /\ <<u, LifetimeCounterKey>> \in CounterKey
BY DEF CounterKey

LEMMA AttrType ==
  ASSUME NEW vote \in {"yes", "no"}
  PROVE  /\ outgoingAttrName(vote) \in Attr
         /\ incomingAttrName(vote) \in Attr
         /\ outgoingAttrName(vote) # incomingAttrName(vote)
BY DEF outgoingAttrName, incomingAttrName, Attr

\* One more at a key and attribute, and nothing elsewhere.
OneMore(old, new, key, attr) ==
  \A k \in CounterKey, a \in Attr :
    new[k][a] = old[k][a] + (IF k = key /\ a = attr THEN 1 ELSE 0)

LEMMA IncrAddsOne ==
  ASSUME NEW table \in [CounterKey -> CountersGroup], NEW key \in CounterKey, NEW attr \in Attr
  PROVE  /\ Incr(table, key, attr) \in [CounterKey -> CountersGroup]
         /\ OneMore(table, Incr(table, key, attr), key, attr)
<1>1. table[key] \in [Attr -> Nat]
  BY DEF CountersGroup
<1>2. [table[key] EXCEPT ![attr] = @ + 1] \in [Attr -> Nat]
  BY <1>1
<1>3. Incr(table, key, attr) = [table EXCEPT ![key] = [table[key] EXCEPT ![attr] = @ + 1]]
  BY DEF Incr
<1>4. Incr(table, key, attr) \in [CounterKey -> CountersGroup]
  BY <1>2, <1>3 DEF CountersGroup
<1>5. ASSUME NEW k \in CounterKey, NEW a \in Attr
      PROVE  Incr(table, key, attr)[k][a] =
               table[k][a] + (IF k = key /\ a = attr THEN 1 ELSE 0)
  <2>1. table[k] \in [Attr -> Nat] /\ table[k][a] \in Nat
    BY DEF CountersGroup
  <2>2. CASE k = key
    BY <1>1, <1>3, <2>1, <2>2
  <2>3. CASE k # key
    BY <1>3, <2>1, <2>3
  <2> QED
    BY <2>2, <2>3
<1> QED
  BY <1>4, <1>5 DEF OneMore

\* The votes a user gives or receives with one vote, by attribute.
Concerns(id, vote, u, attr) ==
  \/ id[1] = u /\ outgoingAttrName(vote) = attr
  \/ id[2] = u /\ incomingAttrName(vote) = attr

\* The transaction adds one to the lifetime row of both users, in the
\* attribute of their side of the vote, and to no other lifetime row.
LEMMA IncrCountersLifetime ==
  ASSUME NEW table \in [CounterKey -> CountersGroup], NEW id \in VoteId,
         NEW vote \in {"yes", "no"}, NEW hour \in Hours
  PROVE  /\ incrCounters(table, id, vote, hour) \in [CounterKey -> CountersGroup]
         /\ \A u \in Users, a \in Attr :
              incrCounters(table, id, vote, hour)[<<u, LifetimeCounterKey>>][a] =
                table[<<u, LifetimeCounterKey>>][a] + (IF Concerns(id, vote, u, a) THEN 1 ELSE 0)
<1>1. id[1] \in Users /\ id[2] \in Users /\ id[1] # id[2]
  BY DEF VoteId
<1>2. PICK out, inc : out = outgoingAttrName(vote) /\ inc = incomingAttrName(vote)
  OBVIOUS
<1>3. out \in Attr /\ inc \in Attr /\ out # inc
  BY <1>2, AttrType
<1>4. /\ <<id[1], hour>> \in CounterKey /\ <<id[1], LifetimeCounterKey>> \in CounterKey
      /\ <<id[2], hour>> \in CounterKey /\ <<id[2], LifetimeCounterKey>> \in CounterKey
  BY <1>1, KeyType
<1>5. PICK t1 : t1 = Incr(table, <<id[1], hour>>, out)
  OBVIOUS
<1>6. PICK t2 : t2 = Incr(t1, <<id[1], LifetimeCounterKey>>, out)
  OBVIOUS
<1>7. PICK t3 : t3 = Incr(t2, <<id[2], hour>>, inc)
  OBVIOUS
<1>8. PICK t4 : t4 = Incr(t3, <<id[2], LifetimeCounterKey>>, inc)
  OBVIOUS
<1>9. incrCounters(table, id, vote, hour) = t4
  BY <1>2, <1>5, <1>6, <1>7, <1>8 DEF incrCounters
<1>10. OneMore(table, t1, <<id[1], hour>>, out) /\ t1 \in [CounterKey -> CountersGroup]
  BY <1>3, <1>4, <1>5, IncrAddsOne
<1>11. OneMore(t1, t2, <<id[1], LifetimeCounterKey>>, out) /\ t2 \in [CounterKey -> CountersGroup]
  BY <1>3, <1>4, <1>6, <1>10, IncrAddsOne
<1>12. OneMore(t2, t3, <<id[2], hour>>, inc) /\ t3 \in [CounterKey -> CountersGroup]
  BY <1>3, <1>4, <1>7, <1>11, IncrAddsOne
<1>13. OneMore(t3, t4, <<id[2], LifetimeCounterKey>>, inc) /\ t4 \in [CounterKey -> CountersGroup]
  BY <1>3, <1>4, <1>8, <1>12, IncrAddsOne
<1>14. ASSUME NEW u \in Users, NEW a \in Attr
       PROVE  t4[<<u, LifetimeCounterKey>>][a] =
                table[<<u, LifetimeCounterKey>>][a] + (IF Concerns(id, vote, u, a) THEN 1 ELSE 0)
  <2>1. PICK key : key = <<u, LifetimeCounterKey>>
    OBVIOUS
  <2>2. key \in CounterKey
    BY <2>1 DEF CounterKey
  <2>3. table[key][a] \in Nat
    BY <2>2 DEF CountersGroup
  <2>4. key # <<id[1], hour>> /\ key # <<id[2], hour>>
    BY <2>1, HoursType DEF LifetimeCounterKey
  <2>5. /\ key = <<id[1], LifetimeCounterKey>> <=> u = id[1]
        /\ key = <<id[2], LifetimeCounterKey>> <=> u = id[2]
    BY <2>1
  <2>6. Concerns(id, vote, u, a) <=> (id[1] = u /\ a = out) \/ (id[2] = u /\ a = inc)
    BY <1>2 DEF Concerns
  <2>7. t1[key][a] = table[key][a]
    BY <1>10, <2>2, <2>3, <2>4 DEF OneMore
  <2>8. t2[key][a] = table[key][a] + (IF u = id[1] /\ a = out THEN 1 ELSE 0)
    BY <1>11, <2>2, <2>5, <2>7 DEF OneMore
  <2>9. t3[key][a] = t2[key][a]
    BY <1>12, <2>2, <2>3, <2>4, <2>8 DEF OneMore
  <2>10. t4[key][a] = t3[key][a] + (IF u = id[2] /\ a = inc THEN 1 ELSE 0)
    BY <1>13, <2>2, <2>5 DEF OneMore
  <2>11. t4[key][a] = table[key][a] + (IF Concerns(id, vote, u, a) THEN 1 ELSE 0)
    BY <1>1, <1>3, <2>3, <2>6, <2>8, <2>9, <2>10
  <2> QED
    BY <2>1, <2>11
<1> QED
  BY <1>9, <1>13, <1>14

-----------------------------------------------------------------------------
(* Type correctness                                                        *)

\* The votes of the log, and the writers that point into it.
TableOK == counters \in [CounterKey -> CountersGroup]
LogOK == log \in Seq(Vote) /\ Len(log) <= MaxVotes
WritersOK == event \in [Writers -> 0..Len(log)] /\ sends \in [Writers -> 0..(MaxSends - 1)]
ReadersOK == read \in [Readers -> Read \cup {NoRead}]

LEMMA TypeOKParts == TypeOK <=> now \in Hours /\ TableOK /\ LogOK /\ WritersOK /\ ReadersOK
BY DEF TypeOK, TableOK, LogOK, WritersOK, ReadersOK

LEMMA TransactType ==
  ASSUME TypeOK, NEW w \in Writers, event[w] # 0, TransactWriteItems(w)
  PROVE  /\ event[w] \in 1..Len(log)
         /\ log[event[w]] \in Vote
         /\ TableOK' /\ LogOK' /\ Len(log') = Len(log)
<1>1. /\ event[w] \in 1..Len(log)
      /\ log[event[w]] \in Vote
  BY DEF TypeOK
<1>2. TableOK'
  BY <1>1, IncrCountersLifetime DEF TypeOK, TableOK, TransactWriteItems, Vote
<1>3. [log[event[w]] EXCEPT !.counted = TRUE] \in Vote
  BY <1>1 DEF Vote
<1>4. log' = [log EXCEPT ![event[w]] = [log[event[w]] EXCEPT !.counted = TRUE]]
  BY DEF TransactWriteItems
<1>5. LogOK' /\ Len(log') = Len(log)
  BY <1>1, <1>3, <1>4 DEF TypeOK, LogOK
<1> QED
  BY <1>1, <1>2, <1>5

LEMMA WriterType ==
  ASSUME TypeOK, NEW w \in Writers,
         \/ \E id \in VoteId, vote \in {"yes", "no"} : NewCounterUpdateGroup(w, id, vote)
         \/ IncrSucceeds(w) \/ IncrFails(w) \/ IncrResponseLost(w)
  PROVE  TypeOK'
<1>1. ASSUME NEW id \in VoteId, NEW vote \in {"yes", "no"}, NewCounterUpdateGroup(w, id, vote)
      PROVE  TypeOK'
  <2>1. [id |-> id, vote |-> vote, hour |-> now, counted |-> FALSE] \in Vote
    BY DEF TypeOK, Vote
  <2>2. log' \in Seq(Vote) /\ Len(log') = Len(log) + 1 /\ Len(log) \in Nat
    BY <1>1, <2>1 DEF TypeOK, NewCounterUpdateGroup
  <2>3. LogOK' /\ WritersOK'
    BY <1>1, <2>2, MaxVotesAssumption DEF TypeOK, LogOK, WritersOK, NewCounterUpdateGroup
  <2> QED
    BY <1>1, <2>3 DEF TypeOK, LogOK, WritersOK, NewCounterUpdateGroup
<1>2. CASE IncrSucceeds(w)
  BY <1>2, TransactType, CountersMaxSendsAssumption
  DEF IncrSucceeds, EndIncr, TypeOK, TableOK, LogOK
<1>3. CASE IncrFails(w)
  BY <1>3, CountersMaxSendsAssumption DEF IncrFails, EndIncr, TypeOK
<1>4. CASE IncrResponseLost(w)
  <2>1. TableOK' /\ LogOK' /\ Len(log') = Len(log)
    BY <1>4, TransactType DEF IncrResponseLost
  <2>2. /\ event \in [Writers -> 0..Len(log)] /\ 0 \in 0..Len(log)
        /\ sends \in [Writers -> 0..(MaxSends - 1)] /\ 0 \in 0..(MaxSends - 1)
    BY CountersMaxSendsAssumption DEF TypeOK
  <2>3. ASSUME sends[w] + 1 < MaxSends, sends' = [sends EXCEPT ![w] = @ + 1], event' = event
        PROVE  WritersOK'
    <3>1. sends[w] + 1 \in 0..(MaxSends - 1)
      BY <2>2, <2>3, CountersMaxSendsAssumption
    <3> QED
      BY <2>1, <2>2, <2>3, <3>1 DEF WritersOK
  <2>4. ASSUME EndIncr(w) PROVE WritersOK'
    BY <2>1, <2>2, <2>4 DEF EndIncr, WritersOK
  <2>5. WritersOK'
    BY <1>4, <2>3, <2>4 DEF IncrResponseLost
  <2> QED
    BY <1>4, <2>1, <2>5 DEF IncrResponseLost, TypeOK, TableOK, LogOK, WritersOK
<1> QED
  BY <1>1, <1>2, <1>3, <1>4

\* A window starts at an hour of the calendar: offsets reach back no further
\* than the clock has run.
LEMMA OffsetType ==
  ASSUME TypeOK, NEW o \in 1..TtlHours
  PROVE  now - o \in 1..LastHour
BY TtlHoursAssumption, LastHourAssumption DEF TypeOK, Hours, FirstHour

LEMMA BusyReader ==
  ASSUME TypeOK, NEW r \in Readers, read[r].pc # "idle"
  PROVE  read[r] \in Read
<1>1. read[r] \in Read \cup {NoRead}
  BY DEF TypeOK
<1>2. NoRead.pc = "idle"
  BY DEF NoRead
<1> QED
  BY <1>1, <1>2

LEMMA ReaderType ==
  ASSUME TypeOK, NEW r \in Readers,
         \/ \E u \in Users, offsets \in HoursOffsetGroups : GetHourlyCounters(r, u, offsets)
         \/ NextCutoff(r) \/ TimeFilter(r) \/ Query(r)
  PROVE  TypeOK'
<1>1. ASSUME NEW u \in Users, NEW offsets \in HoursOffsetGroups, GetHourlyCounters(r, u, offsets)
      PROVE  ReadersOK' /\ UNCHANGED <<now, counters, log, event, sends>>
  <2>1. PICK none : none = <<>>
    OBVIOUS
  <2>2. none \in [{} -> 1..LastHour] /\ DOMAIN none = {}
    BY <2>1
  <2>3. none \in Cutoffs(1..TtlHours)
    BY <2>2 DEF Cutoffs
  <2>4. PICK rd : rd = [pc |-> "cutoffs", user |-> u, offsets |-> offsets, cutoff |-> none,
                        filter |-> 0, began |-> now]
    OBVIOUS
  <2>5. now \in Hours /\ 0 \in 0..LastHour
    BY LastHourAssumption DEF TypeOK
  <2>6. rd \in Read
    BY <2>2, <2>3, <2>4, <2>5 DEF Read
  <2>7. read' = [read EXCEPT ![r] = rd]
    BY <1>1, <2>1, <2>4 DEF GetHourlyCounters
  <2> QED
    BY <1>1, <2>6, <2>7 DEF GetHourlyCounters, TypeOK, ReadersOK
<1>2. CASE NextCutoff(r)
  <2>1. read[r] \in Read
    BY <1>2, BusyReader DEF NextCutoff
  <2>2. PICK o \in read[r].offsets \ DOMAIN read[r].cutoff :
          read' = [read EXCEPT
                    ![r].cutoff = [p \in DOMAIN @ \cup {o} |-> IF p = o THEN now - o ELSE @[p]],
                    ![r].pc = IF read[r].offsets \ DOMAIN read[r].cutoff = {o}
                              THEN "filter" ELSE "cutoffs"]
    BY <1>2 DEF NextCutoff
  <2> DEFINE old == read[r].cutoff
             new == [p \in DOMAIN old \cup {o} |-> IF p = o THEN now - o ELSE old[p]]
  <2>3. read[r].offsets \in SUBSET (1..TtlHours) /\ o \in 1..TtlHours
    BY <2>1, <2>2 DEF Read, HoursOffsetGroups
  <2>4. PICK O \in SUBSET (1..TtlHours) : old \in [O -> 1..LastHour]
    BY <2>1 DEF Read, Cutoffs
  <2>5. new \in [O \cup {o} -> 1..LastHour]
    BY <2>3, <2>4, OffsetType
  <2>6. new \in Cutoffs(1..TtlHours)
    <3>1. PICK P \in SUBSET (1..TtlHours) : P = O \cup {o}
      BY <2>3, <2>4
    <3>2. new \in [P -> 1..LastHour]
      BY <2>5, <3>1
    <3> HIDE DEF new
    <3> QED
      BY <3>2 DEF Cutoffs
  <2>7. DOMAIN new = DOMAIN old \cup {o} /\ DOMAIN old \subseteq read[r].offsets
    BY <2>1 DEF Read
  <2> HIDE DEF new
  <2>8. [read[r] EXCEPT !.cutoff = new,
                        !.pc = IF read[r].offsets \ DOMAIN old = {o} THEN "filter" ELSE "cutoffs"]
        \in Read
    BY <2>1, <2>2, <2>6, <2>7 DEF Read
  <2>9. ReadersOK'
    BY <2>2, <2>8 DEF TypeOK, ReadersOK, new
  <2> QED
    BY <1>2, <2>9 DEF NextCutoff, TypeOK, ReadersOK
<1>3. CASE TimeFilter(r)
  <2>1. read[r] \in Read
    BY <1>3, BusyReader DEF TimeFilter
  <2>2. PICK o \in read[r].offsets :
          read' = [read EXCEPT ![r].filter = now - o, ![r].pc = "query"]
    BY <1>3 DEF TimeFilter
  <2>3. now - o \in 0..LastHour
    BY <2>1, <2>2, OffsetType DEF Read, HoursOffsetGroups
  <2>4. [read[r] EXCEPT !.filter = now - o, !.pc = "query"] \in Read
    BY <1>3, <2>1, <2>3 DEF Read, TimeFilter
  <2> QED
    BY <1>3, <2>2, <2>4 DEF TimeFilter, TypeOK
<1>4. CASE Query(r)
  BY <1>4 DEF Query, TypeOK
<1> QED
  BY <1>1, <1>2, <1>3, <1>4 DEF TypeOK, ReadersOK

LEMMA InitType == Init => TypeOK
<1> SUFFICES ASSUME Init PROVE TypeOK
  OBVIOUS
<1>1. counters \in [CounterKey -> CountersGroup]
  BY DEF Init, CountersGroup, EmptyGroup
<1>2. log \in Seq(Vote) /\ Len(log) = 0
  BY DEF Init
<1> QED
  BY <1>1, <1>2, HoursType, MaxVotesAssumption, CountersMaxSendsAssumption DEF Init, TypeOK

LEMMA NextType == TypeOK /\ [Next]_vars => TypeOK'
<1> SUFFICES ASSUME TypeOK, [Next]_vars PROVE TypeOK'
  OBVIOUS
<1>1. CASE UNCHANGED vars
  BY <1>1 DEF vars, TypeOK
<1>2. CASE NextHour
  BY <1>2, TtlHoursAssumption, LastHourAssumption DEF NextHour, TypeOK, Hours, FirstHour
<1>3. ASSUME NEW u \in Users, NEW hour \in Hours, Expire(u, hour) PROVE TypeOK'
  <2>1. EmptyGroup \in CountersGroup
    BY DEF EmptyGroup, CountersGroup
  <2> QED
    BY <1>3, <2>1 DEF Expire, TypeOK
<1> QED
  BY <1>1, <1>2, <1>3, WriterType, ReaderType DEF Next

\* Type correctness for any users, writers, readers and bounds.
THEOREM CountersTypeCorrect == Spec => []TypeOK
BY InitType, NextType, PTL DEF Spec

-----------------------------------------------------------------------------
(* Every vote counts once on both sides                                    *)

\* With the vote at one index of the log counted on top of those counted
\* before, the votes of a user grow by that index when it concerns the user.
LEMMA VotesGrow ==
  ASSUME TypeOK, NEW n \in 1..Len(log), ~log[n].counted,
         log' = [log EXCEPT ![n].counted = TRUE],
         NEW u \in Users, NEW attr \in Attr
  PROVE  Votes(u, attr, 0)' = IF Concerns(log[n].id, log[n].vote, u, attr)
                              THEN Votes(u, attr, 0) \cup {n} ELSE Votes(u, attr, 0)
<1>1. log \in Seq(Vote) /\ log[n] \in Vote
  BY DEF TypeOK
<1>2. PICK e : e = [log[n] EXCEPT !.counted = TRUE]
  OBVIOUS
<1>3. /\ e.id = log[n].id /\ e.vote = log[n].vote /\ e.hour = log[n].hour
      /\ e.counted
  BY <1>1, <1>2 DEF Vote
<1>4. log' = [log EXCEPT ![n] = e]
  BY <1>2
<1>5. Len(log') = Len(log) /\ log'[n] = e /\ \A k \in 1..Len(log) : k # n => log'[k] = log[k]
  BY <1>1, <1>4
<1>6. log[n].hour >= 0
  BY <1>1, HoursType DEF Vote
<1>7. \A k \in 1..Len(log) :
        k \in Votes(u, attr, 0)' <=>
          IF k = n THEN Concerns(log[n].id, log[n].vote, u, attr) ELSE k \in Votes(u, attr, 0)
  BY <1>3, <1>5, <1>6 DEF Votes, Concerns
<1>8. Votes(u, attr, 0)' \subseteq 1..Len(log) /\ Votes(u, attr, 0) \subseteq 1..Len(log)
  BY <1>5 DEF Votes
<1>9. n \notin Votes(u, attr, 0)
  BY DEF Votes
<1> QED
  BY <1>7, <1>8, <1>9

LEMMA VotesFinite ==
  ASSUME TypeOK, NEW u, NEW attr
  PROVE  IsFiniteSet(Votes(u, attr, 0))
<1>1. Len(log) \in Nat
  BY DEF TypeOK
<1>2. IsFiniteSet(1..Len(log))
  BY <1>1, FS_Interval
<1>3. Votes(u, attr, 0) \subseteq 1..Len(log)
  BY DEF Votes
<1> QED
  BY <1>2, <1>3, FS_Subset

\* The counts stay right under the transaction, first send or not.
LEMMA TransactCounts ==
  ASSUME TypeOK, LifetimeCountsVotes, NEW w \in Writers, event[w] # 0, TransactWriteItems(w)
  PROVE  LifetimeCountsVotes'
<1>1. event[w] \in 1..Len(log) /\ log[event[w]] \in Vote /\ log \in Seq(Vote)
  BY TransactType DEF TypeOK
<1>2. PICK n \in 1..Len(log) : n = event[w]
  BY <1>1
<1>3. CASE log[n].counted
  <2>1. counters' = counters
    BY <1>2, <1>3 DEF TransactWriteItems
  <2>2. [log[n] EXCEPT !.counted = TRUE] = log[n]
    BY <1>1, <1>2, <1>3 DEF Vote
  <2>3. log' = [log EXCEPT ![n] = log[n]]
    BY <1>2, <2>2 DEF TransactWriteItems
  <2>4. log' = log
    BY <1>1, <2>3
  <2> QED
    BY <2>1, <2>4 DEF LifetimeCountsVotes, GetLifetimeCounter, Votes
<1>4. CASE ~log[n].counted
  <2>1. /\ log[n].id \in VoteId /\ log[n].vote \in {"yes", "no"} /\ log[n].hour \in Hours
        /\ counters \in [CounterKey -> CountersGroup]
    BY <1>1, <1>2 DEF Vote, TypeOK
  <2>2. counters' = incrCounters(counters, log[n].id, log[n].vote, log[n].hour)
    BY <1>2, <1>4 DEF TransactWriteItems
  <2>3. log' = [log EXCEPT ![n].counted = TRUE]
    BY <1>2 DEF TransactWriteItems
  <2>4. ASSUME NEW u \in Users, NEW attr \in Attr
        PROVE  (GetLifetimeCounter(u)[attr])' = Cardinality(Votes(u, attr, 0)')
    <3>1. (GetLifetimeCounter(u)[attr])' =
            GetLifetimeCounter(u)[attr] +
              (IF Concerns(log[n].id, log[n].vote, u, attr) THEN 1 ELSE 0)
      BY <2>1, <2>2, IncrCountersLifetime DEF GetLifetimeCounter
    <3>2. GetLifetimeCounter(u)[attr] = Cardinality(Votes(u, attr, 0))
      BY DEF LifetimeCountsVotes
    <3>3. IsFiniteSet(Votes(u, attr, 0))
      BY VotesFinite
    <3>4. n \notin Votes(u, attr, 0)
      BY <1>4 DEF Votes
    <3>5. Cardinality(Votes(u, attr, 0) \cup {n}) = Cardinality(Votes(u, attr, 0)) + 1
      BY <3>3, <3>4, FS_AddElement
    <3>6. Cardinality(Votes(u, attr, 0)) \in Nat
      BY <3>3, FS_CardinalityType
    <3>7. Votes(u, attr, 0)' = IF Concerns(log[n].id, log[n].vote, u, attr)
                               THEN Votes(u, attr, 0) \cup {n} ELSE Votes(u, attr, 0)
      BY <1>4, <2>3, VotesGrow
    <3>8. CASE Concerns(log[n].id, log[n].vote, u, attr)
      BY <3>1, <3>2, <3>5, <3>7, <3>8
    <3>9. CASE ~Concerns(log[n].id, log[n].vote, u, attr)
      BY <3>1, <3>2, <3>6, <3>7, <3>9
    <3> QED
      BY <3>8, <3>9
  <2> QED
    BY <2>4 DEF LifetimeCountsVotes
<1> QED
  BY <1>3, <1>4

\* A new vote is not counted yet.
LEMMA NewVoteCounts ==
  ASSUME TypeOK, LifetimeCountsVotes, NEW w \in Writers, NEW id \in VoteId,
         NEW vote \in {"yes", "no"}, NewCounterUpdateGroup(w, id, vote)
  PROVE  LifetimeCountsVotes'
<1>1. PICK e : e = [id |-> id, vote |-> vote, hour |-> now, counted |-> FALSE]
  OBVIOUS
<1>2. log \in Seq(Vote) /\ e \in Vote /\ ~e.counted
  BY <1>1 DEF TypeOK, Vote
<1>3. log' = Append(log, e)
  BY <1>1 DEF NewCounterUpdateGroup
<1>4. /\ Len(log') = Len(log) + 1 /\ Len(log) \in Nat
      /\ log'[Len(log) + 1] = e /\ \A k \in 1..Len(log) : log'[k] = log[k]
  BY <1>2, <1>3
<1>5. ASSUME NEW u \in Users, NEW attr \in Attr
      PROVE  Votes(u, attr, 0)' = Votes(u, attr, 0)
  BY <1>2, <1>4 DEF Votes
<1> QED
  BY <1>5 DEF NewCounterUpdateGroup, LifetimeCountsVotes, GetLifetimeCounter

\* Only hourly rows expire.
LEMMA ExpireCounts ==
  ASSUME TypeOK, LifetimeCountsVotes, NEW u \in Users, NEW hour \in Hours, Expire(u, hour)
  PROVE  LifetimeCountsVotes'
<1>1. ASSUME NEW v \in Users PROVE GetLifetimeCounter(v)' = GetLifetimeCounter(v)
  <2>1. <<v, LifetimeCounterKey>> # <<u, hour>> /\ <<v, LifetimeCounterKey>> \in CounterKey
    BY HoursType, KeyType DEF LifetimeCounterKey
  <2> QED
    BY <2>1 DEF Expire, GetLifetimeCounter, TypeOK
<1>2. log' = log
  BY DEF Expire
<1> QED
  BY <1>1, <1>2 DEF LifetimeCountsVotes, Votes

\* For any number of users, writers, votes and resends, a lifetime row shows
\* every counted vote exactly once, on both sides of it.
THEOREM LifetimeCorrect == Spec => []LifetimeCountsVotes
<1>1. Init => LifetimeCountsVotes
  <2> SUFFICES ASSUME Init, NEW u \in Users, NEW attr \in Attr
               PROVE  GetLifetimeCounter(u)[attr] = Cardinality(Votes(u, attr, 0))
    BY DEF LifetimeCountsVotes
  <2>1. GetLifetimeCounter(u)[attr] = 0
    BY DEF Init, GetLifetimeCounter, CounterKey, EmptyGroup
  <2>2. Votes(u, attr, 0) = {}
    BY DEF Init, Votes
  <2> QED
    BY <2>1, <2>2, FS_EmptySet
<1>2. TypeOK /\ LifetimeCountsVotes /\ [Next]_vars => LifetimeCountsVotes'
  <2> SUFFICES ASSUME TypeOK, LifetimeCountsVotes, [Next]_vars PROVE LifetimeCountsVotes'
    OBVIOUS
  <2>1. ASSUME UNCHANGED <<counters, log>> PROVE LifetimeCountsVotes'
    BY <2>1 DEF LifetimeCountsVotes, GetLifetimeCounter, Votes
  <2>2. ASSUME NEW w \in Writers, IncrSucceeds(w) \/ IncrResponseLost(w)
        PROVE  LifetimeCountsVotes'
    BY <2>2, TransactCounts DEF IncrSucceeds, IncrResponseLost
  <2>3. ASSUME NEW w \in Writers, IncrFails(w) PROVE LifetimeCountsVotes'
    BY <2>1, <2>3 DEF IncrFails
  <2>4. ASSUME NEW r \in Readers,
               \/ \E u \in Users, offsets \in HoursOffsetGroups : GetHourlyCounters(r, u, offsets)
               \/ NextCutoff(r) \/ TimeFilter(r) \/ Query(r)
        PROVE  LifetimeCountsVotes'
    BY <2>1, <2>4 DEF GetHourlyCounters, NextCutoff, TimeFilter, Query
  <2>5. CASE NextHour
    BY <2>1, <2>5 DEF NextHour
  <2>6. CASE UNCHANGED vars
    BY <2>1, <2>6 DEF vars
  <2> QED
    BY <2>2, <2>3, <2>4, <2>5, <2>6, NewVoteCounts, ExpireCounts DEF Next
<1> QED
  BY <1>1, <1>2, CountersTypeCorrect, PTL DEF Spec

-----------------------------------------------------------------------------
(* The hourly rows, until they expire                                      *)

\* The transaction adds one to the row of its hour of both users, in the
\* attribute of their side of the vote, and to no other hourly row.
LEMMA IncrCountersHourly ==
  ASSUME NEW table \in [CounterKey -> CountersGroup], NEW id \in VoteId,
         NEW vote \in {"yes", "no"}, NEW hour \in Hours,
         NEW u \in Users, NEW h \in Hours, NEW a \in Attr
  PROVE  incrCounters(table, id, vote, hour)[<<u, h>>][a] =
           table[<<u, h>>][a] + (IF h = hour /\ Concerns(id, vote, u, a) THEN 1 ELSE 0)
<1>1. id[1] \in Users /\ id[2] \in Users /\ id[1] # id[2]
  BY DEF VoteId
<1>2. PICK out, inc : out = outgoingAttrName(vote) /\ inc = incomingAttrName(vote)
  OBVIOUS
<1>3. out \in Attr /\ inc \in Attr /\ out # inc
  BY <1>2, AttrType
<1>4. /\ <<id[1], hour>> \in CounterKey /\ <<id[1], LifetimeCounterKey>> \in CounterKey
      /\ <<id[2], hour>> \in CounterKey /\ <<id[2], LifetimeCounterKey>> \in CounterKey
  BY <1>1, KeyType
<1>5. PICK t1 : t1 = Incr(table, <<id[1], hour>>, out)
  OBVIOUS
<1>6. PICK t2 : t2 = Incr(t1, <<id[1], LifetimeCounterKey>>, out)
  OBVIOUS
<1>7. PICK t3 : t3 = Incr(t2, <<id[2], hour>>, inc)
  OBVIOUS
<1>8. PICK t4 : t4 = Incr(t3, <<id[2], LifetimeCounterKey>>, inc)
  OBVIOUS
<1>9. incrCounters(table, id, vote, hour) = t4
  BY <1>2, <1>5, <1>6, <1>7, <1>8 DEF incrCounters
<1>10. OneMore(table, t1, <<id[1], hour>>, out) /\ t1 \in [CounterKey -> CountersGroup]
  BY <1>3, <1>4, <1>5, IncrAddsOne
<1>11. OneMore(t1, t2, <<id[1], LifetimeCounterKey>>, out) /\ t2 \in [CounterKey -> CountersGroup]
  BY <1>3, <1>4, <1>6, <1>10, IncrAddsOne
<1>12. OneMore(t2, t3, <<id[2], hour>>, inc) /\ t3 \in [CounterKey -> CountersGroup]
  BY <1>3, <1>4, <1>7, <1>11, IncrAddsOne
<1>13. OneMore(t3, t4, <<id[2], LifetimeCounterKey>>, inc) /\ t4 \in [CounterKey -> CountersGroup]
  BY <1>3, <1>4, <1>8, <1>12, IncrAddsOne
<1>14. PICK key : key = <<u, h>>
  OBVIOUS
<1>15. /\ key \in CounterKey
       /\ key # <<id[1], LifetimeCounterKey>> /\ key # <<id[2], LifetimeCounterKey>>
       /\ key = <<id[1], hour>> <=> u = id[1] /\ h = hour
       /\ key = <<id[2], hour>> <=> u = id[2] /\ h = hour
  BY <1>14, HoursType DEF LifetimeCounterKey, CounterKey
<1>16. table[key][a] \in Nat
  BY <1>15 DEF CountersGroup
<1>17. Concerns(id, vote, u, a) <=> (id[1] = u /\ a = out) \/ (id[2] = u /\ a = inc)
  BY <1>2 DEF Concerns
<1>18. t1[key][a] = table[key][a] + (IF u = id[1] /\ h = hour /\ a = out THEN 1 ELSE 0)
  BY <1>10, <1>15 DEF OneMore
<1>19. t2[key][a] = t1[key][a]
  BY <1>11, <1>15, <1>16, <1>18 DEF OneMore
<1>20. t3[key][a] = t2[key][a] + (IF u = id[2] /\ h = hour /\ a = inc THEN 1 ELSE 0)
  BY <1>12, <1>15 DEF OneMore
<1>21. t4[key][a] = t3[key][a]
  BY <1>13, <1>15, <1>16, <1>18, <1>19, <1>20 DEF OneMore
<1>22. t4[key][a] = table[key][a] + (IF h = hour /\ Concerns(id, vote, u, a) THEN 1 ELSE 0)
  BY <1>1, <1>3, <1>16, <1>17, <1>18, <1>19, <1>20, <1>21
<1> QED
  BY <1>9, <1>14, <1>22

LEMMA VotesInFinite ==
  ASSUME TypeOK, NEW u, NEW attr, NEW hour
  PROVE  IsFiniteSet(VotesIn(u, attr, hour))
<1>1. Len(log) \in Nat
  BY DEF TypeOK
<1>2. IsFiniteSet(1..Len(log))
  BY <1>1, FS_Interval
<1>3. VotesIn(u, attr, hour) \subseteq 1..Len(log)
  BY DEF Votes, VotesIn
<1> QED
  BY <1>2, <1>3, FS_Subset

\* With one more vote counted, its users have one more vote in its hour.
LEMMA VotesInGrow ==
  ASSUME TypeOK, NEW n \in 1..Len(log), ~log[n].counted,
         log' = [log EXCEPT ![n].counted = TRUE],
         NEW u \in Users, NEW attr \in Attr, NEW hour \in Hours
  PROVE  VotesIn(u, attr, hour)' =
           IF hour = log[n].hour /\ Concerns(log[n].id, log[n].vote, u, attr)
           THEN VotesIn(u, attr, hour) \cup {n} ELSE VotesIn(u, attr, hour)
<1>1. log \in Seq(Vote) /\ log[n] \in Vote
  BY DEF TypeOK
<1>2. PICK e : e = [log[n] EXCEPT !.counted = TRUE]
  OBVIOUS
<1>3. /\ e.id = log[n].id /\ e.vote = log[n].vote /\ e.hour = log[n].hour
      /\ e.counted
  BY <1>1, <1>2 DEF Vote
<1>4. log' = [log EXCEPT ![n] = e]
  BY <1>2
<1>5. Len(log') = Len(log) /\ log'[n] = e /\ \A k \in 1..Len(log) : k # n => log'[k] = log[k]
  BY <1>1, <1>4
<1>6. hour \in Nat
  BY HoursType
<1>7. \A k \in 1..Len(log) :
        k \in VotesIn(u, attr, hour)' <=>
          IF k = n THEN hour = log[n].hour /\ Concerns(log[n].id, log[n].vote, u, attr)
          ELSE k \in VotesIn(u, attr, hour)
  BY <1>3, <1>5, <1>6 DEF Votes, VotesIn, Concerns
<1>8. VotesIn(u, attr, hour)' \subseteq 1..Len(log) /\ VotesIn(u, attr, hour) \subseteq 1..Len(log)
  BY <1>5 DEF Votes, VotesIn
<1>9. n \notin VotesIn(u, attr, hour)
  BY DEF Votes, VotesIn
<1> QED
  BY <1>7, <1>8, <1>9

\* The transaction raises a row and the number of counted votes of its hour by
\* the same amount, one or nothing.
LEMMA TransactRaisesBoth ==
  ASSUME TypeOK, NEW w \in Writers, event[w] # 0, TransactWriteItems(w),
         NEW u \in Users, NEW hour \in Hours, NEW attr \in Attr
  PROVE  \E more \in {0, 1} :
           /\ counters'[<<u, hour>>][attr] = counters[<<u, hour>>][attr] + more
           /\ Cardinality(VotesIn(u, attr, hour)') = Cardinality(VotesIn(u, attr, hour)) + more
<1>1. event[w] \in 1..Len(log) /\ log[event[w]] \in Vote /\ log \in Seq(Vote)
  BY TransactType DEF TypeOK
<1>2. PICK n \in 1..Len(log) : n = event[w]
  BY <1>1
<1>3. IsFiniteSet(VotesIn(u, attr, hour)) /\ Cardinality(VotesIn(u, attr, hour)) \in Nat
  BY VotesInFinite, FS_CardinalityType
<1>4. counters \in [CounterKey -> CountersGroup] /\ counters[<<u, hour>>][attr] \in Nat
  BY KeyType DEF TypeOK, CountersGroup
<1>5. CASE log[n].counted
  <2>1. counters' = counters
    BY <1>2, <1>5 DEF TransactWriteItems
  <2>2. [log[n] EXCEPT !.counted = TRUE] = log[n]
    BY <1>1, <1>2, <1>5 DEF Vote
  <2>3. log' = [log EXCEPT ![n] = log[n]]
    BY <1>2, <2>2 DEF TransactWriteItems
  <2>4. log' = log
    BY <1>1, <2>3
  <2>5. VotesIn(u, attr, hour)' = VotesIn(u, attr, hour)
    BY <2>4 DEF Votes, VotesIn
  <2>6. /\ counters'[<<u, hour>>][attr] = counters[<<u, hour>>][attr] + 0
        /\ Cardinality(VotesIn(u, attr, hour)') = Cardinality(VotesIn(u, attr, hour)) + 0
    BY <1>3, <1>4, <2>1, <2>5
  <2> QED
    BY <2>6
<1>6. CASE ~log[n].counted
  <2>1. log[n].id \in VoteId /\ log[n].vote \in {"yes", "no"} /\ log[n].hour \in Hours
    BY <1>1, <1>2 DEF Vote
  <2>2. counters' = incrCounters(counters, log[n].id, log[n].vote, log[n].hour)
    BY <1>2, <1>6 DEF TransactWriteItems
  <2>3. log' = [log EXCEPT ![n].counted = TRUE]
    BY <1>2 DEF TransactWriteItems
  <2>4. PICK one : one <=> hour = log[n].hour /\ Concerns(log[n].id, log[n].vote, u, attr)
    OBVIOUS
  <2>5. counters'[<<u, hour>>][attr] = counters[<<u, hour>>][attr] + (IF one THEN 1 ELSE 0)
    BY <1>4, <2>1, <2>2, <2>4, IncrCountersHourly
  <2>6. n \notin VotesIn(u, attr, hour)
    BY <1>6 DEF Votes, VotesIn
  <2>7. Cardinality(VotesIn(u, attr, hour) \cup {n}) = Cardinality(VotesIn(u, attr, hour)) + 1
    BY <1>3, <2>6, FS_AddElement
  <2>8. VotesIn(u, attr, hour)' =
          IF one THEN VotesIn(u, attr, hour) \cup {n} ELSE VotesIn(u, attr, hour)
    BY <1>6, <2>3, <2>4, VotesInGrow
  <2>9. CASE one
    BY <2>5, <2>7, <2>8, <2>9
  <2>10. CASE ~one
    BY <1>3, <2>5, <2>8, <2>10
  <2> QED
    BY <2>9, <2>10
<1> QED
  BY <1>5, <1>6

LEMMA TransactCountsHour ==
  ASSUME TypeOK, HourlyRowsCountVotes, NEW w \in Writers, event[w] # 0, TransactWriteItems(w),
         now' = now
  PROVE  HourlyRowsCountVotes'
<1>1. ASSUME NEW u \in Users, NEW hour \in Hours, NEW attr \in Attr, now < hour + TtlHours
      PROVE  counters'[<<u, hour>>][attr] = Cardinality(VotesIn(u, attr, hour)')
  BY <1>1, TransactRaisesBoth DEF HourlyRowsCountVotes
<1> QED
  BY <1>1 DEF HourlyRowsCountVotes

\* A new vote of the log is not counted yet.
LEMMA NewVoteIsNotCounted ==
  ASSUME TypeOK, NEW w \in Writers, NEW id \in VoteId, NEW vote \in {"yes", "no"},
         NewCounterUpdateGroup(w, id, vote)
  PROVE  \A u \in Users, attr \in Attr, hour \in Hours :
           VotesIn(u, attr, hour)' = VotesIn(u, attr, hour)
<1>1. PICK e : e = [id |-> id, vote |-> vote, hour |-> now, counted |-> FALSE]
  OBVIOUS
<1>2. log \in Seq(Vote) /\ e \in Vote /\ ~e.counted
  BY <1>1 DEF TypeOK, Vote
<1>3. log' = Append(log, e)
  BY <1>1 DEF NewCounterUpdateGroup
<1>4. /\ Len(log') = Len(log) + 1 /\ Len(log) \in Nat
      /\ log'[Len(log) + 1] = e /\ \A k \in 1..Len(log) : log'[k] = log[k]
  BY <1>2, <1>3
<1> QED
  BY <1>2, <1>4 DEF Votes, VotesIn

\* A row expires only when the property asks nothing of it any more.
LEMMA ExpireCountsHour ==
  ASSUME TypeOK, HourlyRowsCountVotes, NEW u \in Users, NEW hour \in Hours, Expire(u, hour)
  PROVE  HourlyRowsCountVotes'
<1>1. now' = now /\ log' = log /\ RowTtl(hour) <= now
  BY DEF Expire
<1>2. ASSUME NEW v \in Users, NEW h \in Hours, now < h + TtlHours
      PROVE  counters'[<<v, h>>] = counters[<<v, h>>]
  <2>1. now \in Int /\ hour + TtlHours \in Int
    BY HoursType, TtlHoursAssumption DEF TypeOK
  <2>2. h # hour
    BY <1>1, <1>2, <2>1 DEF RowTtl
  <2>3. <<v, h>> # <<u, hour>> /\ <<v, h>> \in CounterKey
    BY <2>2, KeyType
  <2> QED
    BY <2>3 DEF Expire, TypeOK
<1> QED
  BY <1>1, <1>2 DEF HourlyRowsCountVotes, Votes, VotesIn

\* For any number of users, writers, votes and hours, an hourly row is right
\* until it expires, however late its votes were counted.
THEOREM HourlyRowsCorrect == Spec => []HourlyRowsCountVotes
<1>1. Init => HourlyRowsCountVotes
  <2> SUFFICES ASSUME Init, NEW u \in Users, NEW hour \in Hours, NEW attr \in Attr
               PROVE  counters[<<u, hour>>][attr] = Cardinality(VotesIn(u, attr, hour))
    BY DEF HourlyRowsCountVotes
  <2>1. counters[<<u, hour>>][attr] = 0
    BY KeyType DEF Init, EmptyGroup
  <2>2. VotesIn(u, attr, hour) = {}
    BY DEF Init, Votes, VotesIn
  <2> QED
    BY <2>1, <2>2, FS_EmptySet
<1>2. TypeOK /\ HourlyRowsCountVotes /\ [Next]_vars => HourlyRowsCountVotes'
  <2> SUFFICES ASSUME TypeOK, HourlyRowsCountVotes, [Next]_vars PROVE HourlyRowsCountVotes'
    OBVIOUS
  <2>1. ASSUME UNCHANGED <<counters, log, now>> PROVE HourlyRowsCountVotes'
    BY <2>1 DEF HourlyRowsCountVotes, Votes, VotesIn
  <2>2. ASSUME NEW w \in Writers, IncrSucceeds(w) \/ IncrResponseLost(w)
        PROVE  HourlyRowsCountVotes'
    BY <2>2, TransactCountsHour DEF IncrSucceeds, IncrResponseLost
  <2>3. ASSUME NEW w \in Writers, IncrFails(w) PROVE HourlyRowsCountVotes'
    BY <2>1, <2>3 DEF IncrFails
  <2>4. ASSUME NEW r \in Readers,
               \/ \E u \in Users, offsets \in HoursOffsetGroups : GetHourlyCounters(r, u, offsets)
               \/ NextCutoff(r) \/ TimeFilter(r) \/ Query(r)
        PROVE  HourlyRowsCountVotes'
    BY <2>1, <2>4 DEF GetHourlyCounters, NextCutoff, TimeFilter, Query
  <2>5. CASE NextHour
    <3>1. /\ now \in Int /\ now' = now + 1
          /\ \A hour \in Hours : hour + TtlHours \in Int
      BY <2>5, HoursType, TtlHoursAssumption DEF NextHour, TypeOK
    <3>2. \A hour \in Hours : now' < hour + TtlHours => now < hour + TtlHours
      BY <3>1
    <3> QED
      BY <2>5, <3>2 DEF NextHour, HourlyRowsCountVotes, Votes, VotesIn
  <2>6. CASE UNCHANGED vars
    BY <2>1, <2>6 DEF vars
  <2>7. ASSUME NEW w \in Writers, NEW id \in VoteId, NEW vote \in {"yes", "no"},
               NewCounterUpdateGroup(w, id, vote)
        PROVE  HourlyRowsCountVotes'
    BY <2>7, NewVoteIsNotCounted DEF NewCounterUpdateGroup, HourlyRowsCountVotes
  <2> QED
    BY <2>2, <2>3, <2>4, <2>5, <2>6, <2>7, ExpireCountsHour DEF Next
<1> QED
  BY <1>1, <1>2, CountersTypeCorrect, PTL DEF Spec

-----------------------------------------------------------------------------
(* Sums over hours                                                         *)

\* The rows of a user, one attribute of them, by hour.
RowsOf(u, attr) == [h \in Hours |-> counters[<<u, h>>][attr]]

LEMMA HoursFinite == IsFiniteSet(Hours) /\ \A S \in SUBSET Hours : IsFiniteSet(S)
<1>1. IsFiniteSet(Hours)
  BY FS_Interval, TtlHoursAssumption, LastHourAssumption DEF Hours, FirstHour
<1> QED
  BY <1>1, FS_Subset

\* The hours a call sums over for one offset.
Window(rd, o) == {h \in Hours : h >= rd.filter /\ h >= rd.cutoff[o]}

\* The sum of an answer is the sum of the function of rows.
LEMMA GroupCountIsSum ==
  ASSUME NEW rd, NEW o, NEW attr
  PROVE  GroupCount(rd, o, attr) = SumOver(RowsOf(rd.user, attr), Window(rd, o))
<1> DEFINE S == Window(rd, o)
           f == RowsOf(rd.user, attr)
           Eq(g) == g = [s \in SUBSET S |->
                           IF s = {} THEN 0
                           ELSE counters[<<rd.user, Pick(s)>>][attr] + g[s \ {Pick(s)}]]
<1>1. GroupCount(rd, o, attr) = (CHOOSE g : Eq(g))[S]
  BY DEF GroupCount, Window, MapThenSumSet, MapThenFoldSet, Pick
<1>2. IsFiniteSet(S) /\ S \subseteq Hours
  BY HoursFinite DEF Window
<1>3. \A s \in SUBSET S : s # {} => f[Pick(s)] = counters[<<rd.user, Pick(s)>>][attr]
  <2>1. \A s \in SUBSET S : s # {} => Pick(s) \in Hours
    BY <1>2, PickType
  <2> QED
    BY <2>1 DEF RowsOf
<1> HIDE DEF S, f
<1>4. ASSUME NEW g PROVE Eq(g) <=> IsSum(f, S, g)
  <2>1. [s \in SUBSET S |-> IF s = {} THEN 0
                            ELSE counters[<<rd.user, Pick(s)>>][attr] + g[s \ {Pick(s)}]]
          = [s \in SUBSET S |-> IF s = {} THEN 0 ELSE f[Pick(s)] + g[s \ {Pick(s)}]]
    BY <1>3
  <2> QED
    BY <2>1 DEF IsSum
<1>5. \E g : Eq(g)
  <2>1. \E g : IsSum(f, S, g)
    BY <1>2, SumIs
  <2> HIDE DEF Eq
  <2> QED
    BY <1>4, <2>1
<1> HIDE DEF Eq
<1>6. PICK c : c = CHOOSE g : Eq(g)
  OBVIOUS
<1>7. Eq(c)
  BY <1>5, <1>6
<1>8. c[S] = SumOver(f, S)
  BY <1>2, <1>4, <1>7, SumIs
<1> QED
  BY <1>1, <1>6, <1>8 DEF S, f

\* The counted votes of a user by hour, whatever became of the rows.
CountedByHour(u, attr) == [h \in Hours |-> Cardinality(VotesIn(u, attr, h))]

LEMMA SumOfHours ==
  ASSUME TypeOK, NEW u, NEW attr, NEW S, S \subseteq Hours
  PROVE  SumOver(CountedByHour(u, attr), S) =
           Cardinality({n \in Votes(u, attr, 0) : log[n].hour \in S})
<1>1. PICK key : key = [n \in 1..Len(log) |-> log[n].hour]
  OBVIOUS
<1>2. PICK B : B = Votes(u, attr, 0)
  OBVIOUS
<1>3. B \subseteq 1..Len(log) /\ \A n \in B : key[n] = log[n].hour
  BY <1>1, <1>2 DEF Votes
<1>4. IsFiniteSet(B)
  BY <1>2, VotesFinite
<1>5. IsFiniteSet(S)
  BY HoursFinite
<1>6. ASSUME NEW h \in S
      PROVE  CountedByHour(u, attr)[h] = Cardinality(With(B, key, {h}))
  <2>1. h \in Hours /\ h \in Nat
    BY HoursType
  <2>2. VotesIn(u, attr, h) = With(B, key, {h})
    BY <1>2, <1>3, <2>1 DEF Votes, VotesIn, With
  <2> QED
    BY <2>1, <2>2 DEF CountedByHour
<1>7. SumOver(CountedByHour(u, attr), S) = Cardinality(With(B, key, S))
  BY <1>4, <1>5, <1>6, SumOfCardinalities
<1>8. With(B, key, S) = {n \in Votes(u, attr, 0) : log[n].hour \in S}
  BY <1>2, <1>3 DEF With
<1> QED
  BY <1>7, <1>8

LEMMA RowsOfType ==
  ASSUME TypeOK, NEW u \in Users, NEW attr \in Attr, NEW h \in Hours
  PROVE  /\ RowsOf(u, attr)[h] = counters[<<u, h>>][attr]
         /\ RowsOf(u, attr)[h] \in Nat
         /\ CountedByHour(u, attr)[h] = Cardinality(VotesIn(u, attr, h))
         /\ CountedByHour(u, attr)[h] \in Nat
<1>1. counters[<<u, h>>][attr] \in Nat
  BY KeyType DEF TypeOK, CountersGroup
<1>2. Cardinality(VotesIn(u, attr, h)) \in Nat
  BY VotesInFinite, FS_CardinalityType
<1> QED
  BY <1>1, <1>2 DEF RowsOf, CountedByHour

-----------------------------------------------------------------------------
(* What a call has read of the clock                                       *)

\* The clock shows at most one new hour since the call began; each window
\* starts where the clock put it at some time since then; and the filter, read
\* last, cuts into none.
CallInv(rd, time) ==
  /\ rd.began <= time /\ time <= rd.began + 1
  /\ \A o \in DOMAIN rd.cutoff : rd.began - o <= rd.cutoff[o] /\ rd.cutoff[o] <= time - o
  /\ rd.pc = "query" => \A o \in rd.offsets : rd.filter <= time - o

CallsInv == \A r \in Readers : read[r].pc # "idle" => CallInv(read[r], now)

LEMMA ReaderCalls ==
  ASSUME TypeOK, CallsInv, NEW r \in Readers,
         \/ \E u \in Users, offsets \in HoursOffsetGroups : GetHourlyCounters(r, u, offsets)
         \/ NextCutoff(r) \/ TimeFilter(r) \/ Query(r)
  PROVE  CallsInv'
<1>1. now \in Nat /\ now' = now
  BY HoursType DEF TypeOK, GetHourlyCounters, NextCutoff, TimeFilter, Query
<1>2. SUFFICES read'[r].pc # "idle" => CallInv(read'[r], now')
  <2>1. \A q \in Readers : q # r => read'[q] = read[q]
    BY DEF TypeOK, GetHourlyCounters, NextCutoff, TimeFilter, Query
  <2> QED
    BY <1>1, <1>2, <2>1 DEF CallsInv, CallInv
<1>3. ASSUME NEW u \in Users, NEW offsets \in HoursOffsetGroups, GetHourlyCounters(r, u, offsets)
      PROVE  CallInv(read'[r], now')
  <2>1. /\ read'[r].pc = "cutoffs" /\ read'[r].began = now
        /\ read'[r].cutoff = <<>>
    BY <1>3 DEF TypeOK, GetHourlyCounters
  <2>2. DOMAIN <<>> = {}
    OBVIOUS
  <2> QED
    BY <1>1, <2>1, <2>2 DEF CallInv
<1>4. CASE NextCutoff(r)
  <2>1. read[r] \in Read /\ CallInv(read[r], now)
    BY <1>4, BusyReader DEF NextCutoff, CallsInv
  <2>2. PICK o \in read[r].offsets \ DOMAIN read[r].cutoff :
          read' = [read EXCEPT
                    ![r].cutoff = [p \in DOMAIN @ \cup {o} |-> IF p = o THEN now - o ELSE @[p]],
                    ![r].pc = IF read[r].offsets \ DOMAIN read[r].cutoff = {o}
                              THEN "filter" ELSE "cutoffs"]
    BY <1>4 DEF NextCutoff
  <2> DEFINE old == read[r].cutoff
             new == [p \in DOMAIN old \cup {o} |-> IF p = o THEN now - o ELSE old[p]]
  <2>3. /\ read'[r].cutoff = new /\ read'[r].began = read[r].began
        /\ read'[r].pc # "query"
    BY <2>1, <2>2 DEF TypeOK, Read
  <2>4. o \in Nat /\ read[r].began \in Int
    BY <2>1, <2>2, HoursType DEF Read, HoursOffsetGroups
  <2>5. \A p \in DOMAIN new : read[r].began - p <= new[p] /\ new[p] <= now - p
    BY <1>1, <2>1, <2>4 DEF CallInv
  <2> HIDE DEF new
  <2> QED
    BY <1>1, <2>1, <2>3, <2>5 DEF CallInv
<1>5. CASE TimeFilter(r)
  <2>1. read[r] \in Read /\ CallInv(read[r], now)
    BY <1>5, BusyReader DEF TimeFilter, CallsInv
  <2>2. PICK longest \in read[r].offsets :
          /\ \A o \in read[r].offsets : o <= longest
          /\ read' = [read EXCEPT ![r].filter = now - longest, ![r].pc = "query"]
    BY <1>5 DEF TimeFilter
  <2>3. /\ read'[r].cutoff = read[r].cutoff /\ read'[r].began = read[r].began
        /\ read'[r].offsets = read[r].offsets /\ read'[r].filter = now - longest
    BY <2>1, <2>2 DEF TypeOK, Read
  <2>4. read[r].offsets \subseteq Nat
    BY <2>1 DEF Read, HoursOffsetGroups
  <2>5. \A o \in read[r].offsets : now - longest <= now - o
    BY <1>1, <2>2, <2>4
  <2> QED
    BY <1>1, <2>1, <2>3, <2>5 DEF CallInv
<1>6. CASE Query(r)
  <2>1. read'[r].pc = "idle"
    BY <1>6 DEF Query, TypeOK, NoRead
  <2> QED
    BY <2>1
<1> QED
  BY <1>3, <1>4, <1>5, <1>6

LEMMA NextHourCalls == ASSUME TypeOK, CallsInv, NextHour PROVE CallsInv'
<1> SUFFICES ASSUME NEW r \in Readers, read[r].pc # "idle" PROVE CallInv(read'[r], now')
  BY DEF NextHour, CallsInv
<1>1. read[r] \in Read /\ CallInv(read[r], now)
  BY BusyReader DEF CallsInv
<1>2. read[r].began = now /\ now' = now + 1 /\ read' = read /\ now \in Nat
  BY HoursType DEF NextHour, TypeOK
<1>3. /\ read[r].offsets \subseteq Int /\ DOMAIN read[r].cutoff \subseteq read[r].offsets
      /\ \A o \in DOMAIN read[r].cutoff : read[r].cutoff[o] \in Int
      /\ read[r].filter \in Int
  BY <1>1, LastHourAssumption DEF Read, HoursOffsetGroups, Cutoffs
<1> QED
  BY <1>1, <1>2, <1>3 DEF CallInv

LEMMA CallsCorrect == Spec => []CallsInv
<1>1. Init => CallsInv
  BY DEF Init, CallsInv, NoRead
<1>2. TypeOK /\ CallsInv /\ [Next]_vars => CallsInv'
  <2> SUFFICES ASSUME TypeOK, CallsInv, [Next]_vars PROVE CallsInv'
    OBVIOUS
  <2>1. ASSUME UNCHANGED <<now, read>> PROVE CallsInv'
    BY <2>1 DEF CallsInv, CallInv
  <2>2. ASSUME NEW w \in Writers,
               \/ \E id \in VoteId, vote \in {"yes", "no"} : NewCounterUpdateGroup(w, id, vote)
               \/ IncrSucceeds(w) \/ IncrFails(w) \/ IncrResponseLost(w)
        PROVE  CallsInv'
    BY <2>1, <2>2 DEF NewCounterUpdateGroup, IncrSucceeds, IncrFails, IncrResponseLost
  <2>3. ASSUME NEW u \in Users, NEW hour \in Hours, Expire(u, hour) PROVE CallsInv'
    BY <2>1, <2>3 DEF Expire
  <2>4. CASE UNCHANGED vars
    BY <2>1, <2>4 DEF vars
  <2> QED
    BY <2>2, <2>3, <2>4, ReaderCalls, NextHourCalls DEF Next
<1> QED
  BY <1>1, <1>2, CountersTypeCorrect, PTL DEF Spec

-----------------------------------------------------------------------------
(* A row never shows more than was counted, expired or not                 *)

RowsAtMost ==
  \A u \in Users, hour \in Hours, attr \in Attr :
    counters[<<u, hour>>][attr] <= Cardinality(VotesIn(u, attr, hour))

LEMMA RowsAreAtMost == Spec => []RowsAtMost
<1>1. Init => RowsAtMost
  <2> SUFFICES ASSUME Init, NEW u \in Users, NEW hour \in Hours, NEW attr \in Attr
               PROVE  counters[<<u, hour>>][attr] <= Cardinality(VotesIn(u, attr, hour))
    BY DEF RowsAtMost
  <2>1. counters[<<u, hour>>][attr] = 0
    BY KeyType DEF Init, EmptyGroup
  <2>2. VotesIn(u, attr, hour) = {}
    BY DEF Init, Votes, VotesIn
  <2> QED
    BY <2>1, <2>2, FS_EmptySet
<1>2. TypeOK /\ RowsAtMost /\ [Next]_vars => RowsAtMost'
  <2> SUFFICES ASSUME TypeOK, RowsAtMost, [Next]_vars PROVE RowsAtMost'
    OBVIOUS
  <2>1. ASSUME UNCHANGED <<counters, log>> PROVE RowsAtMost'
    <3>1. \A u, hour, attr : VotesIn(u, attr, hour)' = VotesIn(u, attr, hour)
      BY <2>1 DEF Votes, VotesIn
    <3> QED
      BY <2>1, <3>1 DEF RowsAtMost
  <2>2. ASSUME NEW w \in Writers, IncrSucceeds(w) \/ IncrResponseLost(w)
        PROVE  RowsAtMost'
    <3> SUFFICES ASSUME NEW u \in Users, NEW hour \in Hours, NEW attr \in Attr
                 PROVE  counters'[<<u, hour>>][attr] <= Cardinality(VotesIn(u, attr, hour)')
      BY DEF RowsAtMost
    <3>1. PICK more \in {0, 1} :
            /\ counters'[<<u, hour>>][attr] = counters[<<u, hour>>][attr] + more
            /\ Cardinality(VotesIn(u, attr, hour)') = Cardinality(VotesIn(u, attr, hour)) + more
      BY <2>2, TransactRaisesBoth DEF IncrSucceeds, IncrResponseLost
    <3>2. counters[<<u, hour>>][attr] \in Nat /\ Cardinality(VotesIn(u, attr, hour)) \in Nat
      BY RowsOfType
    <3>3. counters[<<u, hour>>][attr] <= Cardinality(VotesIn(u, attr, hour))
      BY DEF RowsAtMost
    <3> QED
      BY <3>1, <3>2, <3>3
  <2>3. ASSUME NEW u \in Users, NEW hour \in Hours, Expire(u, hour) PROVE RowsAtMost'
    <3> SUFFICES ASSUME NEW v \in Users, NEW h \in Hours, NEW attr \in Attr
                 PROVE  counters'[<<v, h>>][attr] <= Cardinality(VotesIn(v, attr, h)')
      BY DEF RowsAtMost
    <3>1. VotesIn(v, attr, h)' = VotesIn(v, attr, h)
      BY <2>3 DEF Expire, Votes, VotesIn
    <3>2. Cardinality(VotesIn(v, attr, h)) \in Nat
      BY RowsOfType
    <3>3. counters'[<<v, h>>] = counters[<<v, h>>] \/ counters'[<<v, h>>] = EmptyGroup
      BY <2>3, KeyType DEF Expire, TypeOK
    <3>4. counters'[<<v, h>>][attr] = counters[<<v, h>>][attr] \/ counters'[<<v, h>>][attr] = 0
      BY <3>3 DEF EmptyGroup
    <3>5. counters[<<v, h>>][attr] <= Cardinality(VotesIn(v, attr, h))
      BY DEF RowsAtMost
    <3> QED
      BY <3>1, <3>2, <3>4, <3>5
  <2>4. ASSUME NEW w \in Writers, NEW id \in VoteId, NEW vote \in {"yes", "no"},
               NewCounterUpdateGroup(w, id, vote)
        PROVE  RowsAtMost'
    BY <2>4, NewVoteIsNotCounted DEF NewCounterUpdateGroup, RowsAtMost
  <2>5. ASSUME NEW w \in Writers, IncrFails(w) PROVE RowsAtMost'
    BY <2>1, <2>5 DEF IncrFails
  <2>6. ASSUME NEW r \in Readers,
               \/ \E u \in Users, offsets \in HoursOffsetGroups : GetHourlyCounters(r, u, offsets)
               \/ NextCutoff(r) \/ TimeFilter(r) \/ Query(r)
        PROVE  RowsAtMost'
    BY <2>1, <2>6 DEF GetHourlyCounters, NextCutoff, TimeFilter, Query
  <2>7. CASE NextHour
    BY <2>1, <2>7 DEF NextHour
  <2>8. CASE UNCHANGED vars
    BY <2>1, <2>8 DEF vars
  <2> QED
    BY <2>2, <2>3, <2>4, <2>5, <2>6, <2>7, <2>8 DEF Next
<1> QED
  BY <1>1, <1>2, CountersTypeCorrect, PTL DEF Spec

-----------------------------------------------------------------------------
(* What a call returns                                                     *)

\* What a call that is about to query knows.
LEMMA QueryingCall ==
  ASSUME TypeOK, CallsInv, NEW r \in Readers, read[r].pc = "query"
  PROVE  /\ read[r] \in Read /\ CallInv(read[r], now)
         /\ read[r].user \in Users /\ read[r].offsets \subseteq 1..TtlHours
         /\ DOMAIN read[r].cutoff = read[r].offsets
         /\ \A o \in read[r].offsets : read[r].cutoff[o] \in Int
         /\ read[r].filter \in Int /\ read[r].began \in Int /\ now \in Int
<1>1. read[r] \in Read /\ CallInv(read[r], now)
  BY BusyReader DEF CallsInv
<1>2. now \in Int /\ read[r].began \in Int
  <2>1. now \in Hours /\ read[r].began \in Hours
    BY <1>1 DEF TypeOK, Read
  <2> QED
    BY <2>1, HourNumber
<1>3. \A o \in DOMAIN read[r].cutoff : read[r].cutoff[o] \in Int
  BY <1>1, LastHourAssumption DEF Read, Cutoffs
<1> QED
  BY <1>1, <1>2, <1>3, LastHourAssumption DEF Read, HoursOffsetGroups

LEMMA ExactReads ==
  ASSUME TypeOK, CallsInv, HourlyRowsCountVotes
  PROVE  HourlyReadIsExact
<1> SUFFICES ASSUME NEW r \in Readers, read[r].pc = "query",
                    NEW o \in read[r].offsets, o < TtlHours, read[r].cutoff[o] = now - o,
                    NEW attr \in Attr
             PROVE  GroupCount(read[r], o, attr)
                      = Cardinality(Votes(read[r].user, attr, now - o))
  BY DEF HourlyReadIsExact
<1>1. PICK u \in Users : u = read[r].user
  BY QueryingCall
<1>2. PICK S : S = Window(read[r], o)
  OBVIOUS
<1>3. o \in Int /\ now \in Int /\ read[r].filter \in Int /\ read[r].filter <= now - o
  BY QueryingCall DEF CallInv
<1>4. \A h \in Hours : h \in Int
  BY HoursType
<1>5. S = {h \in Hours : h >= now - o}
  <2>1. \A h \in Hours : (h >= read[r].filter /\ h >= read[r].cutoff[o]) <=> h >= now - o
    BY <1>3, <1>4
  <2> QED
    BY <1>2, <2>1 DEF Window
<1>6. \A h \in S : h \in Hours /\ now < h + TtlHours
  BY <1>3, <1>4, <1>5, TtlHoursAssumption
<1>7. ASSUME NEW h \in S
      PROVE  /\ CountedByHour(u, attr)[h] \in Int
             /\ RowsOf(u, attr)[h] = CountedByHour(u, attr)[h]
  <2>1. h \in Hours /\ now < h + TtlHours
    BY <1>6
  <2>2. counters[<<u, h>>][attr] = Cardinality(VotesIn(u, attr, h))
    BY <2>1 DEF HourlyRowsCountVotes
  <2> QED
    BY <2>1, <2>2, RowsOfType
<1>8. IsFiniteSet(S)
  BY <1>5, HoursFinite
<1>9. SumOver(RowsOf(u, attr), S) = SumOver(CountedByHour(u, attr), S)
  BY <1>7, <1>8, SumSame
<1>10. {n \in Votes(u, attr, 0) : log[n].hour \in S} = Votes(u, attr, now - o)
  <2>1. \A n \in 1..Len(log) : log[n] \in Vote
    BY DEF TypeOK
  <2>2. \A n \in 1..Len(log) : log[n].hour \in Hours
    BY <2>1 DEF Vote
  <2>3. \A n \in 1..Len(log) : log[n].hour >= 0
    BY <2>2, HourNumber
  <2> QED
    BY <1>5, <2>2, <2>3 DEF Votes
<1>11. SumOver(CountedByHour(u, attr), S) = Cardinality(Votes(u, attr, now - o))
  BY <1>5, <1>10, SumOfHours
<1> QED
  BY <1>1, <1>2, <1>9, <1>11, GroupCountIsSum

\* For any users, readers, writers, hours and offsets: a call during which the
\* hour does not change is exact for every offset short of the TTL.
THEOREM HourlyReadCorrect == Spec => []HourlyReadIsExact
BY ExactReads, CountersTypeCorrect, CallsCorrect, HourlyRowsCorrect, PTL

LEMMA NestedWindows ==
  ASSUME TypeOK, CallsInv, RowsAtMost, LifetimeCountsVotes
  PROVE  WindowsNested
<1> SUFFICES ASSUME NEW r \in Readers, read[r].pc = "query",
                    NEW o \in read[r].offsets, NEW attr \in Attr
             PROVE  /\ GroupCount(read[r], o, attr) <= GetLifetimeCounter(read[r].user)[attr]
                    /\ \A p \in read[r].offsets :
                         o < p => GroupCount(read[r], o, attr) <= GroupCount(read[r], p, attr)
  BY DEF WindowsNested
<1>1. PICK u \in Users : u = read[r].user
  BY QueryingCall
<1>2. \A h \in Hours : h \in Int
  BY HoursType
<1>3. GroupCount(read[r], o, attr) <= GetLifetimeCounter(read[r].user)[attr]
  <2>1. PICK S : S = Window(read[r], o)
    OBVIOUS
  <2>2. S \subseteq Hours /\ IsFiniteSet(S)
    BY <2>1, HoursFinite DEF Window
  <2>3. ASSUME NEW h \in S
        PROVE  /\ RowsOf(u, attr)[h] \in Int /\ CountedByHour(u, attr)[h] \in Int
               /\ RowsOf(u, attr)[h] <= CountedByHour(u, attr)[h]
    <3>1. h \in Hours
      BY <2>2
    <3>2. counters[<<u, h>>][attr] <= Cardinality(VotesIn(u, attr, h))
      BY <3>1 DEF RowsAtMost
    <3> QED
      BY <3>1, <3>2, RowsOfType
  <2>4. SumOver(RowsOf(u, attr), S) <= SumOver(CountedByHour(u, attr), S)
    BY <2>2, <2>3, SumMonotonic
  <2>5. PICK part : part = {n \in Votes(u, attr, 0) : log[n].hour \in S}
    OBVIOUS
  <2>6. SumOver(CountedByHour(u, attr), S) = Cardinality(part)
    BY <2>2, <2>5, SumOfHours
  <2>7. IsFiniteSet(Votes(u, attr, 0))
    BY VotesFinite
  <2>8. IsFiniteSet(part) /\ Cardinality(part) <= Cardinality(Votes(u, attr, 0))
    BY <2>5, <2>7, FS_Subset
  <2>9. GetLifetimeCounter(u)[attr] = Cardinality(Votes(u, attr, 0))
    BY DEF LifetimeCountsVotes
  <2>10. GroupCount(read[r], o, attr) = SumOver(RowsOf(u, attr), S)
    BY <1>1, <2>1, GroupCountIsSum
  <2>11. SumOver(RowsOf(u, attr), S) \in Int
    BY <2>2, <2>3, SumInt
  <2>12. Cardinality(part) \in Nat /\ Cardinality(Votes(u, attr, 0)) \in Nat
    BY <2>7, <2>8, FS_CardinalityType
  <2> QED
    BY <1>1, <2>4, <2>6, <2>8, <2>9, <2>10, <2>11, <2>12
<1>4. ASSUME NEW p \in read[r].offsets, o < p
      PROVE  GroupCount(read[r], o, attr) <= GroupCount(read[r], p, attr)
  <2>1. /\ o \in Int /\ p \in Int /\ read[r].began \in Int /\ now \in Int
        /\ read[r].cutoff[o] \in Int /\ read[r].cutoff[p] \in Int /\ read[r].filter \in Int
    BY QueryingCall
  <2>2. read[r].began - o <= read[r].cutoff[o] /\ read[r].cutoff[p] <= now - p
        /\ now <= read[r].began + 1
    BY QueryingCall DEF CallInv
  <2>3. read[r].cutoff[p] <= read[r].cutoff[o]
    BY <1>4, <2>1, <2>2
  <2>4. Window(read[r], o) \subseteq Window(read[r], p)
    <3>1. \A h \in Hours : h >= read[r].cutoff[o] => h >= read[r].cutoff[p]
      BY <1>2, <2>1, <2>3
    <3> QED
      BY <3>1 DEF Window
  <2>5. Window(read[r], p) \subseteq Hours
    BY DEF Window
  <2>6. IsFiniteSet(Window(read[r], p)) /\ \A h \in Window(read[r], p) : RowsOf(u, attr)[h] \in Nat
    BY <2>5, HoursFinite, RowsOfType
  <2>7. SumOver(RowsOf(u, attr), Window(read[r], o)) <= SumOver(RowsOf(u, attr), Window(read[r], p))
    BY <2>4, <2>6, SumSubset
  <2> QED
    BY <1>1, <2>7, GroupCountIsSum
<1> QED
  BY <1>3, <1>4

\* For any users, readers, writers, hours and offsets: longer windows never
\* show less, and none shows more than the lifetime row.
THEOREM WindowsCorrect == Spec => []WindowsNested
BY NestedWindows, CountersTypeCorrect, CallsCorrect, RowsAreAtMost, LifetimeCorrect, PTL

=============================================================================
