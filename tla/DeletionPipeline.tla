--------------------------- MODULE DeletionPipeline ---------------------------
(***************************************************************************)
(* DELETE /v1/romances: the removal of all romances of a user.             *)
(*                                                                         *)
(* The REST service publishes a request.  A message processor takes it,    *)
(* enumerates the peers of the user in a goroutine that pages through two  *)
(* indexes and hands the peers over a bounded channel, and publishes them  *)
(* in groups; the listener of the second topic deletes each group with     *)
(* batch writes.  A message leaves its queue when its handler returned nil *)
(* and the acknowledgement arrived in time.                                *)
(*                                                                         *)
(* SNS, SQS and DynamoDB are external.  Both topics are FIFO with a single *)
(* message group, so one message of each is in flight at a time; equal     *)
(* messages published within five minutes are dropped as duplicates.       *)
(***************************************************************************)
EXTENDS Integers, Sequences, FiniteSets, Functions

CONSTANTS
  Users,        \* user ids, ordered: the smaller id of a pair is its partition key
  Pairs,        \* the pairs of users that may have a romance
  Requesters,   \* the users that ask for the removal of their romances
  Processes,    \* the message processors, one at a time restarted in place
  NoProcess,    \* nobody holds the message
  PageSize,     \* items in a full page of a DynamoDB query
  ChanCap,      \* capacity of the channel of peers (64)
  GroupLimit,   \* getRomancesGroupLimit (25)
  BatchLimit,   \* deletes in one BatchWriteItem (25)
  Faults,       \* what may go wrong
  MaxFaults,    \* bound: faults in a behaviour
  MaxRequests,  \* bound: requests in a behaviour
  MaxChanges    \* bound: romances that users create or delete in a behaviour

Fault == {"publishFails", "queryFails", "unreadable", "staleRead", "unprocessed",
          "batchFails", "ackLost", "slow", "crash", "cancel"}

ASSUME UsersAssumption == Users \subseteq Int
ASSUME PairsAssumption == Pairs \subseteq {key \in Users \X Users : key[1] < key[2]}
ASSUME RequestersAssumption == Requesters \subseteq Users
ASSUME ProcessesAssumption == NoProcess \notin Processes
ASSUME LimitsAssumption ==
  {PageSize, ChanCap, GroupLimit, BatchLimit} \subseteq Nat \ {0}
ASSUME FaultsAssumption == Faults \subseteq Fault
ASSUME BoundsAssumption == {MaxFaults, MaxRequests, MaxChanges} \subseteq Nat

VARIABLES
  romances,       \* the romances in the table, by primary key
  requests,       \* the queue of delete-romances.fifo: users
  groups,         \* the queue of delete-romances-group.fifo: group messages
  requestHolder,  \* the process the first request is in flight to
  groupHolder,    \* the process the first group is in flight to
  recentRequests, \* users whose request is still remembered as published
  recentGroups,   \* group messages still remembered as published
  op,             \* DeleteRomancesOperation of each process
  enum,           \* its goroutine in GetAllPeersForActiveUser
  buf,            \* the channel between the two
  grp,            \* DeleteRomancesGroupOperation of each process
  stopping,       \* whether the context of the process is cancelled
  owed,           \* history: romances there when a request for them was answered
  dropped,        \* history: owed romances the code let go of on an error
  asked,          \* history: users whose request reached the topic or was answered
  used            \* the faults, requests and changes so far

processVars == <<op, enum, buf, grp, stopping>>
queueVars == <<requests, groups, requestHolder, groupHolder, recentRequests, recentGroups>>
historyVars == <<owed, dropped, asked>>
vars == <<romances, queueVars, processVars, historyVars, used>>

-----------------------------------------------------------------------------
(* Keys, peers and messages                                                *)

KeyOf(u, peer) == IF u < peer THEN <<u, peer>> ELSE <<peer, u>>
PairsOf(u) == {key \in Pairs : u \in {key[1], key[2]}}

GroupMessage == [user : Users, peers : Seq(Users)]

\* Mutant: the keys of every romance of the peers.
KeysOfPeers(u, peers) == UNION {PairsOf(peer) : peer \in peers}

KeysOf(u, peers) == {KeyOf(u, peer) : peer \in peers}
GroupKeys(g) == KeysOf(g.user, Range(g.peers))

\* The base table lists a user's romances with the peers above, the GSI those below.
PeersIn(u, index) ==
  {peer \in Users : KeyOf(u, peer) \in romances
                    /\ IF index = "pk" THEN peer > u ELSE peer < u}

\* A DynamoDB key that a query starts after, by the index whose query returned it.
NoKey == [index |-> "none", peer |-> 0]
StartKey == [index : {"pk", "gsi"}, peer : Users] \cup {NoKey}

\* What a query of u on the index finds from its start key on.
Beyond(u, index, start) ==
  {peer \in PeersIn(u, index) : start.index = index => peer > start.peer}

\* A start key of the other index lies outside the queried partition.
StartsInside(e) == e.start.index \in {"none", e.index}

-----------------------------------------------------------------------------
(* The goroutines                                                          *)

NoOp == [pc |-> "idle", user |-> 0, group |-> <<>>]
Op == [pc : {"range", "publish", "ack"}, user : Requesters, group : Seq(Users)] \cup {NoOp}

NoEnum == [pc |-> "none", index |-> "pk", start |-> NoKey, page |-> {}, next |-> NoKey]
Enum == [pc : {"none", "query", "send", "done"}, index : {"pk", "gsi"}, start : StartKey,
         page : SUBSET Users, next : StartKey]

NoGrp == [pc |-> "idle", user |-> 0, left |-> <<>>]
Grp == [pc : {"batch", "ack"}, user : Requesters, left : Seq(Users)] \cup {NoGrp}

TypeOK ==
  /\ romances \in SUBSET Pairs
  /\ requests \in Seq(Requesters)
  /\ groups \in Seq([user : Requesters, peers : Seq(Users)])
  /\ requestHolder \in Processes \cup {NoProcess}
  /\ groupHolder \in Processes \cup {NoProcess}
  /\ recentRequests \in SUBSET Requesters
  /\ recentGroups \in SUBSET [user : Requesters, peers : Seq(Users)]
  /\ op \in [Processes -> Op]
  /\ enum \in [Processes -> Enum]
  /\ buf \in [Processes -> Seq(Users)]
  /\ \A p \in Processes : Len(buf[p]) <= ChanCap
  /\ grp \in [Processes -> Grp]
  /\ stopping \in [Processes -> BOOLEAN]
  /\ owed \in SUBSET romances
  /\ dropped \in SUBSET owed
  /\ asked \in SUBSET Requesters
  /\ used \in [faults : 0..MaxFaults, requests : 0..MaxRequests, changes : 0..MaxChanges]

Init ==
  /\ romances \in SUBSET Pairs
  /\ requests = <<>> /\ groups = <<>>
  /\ requestHolder = NoProcess /\ groupHolder = NoProcess
  /\ recentRequests = {} /\ recentGroups = {}
  /\ op = [p \in Processes |-> NoOp]
  /\ enum = [p \in Processes |-> NoEnum]
  /\ buf = [p \in Processes |-> <<>>]
  /\ grp = [p \in Processes |-> NoGrp]
  /\ stopping = [p \in Processes |-> FALSE]
  /\ owed = {} /\ dropped = {} /\ asked = {}
  /\ used = [faults |-> 0, requests |-> 0, changes |-> 0]

-----------------------------------------------------------------------------
(* Pieces of the steps                                                     *)

Spend(fault) ==
  /\ fault \in Faults
  /\ used.faults < MaxFaults
  /\ used' = [used EXCEPT !.faults = @ + 1]

\* History: the code goes on without these romances.
LetGo(keys) == dropped' = dropped \cup (owed \cap keys)

\* Romances leave the table, and with it the debt.
Remove(keys) ==
  /\ romances' = romances \ keys
  /\ owed' = owed \ keys
  /\ dropped' = dropped \ keys

EndOp(p) ==
  /\ op' = [op EXCEPT ![p] = NoOp]
  /\ enum' = [enum EXCEPT ![p] = NoEnum]
  /\ buf' = [buf EXCEPT ![p] = <<>>]

\* The message is no longer in flight, if it still was to this process.
Release(holder, p) == IF holder = p THEN NoProcess ELSE holder

-----------------------------------------------------------------------------
(* The users                                                               *)

Change ==
  /\ used.changes < MaxChanges
  /\ used' = [used EXCEPT !.changes = @ + 1]

Vote(key) ==
  /\ key \notin romances
  /\ Change
  /\ romances' = romances \cup {key}
  /\ UNCHANGED <<queueVars, processVars, historyVars>>

DeleteRomance(key) ==
  /\ key \in romances
  /\ Change
  /\ Remove({key})
  /\ UNCHANGED <<queueVars, processVars, asked>>

\* A request of u that will be enumerated from the start.
WaitsForUser(u) ==
  \E i \in DOMAIN requests : requests[i] = u /\ (i > 1 \/ requestHolder = NoProcess)

Enqueue(u) ==
  /\ requests' = Append(requests, u)
  /\ recentRequests' = recentRequests \cup {u}

\* Answered 202: the message is queued, or dropped by SNS as a duplicate.
RequestAnswered(u) ==
  /\ used.requests < MaxRequests
  /\ used' = [used EXCEPT !.requests = @ + 1]
  /\ asked' = asked \cup {u}
  /\ owed' = owed \cup (romances \cap PairsOf(u))
  /\ \/ /\ u \notin recentRequests
        /\ Enqueue(u)
        /\ dropped' = dropped \ PairsOf(u)
     \/ /\ u \in recentRequests
        /\ dropped' = IF WaitsForUser(u) THEN dropped \ PairsOf(u)
                      ELSE dropped \cup ((romances \ owed) \cap PairsOf(u))
        /\ UNCHANGED <<requests, recentRequests>>
  /\ UNCHANGED <<romances, groups, requestHolder, groupHolder, recentGroups, processVars>>

\* Publish returns an error, whatever became of the message; nothing is promised.
RequestFails(u) ==
  /\ Spend("publishFails")
  /\ u \notin recentRequests
  /\ Enqueue(u)
  /\ asked' = asked \cup {u}
  /\ UNCHANGED <<romances, groups, requestHolder, groupHolder, recentGroups, processVars,
                 owed, dropped>>

\* Five minutes after the message was published.
DeduplicationEnds ==
  /\ \/ /\ \E u \in recentRequests : recentRequests' = recentRequests \ {u}
        /\ UNCHANGED recentGroups
     \/ /\ \E g \in recentGroups : recentGroups' = recentGroups \ {g}
        /\ UNCHANGED recentRequests
  /\ UNCHANGED <<romances, requests, groups, requestHolder, groupHolder, processVars,
                 historyVars, used>>

-----------------------------------------------------------------------------
(* The goroutine of GetAllPeersForActiveUser                               *)

\* Mutant: the channel is not closed.
QueryReturnsOpen(e) ==
  IF e.index = "pk" THEN [e EXCEPT !.pc = "query", !.index = "gsi", !.page = {}, !.next = NoKey]
  ELSE [e EXCEPT !.pc = "none", !.page = {}, !.next = NoKey]

\* queryFn returns: the other index is next, with the start key as it is left.
QueryReturns(e) ==
  IF e.index = "pk" THEN [e EXCEPT !.pc = "query", !.index = "gsi", !.page = {}, !.next = NoKey]
  ELSE [e EXCEPT !.pc = "done", !.page = {}, !.next = NoKey]

\* Mutant: the next page starts after the same key as the last.
PeerSentSamePage(e, peer) ==
  LET rest == e.page \ {peer}
  IN  IF rest # {} THEN [e EXCEPT !.page = rest]
      ELSE IF e.next # NoKey THEN [e EXCEPT !.pc = "query", !.page = {}, !.next = NoKey]
           ELSE QueryReturns(e)

\* After a peer is sent: the rest of the page, the next page, or the end of the query.
PeerSent(e, peer) ==
  LET rest == e.page \ {peer}
  IN  IF rest # {} THEN [e EXCEPT !.page = rest]
      ELSE IF e.next # NoKey
           THEN [e EXCEPT !.pc = "query", !.page = {}, !.start = e.next, !.next = NoKey]
           ELSE QueryReturns(e)

\* What is left of the query an enumerator is in.
LeftOfQuery(p) ==
  LET e == enum[p]
      u == op[p].user
  IN  IF e.pc = "query" THEN Beyond(u, e.index, e.start)
      ELSE e.page \cup (IF e.next = NoKey THEN {} ELSE Beyond(u, e.index, e.next))

\* A page of the peers found, in key order, and the key the next page starts
\* after: always given when items are left, possibly after an exact fit.
Page(found, index, page, next) ==
  /\ page \subseteq found
  /\ \A peer \in page, other \in found \ page : peer < other
  /\ \/ page = found /\ next = NoKey
     \/ /\ Cardinality(page) = PageSize
        /\ \E last \in page : /\ \A peer \in page : peer <= last
                              /\ next = [index |-> index, peer |-> last]

\* The queries are eventually consistent: a stale one misses romances.
Query(p) ==
  LET e == enum[p]
      u == op[p].user
      found == Beyond(u, e.index, e.start)
  IN  /\ e.pc = "query"
      /\ ~stopping[p]
      /\ StartsInside(e)
      /\ \E missed \in SUBSET found, page \in SUBSET found, next \in StartKey :
           /\ Page(found \ missed, e.index, page, next)
           /\ \/ missed = {} /\ UNCHANGED used
              \/ missed # {} /\ Spend("staleRead")
           /\ enum' = [enum EXCEPT ![p] =
                         IF page = {} THEN QueryReturns(e)
                         ELSE [e EXCEPT !.pc = "send", !.page = page, !.next = next]]
           /\ LetGo(KeysOf(u, missed))
      /\ UNCHANGED <<romances, queueVars, op, buf, grp, stopping, owed, asked>>

\* The query is refused or fails: queryFn returns, and nobody hears of it.
QueryFails(p) ==
  /\ enum[p].pc = "query"
  /\ \/ ~StartsInside(enum[p]) /\ UNCHANGED used
     \/ stopping[p] /\ UNCHANGED used
     \/ Spend("queryFails")
  /\ LetGo(KeysOf(op[p].user, LeftOfQuery(p)))
  /\ enum' = [enum EXCEPT ![p] = QueryReturns(@)]
  /\ UNCHANGED <<romances, queueVars, op, buf, grp, stopping, owed, asked>>

\* Mutant: the goroutine does not wait for room in the channel.
SendPeerAlways(p) ==
  /\ enum[p].pc = "send"
  /\ \E peer \in enum[p].page :
       /\ \A other \in enum[p].page : peer <= other
       /\ buf' = [buf EXCEPT ![p] = Append(@, peer)]
       /\ enum' = [enum EXCEPT ![p] = PeerSent(@, peer)]
  /\ UNCHANGED <<romances, queueVars, op, grp, stopping, historyVars, used>>

SendPeer(p) ==
  /\ enum[p].pc = "send"
  /\ Len(buf[p]) < ChanCap
  /\ \E peer \in enum[p].page :
       /\ \A other \in enum[p].page : peer <= other
       /\ buf' = [buf EXCEPT ![p] = Append(@, peer)]
       /\ enum' = [enum EXCEPT ![p] = PeerSent(@, peer)]
  /\ UNCHANGED <<romances, queueVars, op, grp, stopping, historyVars, used>>

\* An item of the base table cannot be read, or the context is cancelled.
SendReturns(p) ==
  /\ enum[p].pc = "send"
  /\ \/ stopping[p] /\ UNCHANGED used
     \/ enum[p].index = "pk" /\ Spend("unreadable")
  /\ LetGo(KeysOf(op[p].user, LeftOfQuery(p)))
  /\ enum' = [enum EXCEPT ![p] = QueryReturns(@)]
  /\ UNCHANGED <<romances, queueVars, op, buf, grp, stopping, owed, asked>>

EnumStep(p) == Query(p) \/ QueryFails(p) \/ SendPeer(p) \/ SendReturns(p)

-----------------------------------------------------------------------------
(* DeleteRomancesOperation.Run and the acknowledgement after it            *)

DeliverRequest(p) ==
  /\ requests # <<>> /\ requestHolder = NoProcess
  /\ op[p].pc = "idle" /\ ~stopping[p]
  /\ requestHolder' = p
  /\ op' = [op EXCEPT ![p] = [pc |-> "range", user |-> Head(requests), group |-> <<>>]]
  /\ enum' = [enum EXCEPT ![p] = [NoEnum EXCEPT !.pc = "query"]]
  /\ UNCHANGED <<romances, requests, groups, groupHolder, recentRequests, recentGroups,
                 buf, grp, stopping, historyVars, used>>

Receive(p) ==
  /\ op[p].pc = "range"
  /\ buf[p] # <<>>
  /\ LET group == Append(op[p].group, Head(buf[p]))
     IN  op' = [op EXCEPT ![p].group = group,
                          ![p].pc = IF Len(group) = GroupLimit THEN "publish" ELSE "range"]
  /\ buf' = [buf EXCEPT ![p] = Tail(@)]
  /\ UNCHANGED <<romances, queueVars, enum, grp, stopping, historyVars, used>>

\* Mutant: a remainder short of a group is forgotten.
RangeEndsAtFullGroup(p) ==
  /\ op[p].pc = "range"
  /\ buf[p] = <<>> /\ enum[p].pc = "done"
  /\ op' = [op EXCEPT ![p].pc = "ack"]
  /\ UNCHANGED <<romances, queueVars, enum, buf, grp, stopping, historyVars, used>>

\* The channel is closed and empty: the remainder is published, if there is one.
RangeEnds(p) ==
  /\ op[p].pc = "range"
  /\ buf[p] = <<>> /\ enum[p].pc = "done"
  /\ op' = [op EXCEPT ![p].pc = IF op[p].group = <<>> THEN "ack" ELSE "publish"]
  /\ UNCHANGED <<romances, queueVars, enum, buf, grp, stopping, historyVars, used>>

GroupOf(p) == [user |-> op[p].user, peers |-> op[p].group]

\* The same message waits in the queue and is not being worked on.
WaitsInQueue(g) ==
  \E i \in DOMAIN groups : groups[i] = g /\ (i > 1 \/ groupHolder = NoProcess)

PublishGroup(p) ==
  /\ op[p].pc = "publish"
  /\ \/ /\ GroupOf(p) \notin recentGroups
        /\ groups' = Append(groups, GroupOf(p))
        /\ recentGroups' = recentGroups \cup {GroupOf(p)}
        /\ UNCHANGED dropped
     \/ /\ GroupOf(p) \in recentGroups
        /\ LetGo(IF WaitsInQueue(GroupOf(p)) THEN {} ELSE GroupKeys(GroupOf(p)))
        /\ UNCHANGED <<groups, recentGroups>>
  /\ op' = [op EXCEPT ![p].pc = "range", ![p].group = <<>>]
  /\ UNCHANGED <<romances, requests, requestHolder, groupHolder, recentRequests,
                 enum, buf, grp, stopping, owed, asked, used>>

\* Mutant: the error is logged, as those of the queries are.
PublishFailsSilently(p) ==
  /\ op[p].pc = "publish"
  /\ Spend("publishFails")
  /\ op' = [op EXCEPT ![p].pc = "range", ![p].group = <<>>]
  /\ UNCHANGED <<romances, queueVars, enum, buf, grp, stopping, historyVars>>

\* Run returns the error and the message is not acknowledged: it comes again.
PublishFails(p) ==
  /\ op[p].pc = "publish"
  /\ Spend("publishFails")
  /\ \/ UNCHANGED <<groups, recentGroups>>
     \/ /\ GroupOf(p) \notin recentGroups
        /\ groups' = Append(groups, GroupOf(p))
        /\ recentGroups' = recentGroups \cup {GroupOf(p)}
  /\ requestHolder' = Release(requestHolder, p)
  /\ EndOp(p)
  /\ UNCHANGED <<romances, requests, groupHolder, recentRequests, grp, stopping, historyVars>>

\* Ack deletes the message, unless it is no longer in flight to this process.
AckRequest(p) ==
  /\ op[p].pc = "ack"
  /\ requests' = IF requestHolder = p THEN Tail(requests) ELSE requests
  /\ requestHolder' = Release(requestHolder, p)
  /\ EndOp(p)
  /\ UNCHANGED <<romances, groups, groupHolder, recentRequests, recentGroups,
                 grp, stopping, historyVars, used>>

AckRequestLost(p) ==
  /\ op[p].pc = "ack"
  /\ \/ stopping[p] /\ UNCHANGED used
     \/ Spend("ackLost")
  /\ requestHolder' = Release(requestHolder, p)
  /\ EndOp(p)
  /\ UNCHANGED <<romances, requests, groups, groupHolder, recentRequests, recentGroups,
                 grp, stopping, historyVars>>

OpStep(p) ==
  \/ Receive(p) \/ RangeEnds(p) \/ PublishGroup(p) \/ PublishFails(p)
  \/ AckRequest(p) \/ AckRequestLost(p)

-----------------------------------------------------------------------------
(* DeleteRomancesGroup and the acknowledgement after it                    *)

DeliverGroup(p) ==
  /\ groups # <<>> /\ groupHolder = NoProcess
  /\ grp[p].pc = "idle" /\ ~stopping[p]
  /\ groupHolder' = p
  /\ grp' = [grp EXCEPT ![p] = [pc |-> "batch", user |-> Head(groups).user,
                                left |-> Head(groups).peers]]
  /\ UNCHANGED <<romances, requests, groups, requestHolder, recentRequests, recentGroups,
                 op, enum, buf, stopping, historyVars, used>>

\* The next batch: the first BatchLimit peers that are left.
Batch(left) == {left[i] : i \in {j \in DOMAIN left : j <= BatchLimit}}

\* Unprocessed deletes come back in a successful answer, which nobody looks at.
BatchSucceeds(p) ==
  LET g == grp[p]
      left == SubSeq(g.left, BatchLimit + 1, Len(g.left))
  IN  /\ g.pc = "batch"
      /\ ~stopping[p]
      /\ \E unprocessed \in SUBSET Batch(g.left) :
           /\ \/ unprocessed = {} /\ UNCHANGED used
              \/ unprocessed # {} /\ Spend("unprocessed")
           /\ LET removed == KeysOf(g.user, Batch(g.left) \ unprocessed)
              IN  /\ romances' = romances \ removed
                  /\ owed' = owed \ removed
                  /\ dropped' = (dropped \ removed)
                                \cup (owed \cap KeysOf(g.user, unprocessed))
      /\ grp' = [grp EXCEPT ![p].left = left, ![p].pc = IF left = <<>> THEN "ack" ELSE "batch"]
      /\ UNCHANGED <<queueVars, op, enum, buf, stopping, asked>>

\* An error, of which some deletes may have been done: the message comes again.
BatchFails(p) ==
  /\ grp[p].pc = "batch"
  /\ \/ stopping[p] /\ UNCHANGED used
     \/ Spend("batchFails")
  /\ \E done \in SUBSET Batch(grp[p].left) : Remove(KeysOf(grp[p].user, done))
  /\ groupHolder' = Release(groupHolder, p)
  /\ grp' = [grp EXCEPT ![p] = NoGrp]
  /\ UNCHANGED <<requests, groups, requestHolder, recentRequests, recentGroups,
                 op, enum, buf, stopping, asked>>

AckGroup(p) ==
  /\ grp[p].pc = "ack"
  /\ groups' = IF groupHolder = p THEN Tail(groups) ELSE groups
  /\ groupHolder' = Release(groupHolder, p)
  /\ grp' = [grp EXCEPT ![p] = NoGrp]
  /\ UNCHANGED <<romances, requests, requestHolder, recentRequests, recentGroups,
                 op, enum, buf, stopping, historyVars, used>>

AckGroupLost(p) ==
  /\ grp[p].pc = "ack"
  /\ \/ stopping[p] /\ UNCHANGED used
     \/ Spend("ackLost")
  /\ groupHolder' = Release(groupHolder, p)
  /\ grp' = [grp EXCEPT ![p] = NoGrp]
  /\ UNCHANGED <<romances, requests, groups, requestHolder, recentRequests, recentGroups,
                 op, enum, buf, stopping, historyVars>>

GroupStep(p) == BatchSucceeds(p) \/ BatchFails(p) \/ AckGroup(p) \/ AckGroupLost(p)

-----------------------------------------------------------------------------
(* What happens to a process                                               *)

\* The visibility timeout passes while the handler is still at work.
VisibilityEnds ==
  /\ Spend("slow")
  /\ \/ requestHolder # NoProcess /\ requestHolder' = NoProcess /\ UNCHANGED groupHolder
     \/ groupHolder # NoProcess /\ groupHolder' = NoProcess /\ UNCHANGED requestHolder
  /\ UNCHANGED <<romances, requests, groups, recentRequests, recentGroups, processVars,
                 historyVars>>

Busy(p) == op[p].pc # "idle" \/ grp[p].pc # "idle"

Crash(p) ==
  /\ Busy(p)
  /\ Spend("crash")
  /\ EndOp(p)
  /\ grp' = [grp EXCEPT ![p] = NoGrp]
  /\ stopping' = [stopping EXCEPT ![p] = FALSE]
  /\ requestHolder' = Release(requestHolder, p)
  /\ groupHolder' = Release(groupHolder, p)
  /\ UNCHANGED <<romances, requests, groups, recentRequests, recentGroups, historyVars>>

\* SIGTERM cancels the context of every handler of the process.
Cancel(p) ==
  /\ Busy(p) /\ ~stopping[p]
  /\ Spend("cancel")
  /\ stopping' = [stopping EXCEPT ![p] = TRUE]
  /\ UNCHANGED <<romances, queueVars, op, enum, buf, grp, historyVars>>

\* The listeners return after their messages; another process takes the place.
Restart(p) ==
  /\ stopping[p] /\ ~Busy(p)
  /\ stopping' = [stopping EXCEPT ![p] = FALSE]
  /\ UNCHANGED <<romances, queueVars, op, enum, buf, grp, historyVars, used>>

-----------------------------------------------------------------------------
Next ==
  \/ \E key \in Pairs : Vote(key) \/ DeleteRomance(key)
  \/ \E u \in Requesters : RequestAnswered(u) \/ RequestFails(u)
  \/ DeduplicationEnds
  \/ VisibilityEnds
  \/ \E p \in Processes :
       \/ DeliverRequest(p) \/ EnumStep(p) \/ OpStep(p)
       \/ DeliverGroup(p) \/ GroupStep(p)
       \/ Crash(p) \/ Cancel(p) \/ Restart(p)

Spec == Init /\ [][Next]_vars

\* Goroutines run, queues deliver, a stopped process is replaced.
Fairness ==
  \A p \in Processes :
    /\ WF_vars(DeliverRequest(p)) /\ WF_vars(EnumStep(p)) /\ WF_vars(OpStep(p))
    /\ WF_vars(DeliverGroup(p)) /\ WF_vars(GroupStep(p))
    /\ WF_vars(Restart(p))

FairSpec == Spec /\ Fairness

-----------------------------------------------------------------------------
(* Properties                                                              *)

\* A message still in its queue will take care of the romance.
Accounted(key) ==
  \/ \E i \in DOMAIN requests : key \in PairsOf(requests[i])
  \/ \E i \in DOMAIN groups : key \in GroupKeys(groups[i])

\* Of the romances a user was promised to be rid of, the pipeline loses none
\* but those it let go of on an error: all along, the others are accounted for
\* by a queued message, whatever crashes, repeats, or is late.
NothingElseLost == \A key \in owed \ dropped : Accounted(key)

\* Every published group can be deleted: it has no peer twice (DynamoDB refuses
\* such a batch, and the message would block the topic for ever), not the user,
\* and at most GroupLimit peers.
GroupsAreDeletable ==
  \A i \in DOMAIN groups :
    LET peers == groups[i].peers
    IN  /\ Len(peers) \in 1..GroupLimit
        /\ \A j, k \in DOMAIN peers : peers[j] = peers[k] => j = k
        /\ groups[i].user \notin Range(peers)

\* The two goroutines of a request never both wait on their channel: while the
\* operation ranges over it, a peer is in it, or the enumeration has one to
\* send, a page to ask for, or has closed it; and while the enumeration is at
\* work, the operation comes back to receive.
ChannelIsServed ==
  \A p \in Processes :
    /\ op[p].pc = "range" /\ buf[p] = <<>> =>
         enum[p].pc \in {"query", "done"} \/ (enum[p].pc = "send" /\ enum[p].page # {})
    /\ enum[p].pc \in {"query", "send"} => op[p].pc \in {"range", "publish"}

\* The pipeline implements the clean-up: every romance it removes is one of a user
\* who asked, every other one that goes was deleted alone by its user in a counted
\* change, and a debt is forgotten only with the romance or by letting go.
Cleanup == INSTANCE RomanceCleanup WITH
             table <- romances, due <- owed \ dropped, acts <- used.changes
ImplementsCleanup == Cleanup!CleanupSpec

\* Every romance that was promised to be removed is removed or let go of in the
\* end: no handler waits for ever on the channel, no queue is stuck.
OwedIsSettled == \A key \in Pairs : key \in owed \ dropped ~> key \notin owed \ dropped

-----------------------------------------------------------------------------
(* Properties the code violates (see the README, findings)                 *)

\* All romances of the user are deleted: what was promised is never lost.
NothingLost == \A key \in owed : Accounted(key)

=============================================================================
