---------------------------- MODULE DeletionProofs ----------------------------
(***************************************************************************)
(* Proofs about DeletionPipeline: for any users, processes, limits, faults *)
(* and bounds, its types, that it loses no romance but those it lets go    *)
(* of on an error, and that it implements RomanceCleanup.                  *)
(***************************************************************************)
EXTENDS DeletionPipeline, TLAPS

-----------------------------------------------------------------------------
(* Facts about the operators                                               *)

LEMMA UsersAreIntegers == \A u \in Users : u \in Int
BY UsersAssumption

LEMMA LimitsArePositive ==
  /\ PageSize \in Nat \ {0} /\ ChanCap \in Nat \ {0}
  /\ GroupLimit \in Nat \ {0} /\ BatchLimit \in Nat \ {0}
BY LimitsAssumption

\* A user has different romances with different peers.
LEMMA KeyOfIsInjective ==
  ASSUME NEW u \in Users, NEW a \in Users, NEW b \in Users, KeyOf(u, a) = KeyOf(u, b)
  PROVE  a = b
<1>1. u \in Int /\ a \in Int /\ b \in Int
  BY UsersAreIntegers
<1> QED
  BY <1>1 DEF KeyOf

\* The keys of disjoint sets of peers are disjoint.
LEMMA KeysOfDifference ==
  ASSUME NEW u \in Users, NEW S \in SUBSET Users, NEW T \in SUBSET S
  PROVE  /\ KeysOf(u, T) \cap KeysOf(u, S \ T) = {}
         /\ KeysOf(u, T) \cup KeysOf(u, S \ T) = KeysOf(u, S)
BY KeyOfIsInjective DEF KeysOf

\* A pair of a user is the key of that user and a peer, who is somebody else.
LEMMA PairHasPeer ==
  ASSUME NEW u \in Users, NEW key \in PairsOf(u)
  PROVE  \E peer \in Users : peer # u /\ key = KeyOf(u, peer)
<1>1. PICK a \in Users, b \in Users : key = <<a, b>> /\ a < b
  BY PairsAssumption DEF PairsOf
<1>2. a \in Int /\ b \in Int /\ (u = a \/ u = b)
  BY <1>1, UsersAreIntegers DEF PairsOf
<1>3. CASE u = a
  BY <1>1, <1>2, <1>3 DEF KeyOf
<1>4. CASE u = b
  BY <1>1, <1>2, <1>4 DEF KeyOf
<1> QED
  BY <1>2, <1>3, <1>4

\* A key that is a pair is one of the user's pairs.
LEMMA KeyIsPair ==
  ASSUME NEW u, NEW peer, KeyOf(u, peer) \in Pairs
  PROVE  KeyOf(u, peer) \in PairsOf(u)
BY DEF KeyOf, PairsOf

LEMMA RangeOfParts ==
  ASSUME NEW S, NEW s \in Seq(S), s # <<>>, NEW x \in Range(s), x # Head(s)
  PROVE  x \in Range(Tail(s))
<1>1. PICK i \in 1..Len(s) : x = s[i]
  BY DEF Range
<1>2. i # 1
  BY <1>1
<1>3. i - 1 \in DOMAIN Tail(s) /\ Tail(s)[i - 1] = x
  BY <1>1, <1>2
<1> QED
  BY <1>3 DEF Range

LEMMA RangeType ==
  ASSUME NEW S, NEW s \in Seq(S)
  PROVE  Range(s) \subseteq S
BY DEF Range

LEMMA RangeOfAppend ==
  ASSUME NEW S, NEW s \in Seq(S), NEW x \in S
  PROVE  Range(Append(s, x)) = Range(s) \cup {x}
<1>1. ASSUME NEW y \in Range(s) PROVE y \in Range(Append(s, x))
  <2>1. PICK i \in 1..Len(s) : y = s[i]
    BY <1>1 DEF Range
  <2>2. i \in DOMAIN Append(s, x) /\ Append(s, x)[i] = y
    BY <2>1
  <2> QED
    BY <2>2 DEF Range
<1>2. x \in Range(Append(s, x))
  <2>1. Len(s) + 1 \in DOMAIN Append(s, x) /\ Append(s, x)[Len(s) + 1] = x
    OBVIOUS
  <2> QED
    BY <2>1 DEF Range
<1>3. ASSUME NEW y \in Range(Append(s, x)), y # x PROVE y \in Range(s)
  <2>1. PICK i \in 1..(Len(s) + 1) : y = Append(s, x)[i]
    BY <1>3 DEF Range
  <2>2. i \in 1..Len(s) /\ y = s[i]
    BY <2>1, <1>3
  <2> QED
    BY <2>2 DEF Range
<1> QED
  BY <1>1, <1>2, <1>3

\* The next batch and what is left after it are all that was left.
LEMMA BatchAndRest ==
  ASSUME NEW S, NEW left \in Seq(S)
  PROVE  /\ Batch(left) \subseteq Range(left)
         /\ SubSeq(left, BatchLimit + 1, Len(left)) \in Seq(S)
         /\ Range(left) = Batch(left) \cup Range(SubSeq(left, BatchLimit + 1, Len(left)))
<1> BatchLimit \in Nat
  BY LimitsArePositive
<1> PICK rest : rest = SubSeq(left, BatchLimit + 1, Len(left))
  OBVIOUS
<1>1. Batch(left) \subseteq Range(left)
  BY DEF Batch, Range
<1>2. rest \in Seq(S)
  OBVIOUS
<1>3. ASSUME NEW x \in Range(rest) PROVE x \in Range(left)
  <2>1. PICK i \in DOMAIN rest : x = rest[i]
    BY <1>3 DEF Range
  <2>2. i + BatchLimit \in DOMAIN left /\ left[i + BatchLimit] = x
    BY <2>1
  <2> QED
    BY <2>2 DEF Range
<1>4. ASSUME NEW x \in Range(left), x \notin Batch(left) PROVE x \in Range(rest)
  <2>1. PICK i \in DOMAIN left : x = left[i]
    BY <1>4 DEF Range
  <2>2. i > BatchLimit
    BY <2>1, <1>4 DEF Batch
  <2>3. i - BatchLimit \in DOMAIN rest /\ rest[i - BatchLimit] = x
    BY <2>1, <2>2
  <2> QED
    BY <2>3 DEF Range
<1> QED
  BY <1>1, <1>2, <1>3, <1>4

-----------------------------------------------------------------------------
(* Type correctness                                                        *)

GroupMsg == [user : Requesters, peers : Seq(Users)]

\* The conjuncts of TypeOK, by the steps that disturb them together.
TableOK ==
  /\ romances \in SUBSET Pairs
  /\ owed \in SUBSET romances
  /\ dropped \in SUBSET owed
AskedOK == asked \in SUBSET Requesters
RequestsOK ==
  /\ requests \in Seq(Requesters)
  /\ recentRequests \in SUBSET Requesters
GroupsOK ==
  /\ groups \in Seq(GroupMsg)
  /\ recentGroups \in SUBSET GroupMsg
HoldersOK ==
  /\ requestHolder \in Processes \cup {NoProcess}
  /\ groupHolder \in Processes \cup {NoProcess}
OpsOK == op \in [Processes -> Op]
EnumsOK == enum \in [Processes -> Enum]
BufsOK == buf \in [Processes -> Seq(Users)] /\ \A p \in Processes : Len(buf[p]) <= ChanCap
GrpsOK == grp \in [Processes -> Grp]
StoppingOK == stopping \in [Processes -> BOOLEAN]
UsedOK == used \in [faults : 0..MaxFaults, requests : 0..MaxRequests, changes : 0..MaxChanges]

QueuesOK == RequestsOK /\ GroupsOK /\ HoldersOK
ThreadsOK == OpsOK /\ EnumsOK /\ BufsOK

TypeInv == TableOK /\ AskedOK /\ QueuesOK /\ ThreadsOK /\ GrpsOK /\ StoppingOK /\ UsedOK

\* A goroutine or a handler at work has a user.
LEMMA LocalTypes ==
  ASSUME OpsOK, GrpsOK, NEW p \in Processes
  PROVE  /\ op[p].pc # "idle" => op[p].user \in Requesters /\ op[p].group \in Seq(Users)
         /\ grp[p].pc # "idle" => grp[p].user \in Requesters /\ grp[p].left \in Seq(Users)
BY DEF OpsOK, GrpsOK, Op, Grp, NoOp, NoGrp

LEMMA IdleTypes ==
  ASSUME OpsOK, GrpsOK, NEW p \in Processes
  PROVE  /\ op[p].group \in Seq(Users)
         /\ grp[p].left \in Seq(Users)
<1>1. NoOp.group \in Seq(Users) /\ NoGrp.left \in Seq(Users)
  BY DEF NoOp, NoGrp
<1>2. op[p] = NoOp \/ op[p].group \in Seq(Users)
  BY DEF OpsOK, Op
<1>3. grp[p] = NoGrp \/ grp[p].left \in Seq(Users)
  BY DEF GrpsOK, Grp
<1> QED
  BY <1>1, <1>2, <1>3

LEMMA SpendType ==
  ASSUME UsedOK, NEW f, Spend(f)
  PROVE  UsedOK'
BY BoundsAssumption DEF UsedOK, Spend

LEMMA EndOpType ==
  ASSUME ThreadsOK, NEW p \in Processes, EndOp(p)
  PROVE  ThreadsOK'
<1>1. NoOp \in Op /\ NoEnum \in Enum
  BY DEF Op, Enum, NoEnum, StartKey
<1>2. OpsOK' /\ EnumsOK'
  BY <1>1 DEF ThreadsOK, OpsOK, EnumsOK, EndOp
<1>3. BufsOK'
  BY LimitsArePositive DEF ThreadsOK, BufsOK, EndOp
<1> QED
  BY <1>2, <1>3 DEF ThreadsOK

LEMMA QueryReturnsType ==
  ASSUME NEW e \in Enum
  PROVE  QueryReturns(e) \in Enum
BY DEF QueryReturns, Enum, StartKey

LEMMA PeerSentType ==
  ASSUME NEW e \in Enum, NEW peer
  PROVE  PeerSent(e, peer) \in Enum
<1> PICK rest : rest = e.page \ {peer}
  OBVIOUS
<1>1. rest \in SUBSET Users /\ NoKey \in StartKey
  BY DEF Enum, StartKey
<1>2. CASE rest # {}
  BY <1>1, <1>2 DEF PeerSent, Enum
<1>3. CASE rest = {} /\ e.next # NoKey
  BY <1>1, <1>3 DEF PeerSent, Enum
<1>4. CASE rest = {} /\ e.next = NoKey
  BY <1>4, QueryReturnsType DEF PeerSent
<1> QED
  BY <1>2, <1>3, <1>4

LEMMA RemoveType ==
  ASSUME TableOK, NEW keys, Remove(keys)
  PROVE  TableOK'
BY DEF TableOK, Remove

LEMMA LetGoType ==
  ASSUME TableOK, NEW keys, LetGo(keys), UNCHANGED <<romances, owed>>
  PROVE  TableOK'
BY DEF TableOK, LetGo

LEMMA ReleaseType ==
  ASSUME NEW holder \in Processes \cup {NoProcess}, NEW p
  PROVE  Release(holder, p) \in Processes \cup {NoProcess}
BY DEF Release

LEMMA EnqueueType ==
  ASSUME RequestsOK, NEW u \in Requesters, Enqueue(u)
  PROVE  RequestsOK'
BY DEF RequestsOK, Enqueue

\* What GroupOf publishes is a group message.
LEMMA GroupOfType ==
  ASSUME OpsOK, GrpsOK, NEW p \in Processes, op[p].pc = "publish"
  PROVE  GroupOf(p) \in GroupMsg
BY LocalTypes DEF GroupOf, GroupMsg

LEMMA TailType ==
  ASSUME NEW S, NEW s \in Seq(S), s # <<>>
  PROVE  Tail(s) \in Seq(S) /\ Len(Tail(s)) = Len(s) - 1 /\ Head(s) \in S
OBVIOUS

\* What a step leaves alone keeps its type.
LEMMA Frames ==
  /\ TableOK /\ UNCHANGED <<romances, owed, dropped>> => TableOK'
  /\ AskedOK /\ UNCHANGED asked => AskedOK'
  /\ RequestsOK /\ UNCHANGED <<requests, recentRequests>> => RequestsOK'
  /\ GroupsOK /\ UNCHANGED <<groups, recentGroups>> => GroupsOK'
  /\ HoldersOK /\ UNCHANGED <<requestHolder, groupHolder>> => HoldersOK'
  /\ OpsOK /\ UNCHANGED op => OpsOK'
  /\ EnumsOK /\ UNCHANGED enum => EnumsOK'
  /\ BufsOK /\ UNCHANGED buf => BufsOK'
  /\ GrpsOK /\ UNCHANGED grp => GrpsOK'
  /\ StoppingOK /\ UNCHANGED stopping => StoppingOK'
  /\ UsedOK /\ UNCHANGED used => UsedOK'
BY DEF TableOK, AskedOK, RequestsOK, GroupsOK, HoldersOK, OpsOK, EnumsOK, BufsOK, GrpsOK,
       StoppingOK, UsedOK

LEMMA VoteStepsType ==
  ASSUME TypeInv, NEW key \in Pairs, Vote(key) \/ DeleteRomance(key)
  PROVE  TypeInv'
<1>1. CASE Vote(key)
  <2>1. TableOK'
    BY <1>1 DEF TypeInv, TableOK, Vote, historyVars
  <2>2. UsedOK'
    BY <1>1, BoundsAssumption DEF TypeInv, UsedOK, Vote, Change
  <2> QED
    BY <1>1, <2>1, <2>2, Frames DEF TypeInv, QueuesOK, ThreadsOK, Vote, queueVars, processVars,
       historyVars
<1>2. CASE DeleteRomance(key)
  <2>1. TableOK'
    BY <1>2, RemoveType DEF TypeInv, DeleteRomance
  <2>2. UsedOK'
    BY <1>2, BoundsAssumption DEF TypeInv, UsedOK, DeleteRomance, Change
  <2> QED
    BY <1>2, <2>1, <2>2, Frames DEF TypeInv, QueuesOK, ThreadsOK, DeleteRomance, queueVars,
       processVars
<1> QED
  BY <1>1, <1>2

LEMMA AskStepsType ==
  ASSUME TypeInv, NEW u \in Requesters, RequestAnswered(u) \/ RequestFails(u)
  PROVE  TypeInv'
<1>1. CASE RequestAnswered(u)
  <2>1. TableOK' /\ AskedOK'
    BY <1>1 DEF TypeInv, TableOK, AskedOK, RequestAnswered
  <2>2. UsedOK'
    BY <1>1, BoundsAssumption DEF TypeInv, UsedOK, RequestAnswered
  <2>3. RequestsOK'
    BY <1>1, EnqueueType, Frames DEF TypeInv, QueuesOK, RequestAnswered
  <2> QED
    BY <1>1, <2>1, <2>2, <2>3, Frames DEF TypeInv, QueuesOK, ThreadsOK, RequestAnswered,
       processVars
<1>2. CASE RequestFails(u)
  <2>1. AskedOK'
    BY <1>2 DEF TypeInv, AskedOK, RequestFails
  <2>2. UsedOK'
    BY <1>2, SpendType DEF TypeInv, RequestFails
  <2>3. RequestsOK'
    BY <1>2, EnqueueType DEF TypeInv, QueuesOK, RequestFails
  <2> QED
    BY <1>2, <2>1, <2>2, <2>3, Frames DEF TypeInv, QueuesOK, ThreadsOK, RequestFails,
       processVars
<1> QED
  BY <1>1, <1>2

LEMMA EnumStepsType ==
  ASSUME TypeInv, NEW p \in Processes, EnumStep(p)
  PROVE  TypeInv'
<1> PICK e \in Enum : e = enum[p]
  BY DEF TypeInv, ThreadsOK, EnumsOK
<1>1. CASE Query(p)
  <2>1. PICK missed, page \in SUBSET Users, next \in StartKey :
          /\ enum' = [enum EXCEPT ![p] =
                        IF page = {} THEN QueryReturns(e)
                        ELSE [e EXCEPT !.pc = "send", !.page = page, !.next = next]]
          /\ UNCHANGED used \/ Spend("staleRead")
          /\ LetGo(KeysOf(op[p].user, missed))
    BY <1>1 DEF Query, Beyond, PeersIn
  <2>2. QueryReturns(e) \in Enum
    BY QueryReturnsType
  <2>3. [e EXCEPT !.pc = "send", !.page = page, !.next = next] \in Enum
    BY DEF Enum
  <2>4. EnumsOK'
    BY <2>1, <2>2, <2>3 DEF TypeInv, ThreadsOK, EnumsOK
  <2>5. UsedOK'
    BY <2>1, SpendType, Frames DEF TypeInv
  <2>6. TableOK'
    BY <1>1, <2>1, LetGoType DEF TypeInv, Query
  <2> QED
    BY <1>1, <2>4, <2>5, <2>6, Frames DEF TypeInv, QueuesOK, ThreadsOK, Query, queueVars
<1>2. ASSUME QueryFails(p) \/ SendReturns(p) PROVE TypeInv'
  <2>1. /\ enum' = [enum EXCEPT ![p] = QueryReturns(@)]
        /\ UNCHANGED used \/ Spend("queryFails") \/ Spend("unreadable")
        /\ LetGo(KeysOf(op[p].user, LeftOfQuery(p)))
        /\ UNCHANGED <<romances, queueVars, op, buf, grp, stopping, owed, asked>>
    BY <1>2 DEF QueryFails, SendReturns
  <2>2. EnumsOK'
    BY <2>1, QueryReturnsType DEF TypeInv, ThreadsOK, EnumsOK
  <2>3. UsedOK'
    BY <2>1, SpendType, Frames DEF TypeInv
  <2>4. TableOK'
    BY <2>1, LetGoType DEF TypeInv
  <2> QED
    BY <2>1, <2>2, <2>3, <2>4, Frames DEF TypeInv, QueuesOK, ThreadsOK, queueVars
<1>3. CASE SendPeer(p)
  <2>1. PICK peer \in Users :
          /\ Len(buf[p]) < ChanCap
          /\ buf' = [buf EXCEPT ![p] = Append(@, peer)]
          /\ enum' = [enum EXCEPT ![p] = PeerSent(@, peer)]
    BY <1>3 DEF SendPeer, Enum
  <2>2. EnumsOK'
    BY <2>1, PeerSentType DEF TypeInv, ThreadsOK, EnumsOK
  <2>3. /\ buf[p] \in Seq(Users) /\ Append(buf[p], peer) \in Seq(Users)
        /\ Len(Append(buf[p], peer)) <= ChanCap
    BY <2>1, LimitsArePositive DEF TypeInv, ThreadsOK, BufsOK
  <2>4. BufsOK'
    BY <2>1, <2>3 DEF TypeInv, ThreadsOK, BufsOK
  <2> QED
    BY <1>3, <2>2, <2>4, Frames DEF TypeInv, QueuesOK, ThreadsOK, SendPeer, queueVars,
       historyVars
<1> QED
  BY <1>1, <1>2, <1>3 DEF EnumStep

\* A request in flight is being worked on by the process that holds it.
RequestHeld ==
  requestHolder \in Processes =>
    /\ requests # <<>>
    /\ op[requestHolder].pc # "idle"
    /\ op[requestHolder].user = Head(requests)

\* So is a group in flight, and what is left of it is some of its peers.
GroupHeld ==
  groupHolder \in Processes =>
    /\ groups # <<>>
    /\ grp[groupHolder].pc # "idle"
    /\ grp[groupHolder].user = Head(groups).user
    /\ Range(grp[groupHolder].left) \subseteq Range(Head(groups).peers)

LEMMA DeliverRequestType ==
  ASSUME TypeInv, NEW p \in Processes, DeliverRequest(p)
  PROVE  TypeInv'
<1>1. [pc |-> "range", user |-> Head(requests), group |-> <<>>] \in Op
  BY DEF TypeInv, QueuesOK, RequestsOK, DeliverRequest, Op
<1>2. [NoEnum EXCEPT !.pc = "query"] \in Enum
  BY DEF NoEnum, Enum, StartKey
<1>3. OpsOK' /\ EnumsOK'
  BY <1>1, <1>2 DEF TypeInv, ThreadsOK, OpsOK, EnumsOK, DeliverRequest
<1>4. HoldersOK'
  BY DEF TypeInv, QueuesOK, HoldersOK, DeliverRequest
<1>5. RequestsOK' /\ GroupsOK'
  BY Frames DEF TypeInv, QueuesOK, DeliverRequest
<1> QED
  BY <1>3, <1>4, <1>5, Frames DEF TypeInv, QueuesOK, ThreadsOK, DeliverRequest, historyVars

LEMMA EmptySeq ==
  ASSUME NEW S
  PROVE  <<>> \in Seq(S)
OBVIOUS

LEMMA PublishGroupType ==
  ASSUME OpsOK, NEW p \in Processes, op[p].pc = "publish",
         op' = [op EXCEPT ![p].pc = "range", ![p].group = <<>>]
  PROVE  OpsOK'
<1>1. PICK o \in [pc : {"range", "publish", "ack"}, user : Requesters, group : Seq(Users)] :
        o = op[p]
  BY DEF OpsOK, Op, NoOp
<1>2. PICK none \in Seq(Users) : none = <<>>
  BY EmptySeq
<1>3. [o EXCEPT !.pc = "range", !.group = none] \in Op
  BY DEF Op
<1>4. op' = [op EXCEPT ![p] = [o EXCEPT !.pc = "range", !.group = none]]
  BY <1>1, <1>2 DEF OpsOK
<1> QED
  BY <1>3, <1>4 DEF OpsOK

LEMMA OpStepsType ==
  ASSUME TypeInv, RequestHeld, NEW p \in Processes, OpStep(p)
  PROVE  TypeInv'
<1> USE DEF TypeInv, QueuesOK, ThreadsOK
<1>1. CASE Receive(p)
  <2>1. op[p].pc # "idle" /\ buf[p] # <<>> /\ buf[p] \in Seq(Users)
    BY <1>1 DEF Receive, BufsOK
  <2>2. PICK o \in Op : o = op[p]
    BY DEF OpsOK
  <2>3. o \in [pc : {"range", "publish", "ack"}, user : Requesters, group : Seq(Users)]
    BY <2>1, <2>2 DEF Op, NoOp
  <2>4. PICK group \in Seq(Users), pc \in {"range", "publish"} :
          op' = [op EXCEPT ![p].group = group, ![p].pc = pc]
    <3>1. Append(op[p].group, Head(buf[p])) \in Seq(Users)
      BY <2>1, LocalTypes, TailType
    <3> QED
      BY <1>1, <3>1 DEF Receive
  <2>5. OpsOK'
    BY <2>2, <2>3, <2>4 DEF OpsOK, Op
  <2>6. Tail(buf[p]) \in Seq(Users) /\ Len(Tail(buf[p])) <= ChanCap
    BY <2>1, LimitsArePositive DEF BufsOK
  <2>7. BufsOK'
    BY <1>1, <2>6 DEF Receive, BufsOK
  <2> QED
    BY <1>1, <2>5, <2>7, Frames DEF Receive, queueVars, historyVars
<1>2. CASE RangeEnds(p)
  <2>1. OpsOK'
    BY <1>2 DEF RangeEnds, OpsOK, Op, NoOp
  <2> QED
    BY <1>2, <2>1, Frames DEF RangeEnds, queueVars, historyVars
<1>3. CASE PublishGroup(p)
  <2>4. OpsOK'
    BY <1>3, PublishGroupType DEF PublishGroup
  <2>5. GroupsOK'
    <3>1. PICK g \in GroupMsg : g = GroupOf(p)
      BY <1>3, GroupOfType DEF PublishGroup
    <3>2. \/ UNCHANGED <<groups, recentGroups>>
          \/ groups' = Append(groups, g) /\ recentGroups' = recentGroups \cup {g}
      BY <1>3, <3>1 DEF PublishGroup
    <3> QED
      BY <3>2 DEF GroupsOK
  <2>6. TableOK'
    BY <1>3, LetGoType, Frames DEF PublishGroup
  <2>7. RequestsOK' /\ HoldersOK'
    BY <1>3, Frames DEF PublishGroup
  <2> QED
    BY <1>3, <2>4, <2>5, <2>6, <2>7, Frames DEF PublishGroup
<1>4. CASE PublishFails(p)
  <2>1. GroupsOK'
    BY <1>4, GroupOfType DEF PublishFails, GroupsOK
  <2>2. ThreadsOK' /\ UsedOK'
    BY <1>4, EndOpType, SpendType DEF PublishFails
  <2>3. HoldersOK' /\ RequestsOK'
    BY <1>4, ReleaseType, Frames DEF PublishFails, HoldersOK
  <2> QED
    BY <1>4, <2>1, <2>2, <2>3, Frames DEF PublishFails, historyVars
<1>5. CASE AckRequest(p)
  <2>1. RequestsOK'
    BY <1>5, ProcessesAssumption DEF AckRequest, RequestsOK, RequestHeld
  <2>2. ThreadsOK'
    BY <1>5, EndOpType DEF AckRequest
  <2>3. HoldersOK' /\ GroupsOK'
    BY <1>5, ReleaseType, Frames DEF AckRequest, HoldersOK
  <2> QED
    BY <1>5, <2>1, <2>2, <2>3, Frames DEF AckRequest, historyVars
<1>6. CASE AckRequestLost(p)
  <2>1. ThreadsOK' /\ UsedOK'
    BY <1>6, EndOpType, SpendType, Frames DEF AckRequestLost
  <2>2. HoldersOK' /\ GroupsOK' /\ RequestsOK'
    BY <1>6, ReleaseType, Frames DEF AckRequestLost, HoldersOK
  <2> QED
    BY <1>6, <2>1, <2>2, Frames DEF AckRequestLost, historyVars
<1> QED
  BY <1>1, <1>2, <1>3, <1>4, <1>5, <1>6 DEF OpStep

LEMMA DeliverGroupType ==
  ASSUME TypeInv, NEW p \in Processes, DeliverGroup(p)
  PROVE  TypeInv'
<1> USE DEF TypeInv, QueuesOK, ThreadsOK
<1>1. Head(groups) \in GroupMsg
  BY DEF GroupsOK, DeliverGroup
<1>2. [pc |-> "batch", user |-> Head(groups).user, left |-> Head(groups).peers] \in Grp
  BY <1>1 DEF GroupMsg, Grp
<1>3. GrpsOK'
  BY <1>2 DEF GrpsOK, DeliverGroup
<1>4. HoldersOK' /\ RequestsOK' /\ GroupsOK'
  BY Frames DEF HoldersOK, DeliverGroup
<1> QED
  BY <1>3, <1>4, Frames DEF DeliverGroup, historyVars

LEMMA GrpEndsType ==
  ASSUME GrpsOK, NEW p \in Processes, grp' = [grp EXCEPT ![p] = NoGrp]
  PROVE  GrpsOK'
BY DEF GrpsOK, Grp

\* A batch that succeeds removes some of its romances and lets go of the others.
LEMMA BatchTable ==
  ASSUME TypeInv, NEW p \in Processes, BatchSucceeds(p)
  PROVE  TableOK'
<1>1. PICK unprocessed \in SUBSET Batch(grp[p].left) :
        LET removed == KeysOf(grp[p].user, Batch(grp[p].left) \ unprocessed)
        IN  /\ romances' = romances \ removed
            /\ owed' = owed \ removed
            /\ dropped' = (dropped \ removed) \cup (owed \cap KeysOf(grp[p].user, unprocessed))
  BY DEF BatchSucceeds
<1>2. grp[p].user \in Users /\ grp[p].left \in Seq(Users)
  BY LocalTypes, RequestersAssumption DEF BatchSucceeds, TypeInv, ThreadsOK
<1>3. Batch(grp[p].left) \subseteq Users
  BY <1>2, BatchAndRest, RangeType
<1>4. KeysOf(grp[p].user, unprocessed)
        \cap KeysOf(grp[p].user, Batch(grp[p].left) \ unprocessed) = {}
  BY <1>2, <1>3, KeysOfDifference
<1> QED
  BY <1>1, <1>4 DEF TypeInv, TableOK

LEMMA GroupStepsType ==
  ASSUME TypeInv, GroupHeld, NEW p \in Processes, GroupStep(p)
  PROVE  TypeInv'
<1> USE DEF TypeInv, QueuesOK, ThreadsOK
<1>1. CASE BatchSucceeds(p)
  <2>1. TableOK'
    BY <1>1, BatchTable
  <2>2. UsedOK'
    BY <1>1, SpendType, Frames DEF BatchSucceeds
  <2>3. PICK g \in [pc : {"batch", "ack"}, user : Requesters, left : Seq(Users)] : g = grp[p]
    BY <1>1 DEF BatchSucceeds, GrpsOK, Grp, NoGrp
  <2>4. PICK left \in Seq(Users), pc \in {"batch", "ack"} :
          grp' = [grp EXCEPT ![p].left = left, ![p].pc = pc]
    BY <1>1, <2>3, BatchAndRest DEF BatchSucceeds
  <2>5. GrpsOK'
    BY <2>3, <2>4 DEF GrpsOK, Grp
  <2> QED
    BY <1>1, <2>1, <2>2, <2>5, Frames DEF BatchSucceeds, queueVars
<1>2. CASE BatchFails(p)
  <2>1. TableOK'
    BY <1>2, RemoveType DEF BatchFails
  <2>2. UsedOK' /\ GrpsOK'
    BY <1>2, SpendType, GrpEndsType, Frames DEF BatchFails
  <2>3. HoldersOK' /\ RequestsOK' /\ GroupsOK'
    BY <1>2, ReleaseType, Frames DEF BatchFails, HoldersOK
  <2> QED
    BY <1>2, <2>1, <2>2, <2>3, Frames DEF BatchFails
<1>3. CASE AckGroup(p)
  <2>1. GroupsOK'
    BY <1>3, ProcessesAssumption DEF AckGroup, GroupsOK, GroupHeld
  <2>2. GrpsOK' /\ HoldersOK' /\ RequestsOK'
    BY <1>3, GrpEndsType, ReleaseType, Frames DEF AckGroup, HoldersOK
  <2> QED
    BY <1>3, <2>1, <2>2, Frames DEF AckGroup, historyVars
<1>4. CASE AckGroupLost(p)
  <2>1. UsedOK' /\ GrpsOK'
    BY <1>4, SpendType, GrpEndsType, Frames DEF AckGroupLost
  <2>2. HoldersOK' /\ RequestsOK' /\ GroupsOK'
    BY <1>4, ReleaseType, Frames DEF AckGroupLost, HoldersOK
  <2> QED
    BY <1>4, <2>1, <2>2, Frames DEF AckGroupLost, historyVars
<1> QED
  BY <1>1, <1>2, <1>3, <1>4 DEF GroupStep

LEMMA QueueStepsType ==
  ASSUME TypeInv, VisibilityEnds \/ DeduplicationEnds
  PROVE  TypeInv'
<1> USE DEF TypeInv, QueuesOK, ThreadsOK
<1>1. CASE VisibilityEnds
  <2>1. UsedOK' /\ HoldersOK'
    BY <1>1, SpendType DEF VisibilityEnds, HoldersOK
  <2> QED
    BY <1>1, <2>1, Frames DEF VisibilityEnds, processVars, historyVars
<1>2. CASE DeduplicationEnds
  <2>1. RequestsOK' /\ GroupsOK'
    BY <1>2 DEF DeduplicationEnds, RequestsOK, GroupsOK
  <2> QED
    BY <1>2, <2>1, Frames DEF DeduplicationEnds, processVars, historyVars
<1> QED
  BY <1>1, <1>2

LEMMA ProcessStepsType ==
  ASSUME TypeInv, NEW p \in Processes, Crash(p) \/ Cancel(p) \/ Restart(p)
  PROVE  TypeInv'
<1> USE DEF TypeInv, QueuesOK, ThreadsOK
<1>1. CASE Crash(p)
  <2>1. UsedOK' /\ ThreadsOK' /\ GrpsOK'
    BY <1>1, SpendType, EndOpType, GrpEndsType DEF Crash
  <2>2. HoldersOK' /\ StoppingOK'
    BY <1>1, ReleaseType DEF Crash, HoldersOK, StoppingOK
  <2> QED
    BY <1>1, <2>1, <2>2, Frames DEF Crash, historyVars
<1>2. CASE Cancel(p)
  <2>1. UsedOK' /\ StoppingOK'
    BY <1>2, SpendType DEF Cancel, StoppingOK
  <2> QED
    BY <1>2, <2>1, Frames DEF Cancel, queueVars, historyVars
<1>3. CASE Restart(p)
  <2>1. StoppingOK'
    BY <1>3 DEF Restart, StoppingOK
  <2> QED
    BY <1>3, <2>1, Frames DEF Restart, queueVars, historyVars
<1> QED
  BY <1>1, <1>2, <1>3

-----------------------------------------------------------------------------
(* The handlers and the messages they work on                              *)

\* The goroutine lives as long as the operation does, and its operation is
\* finished only after the channel is drained; a handler acknowledges a group
\* only when nothing is left of it.
ThreadInv(p) ==
  /\ op[p].pc = "idle" <=> enum[p].pc = "none"
  /\ op[p].pc = "idle" => buf[p] = <<>>
  /\ op[p].pc = "ack" => op[p].group = <<>> /\ buf[p] = <<>> /\ enum[p].pc = "done"
  /\ grp[p].pc = "ack" => grp[p].left = <<>>

\* A page that is being sent has a peer left, and start keys of the second
\* index do not occur while the first is queried.
EnumInv(e) ==
  /\ e.pc = "send" => e.page # {}
  /\ e.next # NoKey => e.next.index = e.index
  /\ e.index = "pk" => e.start.index # "gsi"

-----------------------------------------------------------------------------
(* Where an owed romance is on its way                                     *)

\* The goroutine has not come to this peer yet, and will.
InIndex(u, index, peer) == IF index = "pk" THEN peer > u ELSE peer < u
After(key, index, peer) == key.index = index => peer > key.peer
Ahead(e, u, peer) ==
  \/ /\ e.pc = "query"
     /\ InIndex(u, e.index, peer) /\ After(e.start, e.index, peer)
  \/ /\ e.pc = "send"
     /\ \/ peer \in e.page
        \/ e.next # NoKey /\ InIndex(u, e.index, peer) /\ After(e.next, e.index, peer)
  \/ /\ e.pc \in {"query", "send"} /\ e.index = "pk"
     /\ peer < u

\* In the group, in the channel, or ahead of the goroutine.
Coming(p) ==
  {peer \in Users : \/ peer \in Range(op[p].group) \cup Range(buf[p])
                    \/ Ahead(enum[p], op[p].user, peer)}

WaitingRequest(key) ==
  \E i \in DOMAIN requests : /\ key \in PairsOf(requests[i])
                             /\ i > 1 \/ requestHolder = NoProcess
Enumerated(key) ==
  requestHolder \in Processes /\ key \in KeysOf(op[requestHolder].user, Coming(requestHolder))
WaitingGroup(key) ==
  \E i \in DOMAIN groups : /\ key \in GroupKeys(groups[i])
                           /\ i > 1 \/ groupHolder = NoProcess
Deleted(key) ==
  /\ groupHolder \in Processes
  /\ key \in KeysOf(grp[groupHolder].user, Range(grp[groupHolder].left))

OnItsWay(key) == WaitingRequest(key) \/ Enumerated(key) \/ WaitingGroup(key) \/ Deleted(key)

\* Every romance that is owed and not let go of is on its way to be deleted.
LossInv == \A key \in owed \ dropped : OnItsWay(key)

\* The users on whose behalf anything is done have asked for it.
AskedInv ==
  /\ \A i \in DOMAIN requests : requests[i] \in asked
  /\ \A i \in DOMAIN groups : groups[i].user \in asked
  /\ \A p \in Processes : /\ op[p].pc # "idle" => op[p].user \in asked
                          /\ grp[p].pc # "idle" => grp[p].user \in asked

-----------------------------------------------------------------------------
(* What has been sent                                                      *)

Sent(p) == Range(op[p].group) \cup Range(buf[p])
Distinct(s) == \A j, k \in DOMAIN s : s[j] = s[k] => j = k

\* No peer is sent twice: those sent are not ahead any more.  A group is
\* published when it is full, or not empty at the end.
SentInv(p) ==
  /\ Distinct(op[p].group) /\ Distinct(buf[p])
  /\ Range(op[p].group) \cap Range(buf[p]) = {}
  /\ \A peer \in Sent(p) : peer # op[p].user /\ ~Ahead(enum[p], op[p].user, peer)
  /\ Len(op[p].group) <= GroupLimit
  /\ op[p].pc = "range" => Len(op[p].group) < GroupLimit
  /\ op[p].pc = "publish" => op[p].group # <<>>

\* A page lies in its index and not after the start key of the next.
PageInv(u, e) ==
  e.pc = "send" =>
    \A peer \in e.page : /\ InIndex(u, e.index, peer)
                         /\ e.next # NoKey => peer <= e.next.peer


-----------------------------------------------------------------------------
(* Messages in flight                                                      *)

\* The steps of the range loop keep the user, and leave the others alone.
LEMMA LoopKeepsUser ==
  ASSUME OpsOK, NEW p \in Processes, Receive(p) \/ RangeEnds(p) \/ PublishGroup(p)
  PROVE  \A q \in Processes : /\ op'[q].user = op[q].user
                              /\ op[q].pc # "idle" => op'[q].pc # "idle"
                              /\ q # p => op'[q] = op[q]
<1>1. PICK o \in [pc : {"range", "publish", "ack"}, user : Requesters, group : Seq(Users)] :
        o = op[p]
  BY DEF Receive, RangeEnds, PublishGroup, OpsOK, Op, NoOp
<1>2. /\ op'[p].user = o.user /\ op'[p].pc # "idle"
      /\ \A q \in Processes : q # p => op'[q] = op[q]
  <2>1. CASE Receive(p)
    BY <1>1, <2>1 DEF Receive, OpsOK
  <2>2. CASE RangeEnds(p)
    BY <1>1, <2>2 DEF RangeEnds, OpsOK
  <2>3. CASE PublishGroup(p)
    BY <1>1, <2>3 DEF PublishGroup, OpsOK
  <2> QED
    BY <2>1, <2>2, <2>3
<1> QED
  BY <1>1, <1>2

LEMMA EndOpHeld ==
  ASSUME RequestHeld, OpsOK, NEW p \in Processes, EndOp(p),
         requestHolder' = Release(requestHolder, p),
         requestHolder # p => requests' = requests
  PROVE  RequestHeld'
BY ProcessesAssumption DEF RequestHeld, OpsOK, EndOp, Release

LEMMA EnqueueHeld ==
  ASSUME RequestHeld, RequestsOK, NEW u \in Requesters, Enqueue(u), UNCHANGED <<requestHolder, op>>
  PROVE  RequestHeld'
<1>1. requests # <<>> => requests' # <<>> /\ Head(requests') = Head(requests)
  BY DEF RequestsOK, Enqueue
<1> QED
  BY <1>1 DEF RequestHeld

LEMMA RequestHeldNext ==
  ASSUME TypeInv, RequestHeld, Next
  PROVE  RequestHeld'
<1> USE DEF TypeInv, QueuesOK, ThreadsOK
<1>0. ASSUME UNCHANGED <<requests, requestHolder, op>> PROVE RequestHeld'
  BY <1>0 DEF RequestHeld
<1>1. ASSUME NEW key \in Pairs, Vote(key) \/ DeleteRomance(key) PROVE RequestHeld'
  BY <1>0, <1>1 DEF Vote, DeleteRomance, queueVars, processVars
<1>2. ASSUME NEW u \in Requesters, RequestAnswered(u) \/ RequestFails(u) PROVE RequestHeld'
  BY <1>0, <1>2, EnqueueHeld DEF RequestAnswered, RequestFails, processVars
<1>3. ASSUME DeduplicationEnds \/ VisibilityEnds PROVE RequestHeld'
  BY <1>3, ProcessesAssumption DEF DeduplicationEnds, VisibilityEnds, RequestHeld, processVars
<1>4. ASSUME NEW p \in Processes, DeliverRequest(p) PROVE RequestHeld'
  BY <1>4 DEF DeliverRequest, RequestHeld, OpsOK
<1>5. ASSUME NEW p \in Processes, EnumStep(p) PROVE RequestHeld'
  BY <1>0, <1>5 DEF EnumStep, Query, QueryFails, SendPeer, SendReturns, queueVars
<1>6. ASSUME NEW p \in Processes, OpStep(p) PROVE RequestHeld'
  <2>1. CASE Receive(p) \/ RangeEnds(p) \/ PublishGroup(p)
    <3>1. UNCHANGED <<requests, requestHolder>>
      BY <2>1 DEF Receive, RangeEnds, PublishGroup, queueVars
    <3> QED
      BY <2>1, <3>1, LoopKeepsUser DEF RequestHeld
  <2>2. CASE PublishFails(p) \/ AckRequest(p) \/ AckRequestLost(p)
    BY <2>2, EndOpHeld DEF PublishFails, AckRequest, AckRequestLost
  <2> QED
    BY <1>6, <2>1, <2>2 DEF OpStep
<1>7. ASSUME NEW p \in Processes, DeliverGroup(p) \/ GroupStep(p) PROVE RequestHeld'
  BY <1>0, <1>7 DEF DeliverGroup, GroupStep, BatchSucceeds, BatchFails, AckGroup, AckGroupLost,
     queueVars
<1>8. ASSUME NEW p \in Processes, Crash(p) PROVE RequestHeld'
  BY <1>8, EndOpHeld DEF Crash
<1>9. ASSUME NEW p \in Processes, Cancel(p) \/ Restart(p) PROVE RequestHeld'
  BY <1>0, <1>9 DEF Cancel, Restart, queueVars
<1> QED
  BY <1>1, <1>2, <1>3, <1>4, <1>5, <1>6, <1>7, <1>8, <1>9 DEF Next

LEMMA GrpEndsHeld ==
  ASSUME GroupHeld, GrpsOK, NEW p \in Processes, grp' = [grp EXCEPT ![p] = NoGrp],
         groupHolder' = Release(groupHolder, p),
         groupHolder # p => groups' = groups
  PROVE  GroupHeld'
BY ProcessesAssumption DEF GroupHeld, GrpsOK, Release

LEMMA AppendHeld ==
  ASSUME GroupHeld, GroupsOK, NEW g \in GroupMsg,
         groups' = Append(groups, g), UNCHANGED <<groupHolder, grp>>
  PROVE  GroupHeld'
<1>1. groups # <<>> => groups' # <<>> /\ Head(groups') = Head(groups)
  BY DEF GroupsOK
<1> QED
  BY <1>1 DEF GroupHeld

LEMMA BatchHeld ==
  ASSUME GroupHeld, GrpsOK, OpsOK, NEW p \in Processes, BatchSucceeds(p)
  PROVE  GroupHeld'
<1>1. grp[p].pc # "idle" /\ grp[p].left \in Seq(Users)
  BY LocalTypes DEF BatchSucceeds
<1>2. PICK left : left = SubSeq(grp[p].left, BatchLimit + 1, Len(grp[p].left))
  OBVIOUS
<1>3. Range(left) \subseteq Range(grp[p].left)
  BY <1>1, <1>2, BatchAndRest
<1>4. /\ grp'[p].user = grp[p].user /\ grp'[p].left = left /\ grp'[p].pc # "idle"
      /\ \A q \in Processes \ {p} : grp'[q] = grp[q]
  <2>1. PICK pc \in {"batch", "ack"} : grp' = [grp EXCEPT ![p].left = left, ![p].pc = pc]
    BY <1>2 DEF BatchSucceeds
  <2>2. PICK g \in [pc : {"batch", "ack"}, user : Requesters, left : Seq(Users)] : g = grp[p]
    BY <1>1 DEF GrpsOK, Grp, NoGrp
  <2> QED
    BY <2>1, <2>2 DEF GrpsOK
<1>5. UNCHANGED <<groups, groupHolder>>
  BY DEF BatchSucceeds, queueVars
<1> QED
  BY <1>3, <1>4, <1>5 DEF GroupHeld

LEMMA GroupHeldNext ==
  ASSUME TypeInv, GroupHeld, Next
  PROVE  GroupHeld'
<1> USE DEF TypeInv, QueuesOK, ThreadsOK
<1>0. ASSUME UNCHANGED <<groups, groupHolder, grp>> PROVE GroupHeld'
  BY <1>0 DEF GroupHeld
<1>1. ASSUME NEW key \in Pairs, Vote(key) \/ DeleteRomance(key) PROVE GroupHeld'
  BY <1>0, <1>1 DEF Vote, DeleteRomance, queueVars, processVars
<1>2. ASSUME NEW u \in Requesters, RequestAnswered(u) \/ RequestFails(u) PROVE GroupHeld'
  BY <1>0, <1>2 DEF RequestAnswered, RequestFails, processVars
<1>3. ASSUME DeduplicationEnds \/ VisibilityEnds PROVE GroupHeld'
  BY <1>3, ProcessesAssumption DEF DeduplicationEnds, VisibilityEnds, GroupHeld, processVars
<1>4. ASSUME NEW p \in Processes, DeliverRequest(p) \/ EnumStep(p) PROVE GroupHeld'
  BY <1>0, <1>4 DEF DeliverRequest, EnumStep, Query, QueryFails, SendPeer, SendReturns, queueVars
<1>5. ASSUME NEW p \in Processes, OpStep(p) PROVE GroupHeld'
  <2>1. CASE PublishGroup(p) \/ PublishFails(p)
    <3>1. PICK g \in GroupMsg : g = GroupOf(p)
      BY <2>1, GroupOfType DEF PublishGroup, PublishFails
    <3>2. /\ UNCHANGED groups \/ groups' = Append(groups, g)
          /\ UNCHANGED <<groupHolder, grp>>
      BY <2>1, <3>1 DEF PublishGroup, PublishFails
    <3> QED
      BY <1>0, <3>2, AppendHeld
  <2>2. CASE Receive(p) \/ RangeEnds(p) \/ AckRequest(p) \/ AckRequestLost(p)
    BY <1>0, <2>2 DEF Receive, RangeEnds, AckRequest, AckRequestLost, queueVars
  <2> QED
    BY <1>5, <2>1, <2>2 DEF OpStep
<1>6. ASSUME NEW p \in Processes, DeliverGroup(p) PROVE GroupHeld'
  BY <1>6 DEF DeliverGroup, GroupHeld, GrpsOK
<1>7. ASSUME NEW p \in Processes, GroupStep(p) PROVE GroupHeld'
  <2>1. CASE BatchSucceeds(p)
    BY <2>1, BatchHeld
  <2>2. CASE BatchFails(p) \/ AckGroup(p) \/ AckGroupLost(p)
    BY <2>2, GrpEndsHeld DEF BatchFails, AckGroup, AckGroupLost
  <2> QED
    BY <1>7, <2>1, <2>2 DEF GroupStep
<1>8. ASSUME NEW p \in Processes, Crash(p) PROVE GroupHeld'
  BY <1>8, GrpEndsHeld DEF Crash
<1>9. ASSUME NEW p \in Processes, Cancel(p) \/ Restart(p) PROVE GroupHeld'
  BY <1>0, <1>9 DEF Cancel, Restart, queueVars
<1> QED
  BY <1>1, <1>2, <1>3, <1>4, <1>5, <1>6, <1>7, <1>8, <1>9 DEF Next

\* With the messages in flight at the head of their queues, every step keeps
\* the types.
LEMMA TypeNext ==
  ASSUME TypeInv, RequestHeld, GroupHeld, Next
  PROVE  TypeInv'
<1>1. ASSUME NEW key \in Pairs, Vote(key) \/ DeleteRomance(key) PROVE TypeInv'
  BY <1>1, VoteStepsType
<1>2. ASSUME NEW u \in Requesters, RequestAnswered(u) \/ RequestFails(u) PROVE TypeInv'
  BY <1>2, AskStepsType
<1>3. ASSUME DeduplicationEnds \/ VisibilityEnds PROVE TypeInv'
  BY <1>3, QueueStepsType
<1>4. ASSUME NEW p \in Processes, DeliverRequest(p) \/ EnumStep(p) \/ OpStep(p) PROVE TypeInv'
  BY <1>4, DeliverRequestType, EnumStepsType, OpStepsType
<1>5. ASSUME NEW p \in Processes, DeliverGroup(p) \/ GroupStep(p) PROVE TypeInv'
  BY <1>5, DeliverGroupType, GroupStepsType
<1>6. ASSUME NEW p \in Processes, Crash(p) \/ Cancel(p) \/ Restart(p) PROVE TypeInv'
  BY <1>6, ProcessStepsType
<1> QED
  BY <1>1, <1>2, <1>3, <1>4, <1>5, <1>6 DEF Next

-----------------------------------------------------------------------------
(* The goroutines and their operations                                     *)

ThreadsInv == \A p \in Processes : ThreadInv(p) /\ EnumInv(enum[p])

LEMMA EndOpEnds ==
  ASSUME ThreadsOK, NEW p \in Processes, EndOp(p)
  PROVE  /\ op'[p] = NoOp /\ enum'[p] = NoEnum /\ buf'[p] = <<>>
         /\ \A q \in Processes : q # p => op'[q] = op[q] /\ enum'[q] = enum[q] /\ buf'[q] = buf[q]
BY DEF ThreadsOK, OpsOK, EnumsOK, BufsOK, EndOp

LEMMA EndOpInv ==
  ASSUME ThreadsOK, GrpsOK, ThreadsInv, NEW p \in Processes, EndOp(p), UNCHANGED grp
  PROVE  ThreadsInv'
<1>1. ASSUME NEW q \in Processes, q # p PROVE ThreadInv(q)' /\ EnumInv(enum[q])'
  BY <1>1, EndOpEnds DEF ThreadsInv, ThreadInv, EnumInv
<1>2. ThreadInv(p)' /\ EnumInv(enum[p])'
  BY EndOpEnds DEF ThreadsInv, ThreadInv, EnumInv, NoOp, NoEnum, NoKey
<1> QED
  BY <1>1, <1>2 DEF ThreadsInv

LEMMA QueryReturnsInv ==
  ASSUME NEW e \in Enum, EnumInv(e)
  PROVE  EnumInv(QueryReturns(e)) /\ QueryReturns(e).pc \in {"query", "done"}
BY DEF Enum, EnumInv, QueryReturns

LEMMA PeerSentInv ==
  ASSUME NEW e \in Enum, EnumInv(e), e.pc = "send", NEW peer
  PROVE  EnumInv(PeerSent(e, peer)) /\ PeerSent(e, peer).pc # "none"
<1> PICK rest : rest = e.page \ {peer}
  OBVIOUS
<1>1. CASE rest # {}
  BY <1>1 DEF PeerSent, Enum, EnumInv
<1>2. CASE rest = {} /\ e.next # NoKey
  BY <1>2 DEF PeerSent, Enum, EnumInv
<1>3. CASE rest = {} /\ e.next = NoKey
  BY <1>3, QueryReturnsInv DEF PeerSent
<1> QED
  BY <1>1, <1>2, <1>3

\* What a query leaves the goroutine with.
LEMMA PageSendsInv ==
  ASSUME NEW e \in Enum, EnumInv(e), NEW found, NEW page, NEW next, page # {},
         Page(found, e.index, page, next)
  PROVE  EnumInv([e EXCEPT !.pc = "send", !.page = page, !.next = next])
<1>1. next # NoKey => next.index = e.index
  BY DEF Page
<1> QED
  BY <1>1 DEF EnumInv, Enum

\* A step of a goroutine moves it alone.
LEMMA EnumStepInv ==
  ASSUME TypeInv, ThreadsInv, NEW p \in Processes, EnumStep(p)
  PROVE  ThreadsInv'
<1> PICK e \in Enum : e = enum[p]
  BY DEF TypeInv, ThreadsOK, EnumsOK
<1>1. op[p].pc # "idle" /\ e.pc \in {"query", "send"} /\ EnumInv(e) /\ op[p].pc # "ack"
  BY DEF EnumStep, Query, QueryFails, SendPeer, SendReturns, ThreadsInv, ThreadInv
<1>2. PICK new : /\ enum' = [enum EXCEPT ![p] = new]
                 /\ EnumInv(new) /\ new.pc # "none"
  <2>1. CASE Query(p)
    <3>1. PICK missed, page, next :
            /\ Page(Beyond(op[p].user, e.index, e.start) \ missed, e.index, page, next)
            /\ enum' = [enum EXCEPT ![p] =
                          IF page = {} THEN QueryReturns(e)
                          ELSE [e EXCEPT !.pc = "send", !.page = page, !.next = next]]
      BY <2>1 DEF Query
    <3>2. CASE page = {}
      BY <1>1, <3>1, <3>2, QueryReturnsInv
    <3>3. CASE page # {}
      <4>1. PICK new : new = [e EXCEPT !.pc = "send", !.page = page, !.next = next]
        OBVIOUS
      <4>2. EnumInv(new) /\ new.pc = "send"
        BY <1>1, <3>1, <3>3, <4>1, PageSendsInv DEF Enum
      <4> QED
        BY <3>1, <3>3, <4>1, <4>2
    <3> QED
      BY <3>2, <3>3
  <2>2. CASE QueryFails(p) \/ SendReturns(p)
    BY <1>1, <2>2, QueryReturnsInv DEF QueryFails, SendReturns
  <2>3. CASE SendPeer(p)
    BY <1>1, <2>3, PeerSentInv DEF SendPeer
  <2> QED
    BY <2>1, <2>2, <2>3 DEF EnumStep
<1>3. /\ UNCHANGED <<op, grp>>
      /\ \A q \in Processes : q # p => buf'[q] = buf[q]
  BY DEF EnumStep, Query, QueryFails, SendPeer, SendReturns, TypeInv, ThreadsOK, BufsOK
<1>4. ASSUME NEW q \in Processes, q # p PROVE ThreadInv(q)' /\ EnumInv(enum[q])'
  BY <1>2, <1>3, <1>4 DEF TypeInv, ThreadsOK, EnumsOK, ThreadsInv, ThreadInv, EnumInv
<1>5. enum'[p] = new
  BY <1>2 DEF TypeInv, ThreadsOK, EnumsOK
<1>6. ThreadInv(p)'
  BY <1>1, <1>2, <1>3, <1>5 DEF ThreadsInv, ThreadInv
<1>7. EnumInv(enum[p])'
  BY <1>2, <1>5 DEF EnumInv
<1> QED
  BY <1>4, <1>6, <1>7 DEF ThreadsInv

LEMMA LoopInv ==
  ASSUME TypeInv, ThreadsInv, NEW p \in Processes, Receive(p) \/ RangeEnds(p) \/ PublishGroup(p)
  PROVE  ThreadsInv'
<1> USE DEF TypeInv, ThreadsOK
<1>1. /\ UNCHANGED <<enum, grp>>
      /\ \A q \in Processes : q # p => op'[q] = op[q] /\ buf'[q] = buf[q]
      /\ op'[p].pc # "idle" /\ op[p].pc # "idle"
  <2>1. UNCHANGED <<enum, grp>> /\ \A q \in Processes : q # p => buf'[q] = buf[q]
    BY DEF Receive, RangeEnds, PublishGroup, BufsOK
  <2>2. op[p].pc # "idle"
    BY DEF Receive, RangeEnds, PublishGroup
  <2> QED
    BY <2>1, <2>2, LoopKeepsUser
<1>2. op'[p].pc = "ack" => op'[p].group = <<>> /\ buf'[p] = <<>> /\ enum[p].pc = "done"
  <2>1. CASE Receive(p)
    BY <2>1 DEF Receive, OpsOK
  <2>2. CASE RangeEnds(p)
    BY <2>2 DEF RangeEnds, OpsOK
  <2>3. CASE PublishGroup(p)
    BY <2>3 DEF PublishGroup, OpsOK
  <2> QED
    BY <2>1, <2>2, <2>3
<1>3. ThreadInv(p)'
  BY <1>1, <1>2 DEF ThreadsInv, ThreadInv
<1>4. ASSUME NEW q \in Processes, q # p PROVE ThreadInv(q)'
  BY <1>1, <1>4 DEF ThreadsInv, ThreadInv
<1>5. ASSUME NEW q \in Processes PROVE EnumInv(enum[q])'
  BY <1>1 DEF ThreadsInv, EnumInv
<1> QED
  BY <1>3, <1>4, <1>5 DEF ThreadsInv

LEMMA DeliverRequestInv ==
  ASSUME TypeInv, ThreadsInv, NEW p \in Processes, DeliverRequest(p)
  PROVE  ThreadsInv'
<1> USE DEF TypeInv, ThreadsOK
<1>1. /\ op'[p].pc = "range" /\ enum'[p] = [NoEnum EXCEPT !.pc = "query"]
      /\ UNCHANGED <<buf, grp>>
      /\ \A q \in Processes : q # p => op'[q] = op[q] /\ enum'[q] = enum[q]
  BY DEF DeliverRequest, OpsOK, EnumsOK
<1>2. ThreadInv(p)'
  BY <1>1 DEF ThreadsInv, ThreadInv, NoEnum
<1>3. EnumInv(enum[p])'
  BY <1>1 DEF EnumInv, NoEnum, NoKey
<1>4. ASSUME NEW q \in Processes, q # p PROVE ThreadInv(q)' /\ EnumInv(enum[q])'
  BY <1>1, <1>4 DEF ThreadsInv, ThreadInv, EnumInv
<1> QED
  BY <1>2, <1>3, <1>4 DEF ThreadsInv

\* The handler of a group: its steps disturb nothing else.
LEMMA GrpStepInv ==
  ASSUME TypeInv, ThreadsInv, NEW p \in Processes, UNCHANGED <<op, enum, buf>>,
         \A q \in Processes : q # p => grp'[q] = grp[q],
         grp'[p].pc = "ack" => grp'[p].left = <<>>
  PROVE  ThreadsInv'
<1>1. ASSUME NEW q \in Processes PROVE ThreadInv(q)' /\ EnumInv(enum[q])'
  BY DEF ThreadsInv, ThreadInv, EnumInv
<1> QED
  BY <1>1 DEF ThreadsInv

LEMMA ThreadsNext ==
  ASSUME TypeInv, ThreadsInv, Next
  PROVE  ThreadsInv'
<1> USE DEF TypeInv, ThreadsOK
<1>0. ASSUME UNCHANGED <<op, enum, buf, grp>> PROVE ThreadsInv'
  BY <1>0 DEF ThreadsInv, ThreadInv, EnumInv
<1>1. ASSUME NEW key \in Pairs, Vote(key) \/ DeleteRomance(key) PROVE ThreadsInv'
  BY <1>0, <1>1 DEF Vote, DeleteRomance, processVars
<1>2. ASSUME NEW u \in Requesters, RequestAnswered(u) \/ RequestFails(u) PROVE ThreadsInv'
  BY <1>0, <1>2 DEF RequestAnswered, RequestFails, processVars
<1>3. ASSUME DeduplicationEnds \/ VisibilityEnds PROVE ThreadsInv'
  BY <1>0, <1>3 DEF DeduplicationEnds, VisibilityEnds, processVars
<1>4. ASSUME NEW p \in Processes, DeliverRequest(p) \/ EnumStep(p) PROVE ThreadsInv'
  BY <1>4, DeliverRequestInv, EnumStepInv
<1>5. ASSUME NEW p \in Processes, OpStep(p) PROVE ThreadsInv'
  <2>1. CASE Receive(p) \/ RangeEnds(p) \/ PublishGroup(p)
    BY <2>1, LoopInv
  <2>2. CASE PublishFails(p) \/ AckRequest(p) \/ AckRequestLost(p)
    BY <2>2, EndOpInv DEF PublishFails, AckRequest, AckRequestLost
  <2> QED
    BY <1>5, <2>1, <2>2 DEF OpStep
<1>6. ASSUME NEW p \in Processes, DeliverGroup(p) \/ GroupStep(p) PROVE ThreadsInv'
  <2>1. UNCHANGED <<op, enum, buf>> /\ \A q \in Processes : q # p => grp'[q] = grp[q]
    BY <1>6 DEF DeliverGroup, GroupStep, BatchSucceeds, BatchFails, AckGroup, AckGroupLost, GrpsOK
  <2>2. grp'[p].pc = "ack" => grp'[p].left = <<>>
    <3>1. CASE BatchSucceeds(p)
      BY <3>1 DEF BatchSucceeds, GrpsOK
    <3>2. CASE BatchFails(p) \/ AckGroup(p) \/ AckGroupLost(p)
      BY <3>2 DEF BatchFails, AckGroup, AckGroupLost, GrpsOK, NoGrp
    <3>3. CASE DeliverGroup(p)
      BY <3>3 DEF DeliverGroup, GrpsOK
    <3> QED
      BY <1>6, <3>1, <3>2, <3>3 DEF GroupStep
  <2> QED
    BY <2>1, <2>2, GrpStepInv
<1>7. ASSUME NEW p \in Processes, Crash(p) PROVE ThreadsInv'
  <2>1. EndOp(p) /\ grp' = [grp EXCEPT ![p] = NoGrp]
    BY <1>7 DEF Crash
  <2>2. ASSUME NEW q \in Processes, q # p PROVE ThreadInv(q)' /\ EnumInv(enum[q])'
    BY <2>1, <2>2, EndOpEnds DEF ThreadsInv, ThreadInv, EnumInv, GrpsOK
  <2>3. ThreadInv(p)' /\ EnumInv(enum[p])'
    BY <2>1, EndOpEnds DEF ThreadInv, EnumInv, GrpsOK, NoOp, NoEnum, NoKey, NoGrp
  <2> QED
    BY <2>2, <2>3 DEF ThreadsInv
<1>8. ASSUME NEW p \in Processes, Cancel(p) \/ Restart(p) PROVE ThreadsInv'
  BY <1>0, <1>8 DEF Cancel, Restart
<1> QED
  BY <1>1, <1>2, <1>3, <1>4, <1>5, <1>6, <1>7, <1>8 DEF Next

-----------------------------------------------------------------------------
(* The users who asked                                                     *)

LEMMA AskedNext ==
  ASSUME TypeInv, AskedInv, RequestHeld, GroupHeld, Next
  PROVE  AskedInv'
<1> USE DEF TypeInv, QueuesOK, ThreadsOK
<1> DEFINE Requested == \A i \in DOMAIN requests : requests[i] \in asked
           Grouped == \A i \in DOMAIN groups : groups[i].user \in asked
           OpAsked == \A p \in Processes : op[p].pc # "idle" => op[p].user \in asked
           GrpAsked == \A p \in Processes : grp[p].pc # "idle" => grp[p].user \in asked
<1>1. AskedInv <=> Requested /\ Grouped /\ OpAsked /\ GrpAsked
  BY DEF AskedInv
<1>2. AskedInv' <=> Requested' /\ Grouped' /\ OpAsked' /\ GrpAsked'
  BY DEF AskedInv
<1>3. /\ UNCHANGED <<requests, asked>> => Requested'
      /\ UNCHANGED <<groups, asked>> => Grouped'
      /\ UNCHANGED <<op, asked>> => OpAsked'
      /\ UNCHANGED <<grp, asked>> => GrpAsked'
  BY <1>1
<1> HIDE DEF Requested, Grouped, OpAsked, GrpAsked
<1>4. ASSUME NEW key \in Pairs, Vote(key) \/ DeleteRomance(key) PROVE AskedInv'
  BY <1>2, <1>3, <1>4 DEF Vote, DeleteRomance, queueVars, processVars, historyVars
<1>5. ASSUME NEW u \in Requesters, RequestAnswered(u) \/ RequestFails(u) PROVE AskedInv'
  <2>1. asked' = asked \cup {u} /\ UNCHANGED <<groups, op, grp>>
    BY <1>5 DEF RequestAnswered, RequestFails, processVars
  <2>2. requests' = requests \/ requests' = Append(requests, u)
    BY <1>5 DEF RequestAnswered, RequestFails, Enqueue
  <2>3. Requested'
    BY <1>1, <2>1, <2>2 DEF RequestsOK, Requested
  <2>4. Grouped' /\ OpAsked' /\ GrpAsked'
    BY <1>1, <2>1 DEF Grouped, OpAsked, GrpAsked
  <2> QED
    BY <1>2, <2>3, <2>4
<1>6. ASSUME DeduplicationEnds \/ VisibilityEnds PROVE AskedInv'
  BY <1>2, <1>3, <1>6 DEF DeduplicationEnds, VisibilityEnds, processVars, historyVars
<1>7. ASSUME NEW p \in Processes, DeliverRequest(p) PROVE AskedInv'
  <2>1. OpAsked'
    BY <1>1, <1>7 DEF Requested, OpAsked, DeliverRequest, RequestsOK, OpsOK, historyVars
  <2> QED
    BY <1>2, <1>3, <1>7, <2>1 DEF DeliverRequest, historyVars
<1>8. ASSUME NEW p \in Processes, EnumStep(p) PROVE AskedInv'
  BY <1>2, <1>3, <1>8 DEF EnumStep, Query, QueryFails, SendPeer, SendReturns, queueVars,
     historyVars
<1>9. ASSUME NEW p \in Processes, Receive(p) \/ RangeEnds(p) \/ PublishGroup(p) PROVE AskedInv'
  <2>1. UNCHANGED <<requests, grp, asked>>
    BY <1>9 DEF Receive, RangeEnds, PublishGroup, queueVars, historyVars
  <2>2. op[p].pc # "idle"
    BY <1>9 DEF Receive, RangeEnds, PublishGroup
  <2>3. OpAsked'
    BY <1>1, <1>9, <2>1, <2>2, LoopKeepsUser DEF OpAsked
  <2>4. groups' = groups \/ groups' = Append(groups, GroupOf(p))
    BY <1>9 DEF Receive, RangeEnds, PublishGroup, queueVars
  <2>5. GroupOf(p).user \in asked
    BY <1>1, <2>2 DEF GroupOf, OpAsked
  <2>6. Grouped'
    BY <1>1, <2>1, <2>4, <2>5 DEF Grouped, GroupsOK
  <2> QED
    BY <1>2, <1>3, <2>1, <2>3, <2>6
<1>10. ASSUME NEW p \in Processes, EndOp(p), UNCHANGED asked PROVE OpAsked'
  BY <1>1, <1>10, EndOpEnds DEF OpAsked, NoOp
<1>11. ASSUME NEW p \in Processes, PublishFails(p) PROVE AskedInv'
  <2>1. UNCHANGED <<requests, grp, asked>> /\ EndOp(p)
    BY <1>11 DEF PublishFails, historyVars
  <2>2. groups' = groups \/ groups' = Append(groups, GroupOf(p))
    BY <1>11 DEF PublishFails
  <2>3. GroupOf(p).user \in asked
    BY <1>1, <1>11 DEF GroupOf, OpAsked, PublishFails
  <2>4. Grouped'
    BY <1>1, <2>1, <2>2, <2>3 DEF Grouped, GroupsOK
  <2> QED
    BY <1>2, <1>3, <1>10, <2>1, <2>4
<1>12. ASSUME NEW p \in Processes, AckRequest(p) \/ AckRequestLost(p) PROVE AskedInv'
  <2>1. UNCHANGED <<groups, grp, asked>> /\ EndOp(p)
    BY <1>12 DEF AckRequest, AckRequestLost, historyVars
  <2>2. requests' = requests \/ (requests # <<>> /\ requests' = Tail(requests))
    BY <1>12, ProcessesAssumption DEF AckRequest, AckRequestLost, RequestHeld
  <2>3. Requested'
    BY <1>1, <2>1, <2>2 DEF Requested, RequestsOK
  <2> QED
    BY <1>2, <1>3, <1>10, <2>1, <2>3
<1>13. ASSUME NEW p \in Processes, DeliverGroup(p) PROVE AskedInv'
  <2>1. GrpAsked'
    BY <1>1, <1>13 DEF Grouped, GrpAsked, DeliverGroup, GroupsOK, GrpsOK, historyVars
  <2> QED
    BY <1>2, <1>3, <1>13, <2>1 DEF DeliverGroup, historyVars
<1>14. ASSUME NEW p \in Processes, BatchSucceeds(p) PROVE AskedInv'
  <2>1. GrpAsked'
    BY <1>1, <1>14 DEF GrpAsked, BatchSucceeds, GrpsOK
  <2> QED
    BY <1>2, <1>3, <1>14, <2>1 DEF BatchSucceeds, queueVars
<1>15. ASSUME NEW p \in Processes, grp' = [grp EXCEPT ![p] = NoGrp], UNCHANGED asked
       PROVE GrpAsked'
  BY <1>1, <1>15 DEF GrpAsked, NoGrp, GrpsOK
<1>16. ASSUME NEW p \in Processes, BatchFails(p) \/ AckGroup(p) \/ AckGroupLost(p)
       PROVE AskedInv'
  <2>1. UNCHANGED <<requests, op, asked>> /\ grp' = [grp EXCEPT ![p] = NoGrp]
    BY <1>16 DEF BatchFails, AckGroup, AckGroupLost, historyVars
  <2>2. groups' = groups \/ (groups # <<>> /\ groups' = Tail(groups))
    BY <1>16, ProcessesAssumption DEF BatchFails, AckGroup, AckGroupLost, GroupHeld
  <2>3. Grouped'
    BY <1>1, <2>1, <2>2 DEF Grouped, GroupsOK
  <2> QED
    BY <1>2, <1>3, <1>15, <2>1, <2>3
<1>17. ASSUME NEW p \in Processes, Crash(p) PROVE AskedInv'
  BY <1>2, <1>3, <1>10, <1>15, <1>17 DEF Crash, historyVars
<1>18. ASSUME NEW p \in Processes, Cancel(p) \/ Restart(p) PROVE AskedInv'
  BY <1>2, <1>3, <1>18 DEF Cancel, Restart, queueVars, historyVars
<1> QED
  BY <1>4, <1>5, <1>6, <1>7, <1>8, <1>9, <1>11, <1>12, <1>13, <1>14, <1>16, <1>17, <1>18
     DEF Next, OpStep, GroupStep

-----------------------------------------------------------------------------
(* The pipeline implements the clean-up                                    *)

LEMMA SamePairsOf ==
  ASSUME NEW u
  PROVE  Cleanup!PairsOf(u) = PairsOf(u)
BY DEF PairsOf, Cleanup!PairsOf

\* A fault is no act of a user.
LEMMA SpendIsNoAct ==
  ASSUME UsedOK, NEW f, Spend(f) \/ UNCHANGED used
  PROVE  UNCHANGED used.changes
BY DEF UsedOK, Spend

\* Going on without some of a user's romances is a clean-up step.
LEMMA LetGoCleans ==
  ASSUME TableOK, NEW u \in asked, NEW S, LetGo(KeysOf(u, S)),
         UNCHANGED <<romances, owed, asked>>, UNCHANGED used.changes
  PROVE  Cleanup!CleanupNext
<1>1. PICK pairs \in SUBSET Pairs : pairs = KeysOf(u, S) \cap Pairs
  OBVIOUS
<1>2. \A pair \in pairs : pair \in Cleanup!PairsOf(u)
  BY <1>1, KeyIsPair, SamePairsOf DEF KeysOf
<1>3. owed' \ dropped' = (owed \ dropped) \ pairs
  BY <1>1 DEF LetGo, TableOK
<1>4. Cleanup!Clean(pairs, {})
  BY <1>2, <1>3 DEF Cleanup!Clean
<1> QED
  BY <1>4 DEF Cleanup!CleanupNext

\* Deleting some of a group's romances and letting go of others is one too.
LEMMA RemovalCleans ==
  ASSUME TableOK, NEW u \in asked, NEW removed, NEW given,
         NEW S, removed \subseteq KeysOf(u, S), given \subseteq KeysOf(u, S),
         romances' = romances \ removed, owed' = owed \ removed,
         dropped' = (dropped \ removed) \cup (owed \cap given),
         UNCHANGED asked, UNCHANGED used.changes
  PROVE  Cleanup!CleanupNext
<1>1. PICK pairs \in SUBSET Pairs : pairs = (removed \cup given) \cap Pairs
  OBVIOUS
<1>2. \A pair \in pairs : pair \in Cleanup!PairsOf(u)
  BY <1>1, KeyIsPair, SamePairsOf DEF KeysOf
<1>3. owed' \ dropped' = (owed \ dropped) \ pairs
  BY <1>1 DEF TableOK
<1>4. PICK gone \in SUBSET Pairs : gone = removed \cap Pairs
  OBVIOUS
<1>5. romances' = romances \ gone /\ gone \subseteq pairs
  BY <1>1, <1>4 DEF TableOK
<1>6. Cleanup!Clean(pairs, gone)
  BY <1>2, <1>3, <1>5 DEF Cleanup!Clean
<1> QED
  BY <1>6 DEF Cleanup!CleanupNext

LEMMA CleanupStep ==
  ASSUME TypeInv, AskedInv, ThreadsInv, [Next]_vars
  PROVE  [Cleanup!CleanupNext]_(Cleanup!cleanupVars)
<1> USE DEF TypeInv
<1> DEFINE Goal == [Cleanup!CleanupNext]_(Cleanup!cleanupVars)
<1>0. ASSUME UNCHANGED <<romances, historyVars>>, UNCHANGED used.changes PROVE Goal
  BY <1>0 DEF Cleanup!cleanupVars, historyVars
<1>1. ASSUME NEW key \in Pairs, Vote(key) PROVE Goal
  <2>1. Cleanup!Appear(key)
    BY <1>1 DEF Vote, Change, UsedOK, historyVars, Cleanup!Appear
  <2> QED
    BY <2>1 DEF Cleanup!CleanupNext
<1>2. ASSUME NEW key \in Pairs, DeleteRomance(key) PROVE Goal
  <2>1. Cleanup!Disappear(key)
    BY <1>2 DEF DeleteRomance, Change, UsedOK, Remove, Cleanup!Disappear
  <2> QED
    BY <2>1 DEF Cleanup!CleanupNext
<1>3. ASSUME NEW u \in Requesters, RequestAnswered(u) PROVE Goal
  <2>1. (owed \ dropped)' \in {owed \ dropped, (owed \ dropped) \cup (romances \cap PairsOf(u))}
    BY <1>3 DEF RequestAnswered, TableOK
  <2>2. UNCHANGED used.changes
    BY <1>3 DEF RequestAnswered, UsedOK
  <2>3. u \in Users /\ Cleanup!Ask(u)
    BY <1>3, <2>1, <2>2, SamePairsOf, RequestersAssumption DEF RequestAnswered, Cleanup!Ask
  <2> QED
    BY <2>3 DEF Cleanup!CleanupNext
<1>4. ASSUME NEW u \in Requesters, RequestFails(u) PROVE Goal
  <2>1. u \in Users /\ Cleanup!Ask(u)
    BY <1>4, SpendIsNoAct, RequestersAssumption DEF RequestFails, Cleanup!Ask
  <2> QED
    BY <2>1 DEF Cleanup!CleanupNext
<1>5. ASSUME DeduplicationEnds \/ VisibilityEnds PROVE Goal
  BY <1>0, <1>5, SpendIsNoAct DEF DeduplicationEnds, VisibilityEnds
<1>6. ASSUME NEW p \in Processes, DeliverRequest(p) \/ DeliverGroup(p) PROVE Goal
  BY <1>0, <1>6 DEF DeliverRequest, DeliverGroup
<1>7. ASSUME NEW p \in Processes, EnumStep(p) PROVE Goal
  <2>1. CASE SendPeer(p)
    BY <1>0, <2>1 DEF SendPeer
  <2>2. CASE Query(p) \/ QueryFails(p) \/ SendReturns(p)
    <3>1. PICK S : LetGo(KeysOf(op[p].user, S))
      BY <2>2 DEF Query, QueryFails, SendReturns
    <3>2. UNCHANGED <<romances, owed, asked>> /\ UNCHANGED used.changes
      BY <2>2, SpendIsNoAct DEF Query, QueryFails, SendReturns
    <3>3. op[p].user \in asked
      BY <2>2 DEF Query, QueryFails, SendReturns, AskedInv, ThreadsInv, ThreadInv
    <3> QED
      BY <3>1, <3>2, <3>3, LetGoCleans
  <2> QED
    BY <1>7, <2>1, <2>2 DEF EnumStep
<1>8. ASSUME NEW p \in Processes, OpStep(p) PROVE Goal
  <2>1. CASE PublishGroup(p) /\ UNCHANGED dropped
    BY <1>0, <2>1 DEF PublishGroup, historyVars
  <2>2. CASE PublishGroup(p) /\ ~UNCHANGED dropped
    <3>1. LetGo(KeysOf(op[p].user, Range(op[p].group)))
      BY <2>2 DEF PublishGroup, GroupKeys, GroupOf, LetGo
    <3>2. UNCHANGED <<romances, owed, asked, used>> /\ op[p].user \in asked
      BY <2>2 DEF PublishGroup, AskedInv
    <3> QED
      BY <3>1, <3>2, LetGoCleans
  <2>3. CASE Receive(p) \/ RangeEnds(p) \/ PublishFails(p) \/ AckRequest(p) \/ AckRequestLost(p)
    BY <1>0, <2>3, SpendIsNoAct DEF Receive, RangeEnds, PublishFails, AckRequest, AckRequestLost
  <2> QED
    BY <1>8, <2>1, <2>2, <2>3 DEF OpStep
<1>9. ASSUME NEW p \in Processes, BatchSucceeds(p) PROVE Goal
  <2>0. PICK unprocessed \in SUBSET Batch(grp[p].left) :
          \E removed, given :
            /\ removed = KeysOf(grp[p].user, Batch(grp[p].left) \ unprocessed)
            /\ given = KeysOf(grp[p].user, unprocessed)
            /\ romances' = romances \ removed /\ owed' = owed \ removed
            /\ dropped' = (dropped \ removed) \cup (owed \cap given)
    BY <1>9 DEF BatchSucceeds
  <2>1. PICK removed, given :
          /\ removed = KeysOf(grp[p].user, Batch(grp[p].left) \ unprocessed)
          /\ given = KeysOf(grp[p].user, unprocessed)
          /\ romances' = romances \ removed /\ owed' = owed \ removed
          /\ dropped' = (dropped \ removed) \cup (owed \cap given)
    BY <2>0
  <2>2. /\ removed \subseteq KeysOf(grp[p].user, Batch(grp[p].left))
        /\ given \subseteq KeysOf(grp[p].user, Batch(grp[p].left))
    BY <2>1 DEF KeysOf
  <2>3. grp[p].user \in asked /\ UNCHANGED asked /\ UNCHANGED used.changes
    BY <1>9, SpendIsNoAct DEF BatchSucceeds, AskedInv
  <2> QED
    BY <2>1, <2>2, <2>3, RemovalCleans
<1>10. ASSUME NEW p \in Processes, BatchFails(p) PROVE Goal
  <2>1. PICK done : Remove(KeysOf(grp[p].user, done))
    BY <1>10 DEF BatchFails
  <2>2. grp[p].user \in asked /\ UNCHANGED asked /\ UNCHANGED used.changes
    BY <1>10, SpendIsNoAct DEF BatchFails, AskedInv
  <2>3. PICK removed : removed = KeysOf(grp[p].user, done)
    OBVIOUS
  <2>4. /\ romances' = romances \ removed /\ owed' = owed \ removed
        /\ dropped' = (dropped \ removed) \cup (owed \cap {})
    BY <2>1, <2>3 DEF Remove
  <2>5. removed \subseteq KeysOf(grp[p].user, done) /\ {} \subseteq KeysOf(grp[p].user, done)
    BY <2>3
  <2> QED
    BY <2>2, <2>4, <2>5, RemovalCleans
<1>11. ASSUME NEW p \in Processes, AckGroup(p) \/ AckGroupLost(p) PROVE Goal
  BY <1>0, <1>11, SpendIsNoAct DEF AckGroup, AckGroupLost
<1>12. ASSUME NEW p \in Processes, Crash(p) \/ Cancel(p) \/ Restart(p) PROVE Goal
  BY <1>0, <1>12, SpendIsNoAct DEF Crash, Cancel, Restart
<1>13. CASE UNCHANGED vars
  BY <1>0, <1>13 DEF vars
<1> QED
  BY <1>1, <1>2, <1>3, <1>4, <1>5, <1>6, <1>7, <1>8, <1>9, <1>10, <1>11, <1>12, <1>13
     DEF Next, GroupStep

-----------------------------------------------------------------------------
(* No peer is skipped                                                      *)

LEMMA AheadInOtherIndex ==
  ASSUME NEW e \in Enum, EnumInv(e), e.index = "pk", NEW u, NEW peer, peer < u
  PROVE  Ahead(QueryReturns(e), u, peer)
<1>1. e.start.index # "gsi"
  BY DEF EnumInv
<1> QED
  BY <1>1 DEF QueryReturns, Ahead, InIndex, After, Enum

LEMMA AheadOfPeerSent ==
  ASSUME NEW e \in Enum, EnumInv(e), e.pc = "send", NEW u, NEW sent, NEW peer,
         Ahead(e, u, peer), peer # sent
  PROVE  Ahead(PeerSent(e, sent), u, peer)
<1> PICK rest : rest = e.page \ {sent}
  OBVIOUS
<1>1. CASE rest # {}
  <2>1. PICK new : new = [e EXCEPT !.page = rest]
    OBVIOUS
  <2>2. /\ new.pc = e.pc /\ new.index = e.index /\ new.next = e.next
        /\ new.page = rest /\ PeerSent(e, sent) = new
    BY <1>1, <2>1 DEF Enum, PeerSent
  <2> QED
    BY <2>2 DEF Ahead
<1>2. CASE rest = {} /\ e.next # NoKey
  <2>1. PICK new : new = [e EXCEPT !.pc = "query", !.page = {}, !.start = e.next, !.next = NoKey]
    OBVIOUS
  <2>2. /\ new.pc = "query" /\ new.index = e.index /\ new.start = e.next
        /\ PeerSent(e, sent) = new
    BY <1>2, <2>1 DEF Enum, PeerSent
  <2> QED
    BY <1>2, <2>2 DEF Ahead
<1>3. CASE rest = {} /\ e.next = NoKey
  <2>1. PeerSent(e, sent) = QueryReturns(e) /\ e.index = "pk" /\ peer < u
    BY <1>3 DEF PeerSent, Ahead
  <2> QED
    BY <2>1, AheadInOtherIndex
<1> QED
  BY <1>1, <1>2, <1>3

LEMMA AheadIsBeyond ==
  ASSUME NEW u, NEW index \in {"pk", "gsi"}, NEW start, NEW peer \in Users,
         KeyOf(u, peer) \in romances, InIndex(u, index, peer), After(start, index, peer)
  PROVE  peer \in Beyond(u, index, start)
BY DEF Beyond, PeersIn, InIndex, After

\* What a full page does not hold comes after its last peer.
LEMMA AheadOfQuery ==
  ASSUME NEW e \in Enum, EnumInv(e), e.pc = "query", NEW u, NEW peer \in Users,
         Ahead(e, u, peer), KeyOf(u, peer) \in romances,
         NEW missed, peer \notin missed, NEW page, NEW next,
         Page(Beyond(u, e.index, e.start) \ missed, e.index, page, next)
  PROVE  Ahead(IF page = {} THEN QueryReturns(e)
               ELSE [e EXCEPT !.pc = "send", !.page = page, !.next = next], u, peer)
<1>1. e.index \in {"pk", "gsi"}
  BY DEF Enum
<1> PICK found : found = Beyond(u, e.index, e.start) \ missed
  OBVIOUS
<1>2. CASE page = {}
  <2>1. found = {}
    BY <1>2 DEF Page
  <2>2. e.index = "pk" /\ peer < u
    BY <1>1, <2>1, AheadIsBeyond DEF Ahead
  <2> QED
    BY <1>2, <2>2, AheadInOtherIndex
<1>3. CASE page # {}
  <2>1. PICK new : new = [e EXCEPT !.pc = "send", !.page = page, !.next = next]
    OBVIOUS
  <2>2. new.pc = "send" /\ new.index = e.index /\ new.page = page /\ new.next = next
    BY <2>1 DEF Enum
  <2>3. Ahead(new, u, peer)
    <3>1. CASE e.index = "pk" /\ peer < u
      BY <2>2, <3>1 DEF Ahead
    <3>2. CASE peer \in page
      BY <2>2, <3>2 DEF Ahead
    <3>3. CASE ~(e.index = "pk" /\ peer < u) /\ peer \notin page
      <4>1. InIndex(u, e.index, peer) /\ peer \in found \ page
        BY <1>1, <3>3, AheadIsBeyond DEF Ahead
      <4>2. PICK last \in page : next = [index |-> e.index, peer |-> last]
        BY <4>1 DEF Page
      <4>3. last < peer /\ last \in Users
        BY <4>1, <4>2 DEF Page, Beyond, PeersIn
      <4>4. last \in Int /\ peer \in Int
        BY <4>3, UsersAreIntegers
      <4>5. next # NoKey
        BY <1>1, <4>2 DEF NoKey
      <4> QED
        BY <2>2, <4>1, <4>2, <4>3, <4>4, <4>5 DEF Ahead, After
    <3> QED
      BY <3>1, <3>2, <3>3
  <2> QED
    BY <1>3, <2>1, <2>3
<1> QED
  BY <1>2, <1>3

\* A query that is given up leaves only the other index ahead.
LEMMA AheadOfFailure ==
  ASSUME TypeInv, ThreadsInv, NEW p \in Processes, enum[p].pc \in {"query", "send"},
         NEW peer \in Users, Ahead(enum[p], op[p].user, peer),
         KeyOf(op[p].user, peer) \in romances, peer \notin LeftOfQuery(p)
  PROVE  Ahead(QueryReturns(enum[p]), op[p].user, peer)
<1> PICK e \in Enum : e = enum[p]
  BY DEF TypeInv, ThreadsOK, EnumsOK
<1>1. e.index \in {"pk", "gsi"} /\ EnumInv(e)
  BY DEF Enum, ThreadsInv
<1>2. e.index = "pk" /\ peer < op[p].user
  BY <1>1, AheadIsBeyond DEF Ahead, LeftOfQuery
<1> QED
  BY <1>1, <1>2, AheadInOtherIndex

\* A step of the goroutine of p keeps what is coming, but for what it lets go of.
LEMMA EnumStepComes ==
  ASSUME TypeInv, ThreadsInv, NEW p \in Processes, EnumStep(p),
         NEW peer \in Coming(p), KeyOf(op[p].user, peer) \in owed' \ dropped'
  PROVE  peer \in Coming(p)'
<1> USE DEF TypeInv, ThreadsOK
<1> PICK e \in Enum : e = enum[p]
  BY DEF EnumsOK
<1> PICK u : u = op[p].user
  OBVIOUS
<1>1. EnumInv(e) /\ peer \in Users
  BY DEF ThreadsInv, Coming
<1>2. UNCHANGED <<romances, owed, op>>
  BY DEF EnumStep, Query, QueryFails, SendPeer, SendReturns, historyVars
<1>3. KeyOf(u, peer) \in romances
  BY <1>2 DEF TableOK
<1>4. CASE peer \in Range(op[p].group)
  BY <1>1, <1>2, <1>4 DEF Coming
<1>5. CASE peer \in Range(buf[p])
  <2>1. peer \in Range(buf'[p])
    <3>1. CASE SendPeer(p)
      <4>1. PICK sent \in Users : buf' = [buf EXCEPT ![p] = Append(@, sent)]
        BY <3>1 DEF SendPeer, Enum
      <4>2. buf[p] \in Seq(Users) /\ buf'[p] = Append(buf[p], sent)
        BY <4>1 DEF BufsOK
      <4> QED
        BY <1>5, <4>2, RangeOfAppend
    <3>2. CASE UNCHANGED buf
      BY <1>5, <3>2
    <3> QED
      BY <3>1, <3>2 DEF EnumStep, Query, QueryFails, SendReturns
  <2> QED
    BY <1>1, <2>1 DEF Coming
<1>6. CASE Ahead(e, u, peer)
  <2>1. CASE Query(p)
    <3>1. PICK missed, page, next :
            /\ Page(Beyond(u, e.index, e.start) \ missed, e.index, page, next)
            /\ enum' = [enum EXCEPT ![p] =
                          IF page = {} THEN QueryReturns(e)
                          ELSE [e EXCEPT !.pc = "send", !.page = page, !.next = next]]
            /\ LetGo(KeysOf(u, missed))
      BY <2>1 DEF Query
    <3>2. peer \notin missed /\ e.pc = "query"
      BY <2>1, <3>1, <1>2 DEF LetGo, KeysOf, Query
    <3>3. PICK new : new = IF page = {} THEN QueryReturns(e)
                           ELSE [e EXCEPT !.pc = "send", !.page = page, !.next = next]
      OBVIOUS
    <3>4. Ahead(new, u, peer)
      BY <1>1, <1>3, <1>6, <3>1, <3>2, <3>3, AheadOfQuery
    <3>5. enum'[p] = new /\ op'[p].user = u
      BY <1>2, <3>1, <3>3 DEF EnumsOK
    <3> QED
      BY <1>1, <3>4, <3>5 DEF Coming
  <2>2. CASE QueryFails(p) \/ SendReturns(p)
    <3>1. /\ LetGo(KeysOf(u, LeftOfQuery(p))) /\ e.pc \in {"query", "send"}
          /\ enum'[p] = QueryReturns(e)
      BY <2>2 DEF QueryFails, SendReturns, EnumsOK
    <3>2. peer \notin LeftOfQuery(p)
      BY <1>2, <3>1 DEF LetGo, KeysOf
    <3>3. Ahead(QueryReturns(e), u, peer)
      BY <1>1, <1>3, <1>6, <3>1, <3>2, AheadOfFailure
    <3> QED
      BY <1>1, <1>2, <3>1, <3>3 DEF Coming
  <2>3. CASE SendPeer(p)
    <3>1. PICK sent \in Users : /\ buf' = [buf EXCEPT ![p] = Append(@, sent)]
                                /\ enum' = [enum EXCEPT ![p] = PeerSent(@, sent)]
      BY <2>3 DEF SendPeer, Enum
    <3>2. /\ buf[p] \in Seq(Users) /\ buf'[p] = Append(buf[p], sent)
          /\ enum'[p] = PeerSent(e, sent) /\ e.pc = "send"
      BY <2>3, <3>1 DEF BufsOK, EnumsOK, SendPeer
    <3>3. CASE peer = sent
      BY <1>1, <3>2, <3>3, RangeOfAppend DEF Coming
    <3>4. CASE peer # sent
      BY <1>1, <1>2, <1>6, <3>2, <3>4, AheadOfPeerSent DEF Coming
    <3> QED
      BY <3>3, <3>4
  <2> QED
    BY <2>1, <2>2, <2>3 DEF EnumStep
<1> QED
  BY <1>4, <1>5, <1>6 DEF Coming

-----------------------------------------------------------------------------
(* No owed romance is lost                                                 *)

\* What a step leaves alone stays on its way.
LEMMA StaysOnItsWay ==
  ASSUME NEW key
  PROVE  /\ UNCHANGED <<requests, requestHolder>> /\ WaitingRequest(key) => WaitingRequest(key)'
         /\ UNCHANGED <<requestHolder, op, enum, buf>> /\ Enumerated(key) => Enumerated(key)'
         /\ UNCHANGED <<groups, groupHolder>> /\ WaitingGroup(key) => WaitingGroup(key)'
         /\ UNCHANGED <<groupHolder, grp>> /\ Deleted(key) => Deleted(key)'
BY DEF WaitingRequest, Enumerated, WaitingGroup, Deleted, Coming, Ahead

\* A message that is appended is the first only when none is in flight.
LEMMA EnqueueWaits ==
  ASSUME TypeInv, RequestHeld, NEW u \in Requesters, Enqueue(u), UNCHANGED requestHolder, NEW key
  PROVE  /\ WaitingRequest(key) => WaitingRequest(key)'
         /\ key \in PairsOf(u) => WaitingRequest(key)'
<1>1. requests \in Seq(Requesters) /\ requests' = Append(requests, u)
  BY DEF TypeInv, QueuesOK, RequestsOK, Enqueue
<1>2. ASSUME WaitingRequest(key) PROVE WaitingRequest(key)'
  BY <1>1, <1>2 DEF WaitingRequest
<1>3. ASSUME key \in PairsOf(u) PROVE WaitingRequest(key)'
  <2>1. Len(requests) + 1 \in DOMAIN requests' /\ requests'[Len(requests) + 1] = u
    BY <1>1
  <2>2. Len(requests) + 1 > 1 \/ requestHolder = NoProcess
    BY <1>1 DEF RequestHeld, TypeInv, QueuesOK, HoldersOK
  <2> QED
    BY <1>3, <2>1, <2>2 DEF WaitingRequest
<1> QED
  BY <1>2, <1>3

LEMMA AppendWaits ==
  ASSUME TypeInv, GroupHeld, NEW g \in GroupMsg, groups' = Append(groups, g),
         UNCHANGED groupHolder, NEW key
  PROVE  /\ WaitingGroup(key) => WaitingGroup(key)'
         /\ key \in GroupKeys(g) => WaitingGroup(key)'
<1>1. groups \in Seq(GroupMsg)
  BY DEF TypeInv, QueuesOK, GroupsOK
<1>2. ASSUME WaitingGroup(key) PROVE WaitingGroup(key)'
  BY <1>1, <1>2 DEF WaitingGroup
<1>3. ASSUME key \in GroupKeys(g) PROVE WaitingGroup(key)'
  <2>1. Len(groups) + 1 \in DOMAIN groups' /\ groups'[Len(groups) + 1] = g
    BY <1>1
  <2>2. Len(groups) + 1 > 1 \/ groupHolder = NoProcess
    BY <1>1 DEF GroupHeld, TypeInv, QueuesOK, HoldersOK
  <2> QED
    BY <1>3, <2>1, <2>2 DEF WaitingGroup
<1> QED
  BY <1>2, <1>3

\* What a process has in hand is in the message it holds.
LEMMA InHandIsInMessage ==
  ASSUME TypeInv, RequestHeld, GroupHeld, NEW key \in Pairs
  PROVE  /\ Enumerated(key) => 1 \in DOMAIN requests /\ key \in PairsOf(requests[1])
         /\ Deleted(key) => 1 \in DOMAIN groups /\ key \in GroupKeys(groups[1])
<1>1. ASSUME Enumerated(key) PROVE 1 \in DOMAIN requests /\ key \in PairsOf(requests[1])
  <2>1. /\ requests \in Seq(Requesters) /\ requests # <<>>
        /\ op[requestHolder].user = requests[1]
    BY <1>1 DEF Enumerated, RequestHeld, TypeInv, QueuesOK, RequestsOK
  <2> QED
    BY <1>1, <2>1, KeyIsPair DEF Enumerated, KeysOf
<1>2. ASSUME Deleted(key) PROVE 1 \in DOMAIN groups /\ key \in GroupKeys(groups[1])
  <2>1. /\ groups \in Seq(GroupMsg) /\ groups # <<>>
        /\ grp[groupHolder].user = groups[1].user
        /\ Range(grp[groupHolder].left) \subseteq Range(groups[1].peers)
    BY <1>2 DEF Deleted, GroupHeld, TypeInv, QueuesOK, GroupsOK
  <2> QED
    BY <1>2, <2>1 DEF Deleted, GroupKeys, KeysOf
<1> QED
  BY <1>1, <1>2

\* An operation that ends without the acknowledgement leaves it to the request.
LEMMA RequestComesAgain ==
  ASSUME TypeInv, RequestHeld, GroupHeld, NEW p \in Processes, EndOp(p),
         requestHolder' = Release(requestHolder, p), UNCHANGED requests,
         NEW key \in Pairs, WaitingRequest(key) \/ Enumerated(key)
  PROVE  WaitingRequest(key)' \/ Enumerated(key)'
<1>1. CASE WaitingRequest(key)
  BY <1>1 DEF WaitingRequest, Release
<1>2. CASE Enumerated(key) /\ requestHolder = p
  BY <1>2, InHandIsInMessage DEF WaitingRequest, Release
<1>3. CASE Enumerated(key) /\ requestHolder # p
  <2>1. PICK q \in Processes : q = requestHolder /\ q = requestHolder'
    BY <1>3 DEF Enumerated, Release
  <2>2. op'[q] = op[q] /\ enum'[q] = enum[q] /\ buf'[q] = buf[q]
    BY <1>3, <2>1, EndOpEnds DEF TypeInv
  <2> QED
    BY <1>3, <2>1, <2>2 DEF Enumerated, Coming
<1> QED
  BY <1>1, <1>2, <1>3

LEMMA GroupComesAgain ==
  ASSUME TypeInv, RequestHeld, GroupHeld, NEW p \in Processes, grp' = [grp EXCEPT ![p] = NoGrp],
         groupHolder' = Release(groupHolder, p), UNCHANGED groups,
         NEW key \in Pairs, WaitingGroup(key) \/ Deleted(key)
  PROVE  WaitingGroup(key)' \/ Deleted(key)'
<1>1. CASE WaitingGroup(key)
  BY <1>1 DEF WaitingGroup, Release
<1>2. CASE Deleted(key) /\ groupHolder = p
  BY <1>2, InHandIsInMessage DEF WaitingGroup, Release
<1>3. CASE Deleted(key) /\ groupHolder # p
  <2>1. PICK q \in Processes : q = groupHolder /\ q = groupHolder' /\ grp'[q] = grp[q]
    BY <1>3 DEF Deleted, Release, TypeInv, GrpsOK
  <2> QED
    BY <1>3, <2>1 DEF Deleted
<1> QED
  BY <1>1, <1>2, <1>3

\* With the acknowledgement nothing was in hand any more, and the others wait.
LEMMA AckRequestKeeps ==
  ASSUME TypeInv, RequestHeld, GroupHeld, ThreadsInv, NEW p \in Processes, AckRequest(p),
         NEW key \in Pairs, WaitingRequest(key) \/ Enumerated(key)
  PROVE  WaitingRequest(key)' \/ Enumerated(key)'
<1> USE DEF TypeInv, QueuesOK, RequestsOK
<1>1. CASE requestHolder # p
  BY <1>1, RequestComesAgain DEF AckRequest
<1>2. CASE requestHolder = p
  <2>1. op[p].group = <<>> /\ buf[p] = <<>> /\ enum[p].pc = "done"
    BY DEF AckRequest, ThreadsInv, ThreadInv
  <2>2. Coming(p) = {}
    BY <2>1 DEF Coming, Range, Ahead
  <2>3. ~Enumerated(key) /\ requests # <<>>
    BY <1>2, <2>2 DEF Enumerated, KeysOf, RequestHeld
  <2>4. PICK i \in DOMAIN requests : key \in PairsOf(requests[i]) /\ i > 1
    BY <1>2, <2>3, ProcessesAssumption DEF WaitingRequest
  <2>5. /\ requests' = Tail(requests) /\ requestHolder' = NoProcess
        /\ i - 1 \in DOMAIN Tail(requests) /\ Tail(requests)[i - 1] = requests[i]
    BY <1>2, <2>3, <2>4 DEF AckRequest, Release
  <2> QED
    BY <2>4, <2>5 DEF WaitingRequest
<1> QED
  BY <1>1, <1>2

LEMMA AckGroupKeeps ==
  ASSUME TypeInv, RequestHeld, GroupHeld, ThreadsInv, NEW p \in Processes, AckGroup(p),
         NEW key \in Pairs, WaitingGroup(key) \/ Deleted(key)
  PROVE  WaitingGroup(key)' \/ Deleted(key)'
<1> USE DEF TypeInv, QueuesOK, GroupsOK
<1>1. CASE groupHolder # p
  BY <1>1, GroupComesAgain DEF AckGroup
<1>2. CASE groupHolder = p
  <2>1. grp[p].left = <<>>
    BY DEF AckGroup, ThreadsInv, ThreadInv
  <2>2. ~Deleted(key) /\ groups # <<>>
    BY <1>2, <2>1 DEF Deleted, KeysOf, Range, GroupHeld
  <2>3. PICK i \in DOMAIN groups : key \in GroupKeys(groups[i]) /\ i > 1
    BY <1>2, <2>2, ProcessesAssumption DEF WaitingGroup
  <2>4. /\ groups' = Tail(groups) /\ groupHolder' = NoProcess
        /\ i - 1 \in DOMAIN Tail(groups) /\ Tail(groups)[i - 1] = groups[i]
    BY <1>2, <2>2, <2>3 DEF AckGroup, Release
  <2> QED
    BY <2>3, <2>4 DEF WaitingGroup
<1> QED
  BY <1>1, <1>2

\* A delivered message is enumerated, or deleted, from its start.
LEMMA DeliverRequestKeeps ==
  ASSUME TypeInv, ThreadsInv, NEW p \in Processes, DeliverRequest(p),
         NEW key, WaitingRequest(key) \/ Enumerated(key)
  PROVE  WaitingRequest(key)' \/ Enumerated(key)'
<1>1. ~Enumerated(key)
  BY ProcessesAssumption DEF DeliverRequest, Enumerated
<1>2. PICK i \in DOMAIN requests : key \in PairsOf(requests[i])
  BY <1>1 DEF WaitingRequest
<1>3. CASE i > 1
  BY <1>2, <1>3 DEF WaitingRequest, DeliverRequest
<1>4. CASE ~(i > 1)
  <2>1. requests \in Seq(Requesters)
    BY DEF TypeInv, QueuesOK, RequestsOK
  <2>2. PICK u \in Users : u = Head(requests) /\ key \in PairsOf(u)
    BY <1>2, <1>4, <2>1, RequestersAssumption DEF DeliverRequest
  <2>3. PICK peer \in Users : peer # u /\ key = KeyOf(u, peer)
    BY <2>2, PairHasPeer
  <2>4. /\ requestHolder' = p /\ op'[p].user = u /\ enum'[p] = [NoEnum EXCEPT !.pc = "query"]
    BY <2>2 DEF DeliverRequest, TypeInv, ThreadsOK, OpsOK, EnumsOK
  <2>5. Ahead(enum'[p], u, peer)
    BY <2>3, <2>4, UsersAreIntegers DEF Ahead, InIndex, After, NoEnum, NoKey
  <2>6. peer \in Coming(p)'
    BY <2>4, <2>5 DEF Coming
  <2> QED
    BY <2>3, <2>4, <2>6 DEF Enumerated, KeysOf
<1> QED
  BY <1>3, <1>4

LEMMA DeliverGroupKeeps ==
  ASSUME TypeInv, NEW p \in Processes, DeliverGroup(p),
         NEW key, WaitingGroup(key) \/ Deleted(key)
  PROVE  WaitingGroup(key)' \/ Deleted(key)'
<1>1. ~Deleted(key)
  BY ProcessesAssumption DEF DeliverGroup, Deleted
<1>2. PICK i \in DOMAIN groups : key \in GroupKeys(groups[i])
  BY <1>1 DEF WaitingGroup
<1>3. CASE i > 1
  BY <1>2, <1>3 DEF WaitingGroup, DeliverGroup
<1>4. CASE ~(i > 1)
  <2>1. key \in GroupKeys(Head(groups))
    BY <1>2, <1>4 DEF TypeInv, QueuesOK, GroupsOK, DeliverGroup
  <2>2. /\ groupHolder' = p
        /\ grp'[p].user = Head(groups).user /\ grp'[p].left = Head(groups).peers
    BY DEF DeliverGroup, TypeInv, GrpsOK
  <2> QED
    BY <2>1, <2>2 DEF Deleted, GroupKeys
<1> QED
  BY <1>3, <1>4

LEMMA EnumStepKeeps ==
  ASSUME TypeInv, ThreadsInv, NEW p \in Processes, EnumStep(p),
         NEW key \in owed' \ dropped', Enumerated(key)
  PROVE  Enumerated(key)'
<1>1. /\ UNCHANGED <<requestHolder, op>>
      /\ \A q \in Processes : q # p => buf'[q] = buf[q] /\ enum'[q] = enum[q]
  BY DEF EnumStep, Query, QueryFails, SendPeer, SendReturns, queueVars, TypeInv, ThreadsOK, BufsOK,
     EnumsOK
<1>2. CASE requestHolder = p
  <2>1. PICK peer \in Coming(p) : key = KeyOf(op[p].user, peer)
    BY <1>2 DEF Enumerated, KeysOf
  <2>2. peer \in Coming(p)'
    BY <2>1, EnumStepComes
  <2> QED
    BY <1>1, <1>2, <2>1, <2>2 DEF Enumerated, KeysOf
<1>3. CASE requestHolder # p
  <2>1. PICK q \in Processes : q = requestHolder /\ q # p
    BY <1>3 DEF Enumerated
  <2> QED
    BY <1>1, <2>1 DEF Enumerated, Coming
<1> QED
  BY <1>2, <1>3

\* The range loop moves peers from the channel to the group, and a full group to
\* the second topic, unless the topic drops it as a duplicate.
LEMMA LoopKeeps ==
  ASSUME TypeInv, RequestHeld, GroupHeld, ThreadsInv, NEW p \in Processes,
         Receive(p) \/ RangeEnds(p) \/ PublishGroup(p),
         NEW key \in owed' \ dropped', Enumerated(key)
  PROVE  Enumerated(key)' \/ WaitingGroup(key)'
<1> USE DEF TypeInv, ThreadsOK
<1>1. /\ UNCHANGED <<requestHolder, enum>>
      /\ \A q \in Processes : q # p => op'[q] = op[q] /\ buf'[q] = buf[q]
      /\ op'[p].user = op[p].user
  <2>1. UNCHANGED <<requestHolder, enum>> /\ \A q \in Processes : q # p => buf'[q] = buf[q]
    BY DEF Receive, RangeEnds, PublishGroup, BufsOK, queueVars
  <2> QED
    BY <2>1, LoopKeepsUser
<1>2. CASE requestHolder # p
  <2>1. PICK q \in Processes : q = requestHolder /\ q # p
    BY <1>2 DEF Enumerated
  <2> QED
    BY <1>1, <2>1 DEF Enumerated, Coming
<1>3. CASE requestHolder = p
  <2>1. PICK peer \in Coming(p) : key = KeyOf(op[p].user, peer)
    BY <1>3 DEF Enumerated, KeysOf
  <2>2. peer \in Coming(p)' => Enumerated(key)'
    BY <1>1, <1>3, <2>1 DEF Enumerated, KeysOf
  <2>3. peer \in Users /\ (Ahead(enum[p], op[p].user, peer) => peer \in Coming(p)')
    BY <1>1, <2>1 DEF Coming
  <2>4. op[p].group \in Seq(Users) /\ buf[p] \in Seq(Users)
    BY IdleTypes DEF BufsOK
  <2>5. CASE Receive(p)
    <3>1. PICK head : head = Head(buf[p]) /\ head \in Users
      BY <2>4, <2>5, TailType DEF Receive
    <3>2. op'[p].group = Append(op[p].group, head)
      BY <2>4, <2>5, <3>1 DEF Receive, OpsOK, Op, NoOp
    <3>3. buf'[p] = Tail(buf[p]) /\ buf[p] # <<>>
      BY <2>5 DEF Receive, BufsOK
    <3>4. peer \in Range(op[p].group) \/ peer = head => peer \in Range(op'[p].group)
      BY <2>4, <3>1, <3>2, RangeOfAppend
    <3>5. peer \in Range(buf[p]) /\ peer # head => peer \in Range(buf'[p])
      BY <2>4, <3>1, <3>3, RangeOfParts
    <3>6. peer \in Coming(p)'
      BY <2>1, <2>3, <3>4, <3>5 DEF Coming
    <3> QED
      BY <2>2, <3>6
  <2>6. CASE RangeEnds(p)
    <3>1. op'[p].group = op[p].group /\ buf' = buf
      BY <2>6 DEF RangeEnds, OpsOK
    <3> QED
      BY <1>1, <2>1, <2>2, <3>1 DEF Coming
  <2>7. CASE PublishGroup(p)
    <3>1. peer \in Range(buf[p]) => peer \in Coming(p)'
      BY <2>3, <2>7 DEF PublishGroup, Coming
    <3>2. CASE peer \in Range(op[p].group)
      <4>1. key \in GroupKeys(GroupOf(p)) /\ UNCHANGED <<groupHolder, owed>>
        BY <2>1, <2>7, <3>2 DEF GroupKeys, GroupOf, KeysOf, PublishGroup
      <4>2. PICK g \in GroupMsg : g = GroupOf(p)
        BY <2>7, GroupOfType DEF PublishGroup
      <4>3. CASE groups' = Append(groups, g)
        BY <4>1, <4>2, <4>3, AppendWaits
      <4>4. CASE LetGo(IF WaitsInQueue(g) THEN {} ELSE GroupKeys(g)) /\ UNCHANGED groups
        <5>1. WaitsInQueue(g)
          BY <4>1, <4>2, <4>4 DEF LetGo
        <5> QED
          BY <4>1, <4>2, <4>4, <5>1 DEF WaitsInQueue, WaitingGroup
      <4> QED
        BY <2>7, <4>2, <4>3, <4>4 DEF PublishGroup
    <3> QED
      BY <2>1, <2>2, <2>3, <3>1, <3>2 DEF Coming
  <2> QED
    BY <2>5, <2>6, <2>7
<1> QED
  BY <1>2, <1>3

LEMMA BatchKeeps ==
  ASSUME TypeInv, NEW p \in Processes, BatchSucceeds(p),
         NEW key \in owed' \ dropped', Deleted(key)
  PROVE  Deleted(key)'
<1> USE DEF TypeInv, ThreadsOK
<1>1. PICK left : left = SubSeq(grp[p].left, BatchLimit + 1, Len(grp[p].left))
  OBVIOUS
<1>2. grp[p].left \in Seq(Users) /\ grp[p].pc # "idle"
  BY LocalTypes DEF BatchSucceeds
<1>3. Range(grp[p].left) = Batch(grp[p].left) \cup Range(left)
  BY <1>1, <1>2, BatchAndRest
<1>4. /\ grp'[p].user = grp[p].user /\ grp'[p].left = left
      /\ \A q \in Processes : q # p => grp'[q] = grp[q]
      /\ UNCHANGED groupHolder
  <2>1. PICK pc \in {"batch", "ack"} : grp' = [grp EXCEPT ![p].left = left, ![p].pc = pc]
    BY <1>1 DEF BatchSucceeds
  <2>2. PICK g \in [pc : {"batch", "ack"}, user : Requesters, left : Seq(Users)] : g = grp[p]
    BY <1>2 DEF GrpsOK, Grp, NoGrp
  <2>3. UNCHANGED groupHolder
    BY DEF BatchSucceeds, queueVars
  <2> QED
    BY <2>1, <2>2, <2>3 DEF GrpsOK
<1>5. key \notin KeysOf(grp[p].user, Batch(grp[p].left))
  <2>0. PICK unprocessed \in SUBSET Batch(grp[p].left) :
          \E removed, given :
            /\ removed = KeysOf(grp[p].user, Batch(grp[p].left) \ unprocessed)
            /\ given = KeysOf(grp[p].user, unprocessed)
            /\ owed' = owed \ removed
            /\ dropped' = (dropped \ removed) \cup (owed \cap given)
    BY DEF BatchSucceeds
  <2>1. PICK removed, given :
          /\ removed = KeysOf(grp[p].user, Batch(grp[p].left) \ unprocessed)
          /\ given = KeysOf(grp[p].user, unprocessed)
          /\ owed' = owed \ removed
          /\ dropped' = (dropped \ removed) \cup (owed \cap given)
    BY <2>0
  <2>2. KeysOf(grp[p].user, Batch(grp[p].left)) \subseteq removed \cup given
    BY <2>1 DEF KeysOf
  <2> QED
    BY <2>1, <2>2
<1>6. CASE groupHolder = p
  BY <1>3, <1>4, <1>5, <1>6 DEF Deleted, KeysOf
<1>7. CASE groupHolder # p
  BY <1>4, <1>7 DEF Deleted
<1> QED
  BY <1>6, <1>7

\* A request that is answered is queued, or waits already, or is a duplicate of
\* one under way: then what became owed since is let go of.
LEMMA AnsweredKeeps ==
  ASSUME TypeInv, RequestHeld, LossInv, NEW u \in Requesters, RequestAnswered(u),
         NEW key \in owed' \ dropped'
  PROVE  OnItsWay(key)'
<1>1. UNCHANGED <<groups, requestHolder, groupHolder, processVars>>
  BY DEF RequestAnswered
<1>2. owed' = owed \cup (romances \cap PairsOf(u))
  BY DEF RequestAnswered
<1>3. CASE Enqueue(u) /\ dropped' = dropped \ PairsOf(u)
  <2>1. CASE key \in PairsOf(u)
    BY <1>1, <1>3, <2>1, EnqueueWaits DEF OnItsWay
  <2>2. CASE key \notin PairsOf(u)
    <3>1. OnItsWay(key)
      BY <1>2, <1>3, <2>2 DEF LossInv
    <3> QED
      BY <1>1, <1>3, <3>1, EnqueueWaits, StaysOnItsWay DEF OnItsWay, processVars
  <2> QED
    BY <2>1, <2>2
<1>4. ASSUME UNCHANGED requests, OnItsWay(key) PROVE OnItsWay(key)'
  BY <1>1, <1>4, StaysOnItsWay DEF OnItsWay, processVars
<1>5. CASE WaitsForUser(u) /\ dropped' = dropped \ PairsOf(u) /\ UNCHANGED requests
  <2>1. CASE key \in PairsOf(u)
    <3>1. WaitingRequest(key)
      BY <1>5, <2>1 DEF WaitsForUser, WaitingRequest
    <3> QED
      BY <1>4, <1>5, <3>1 DEF OnItsWay
  <2>2. CASE key \notin PairsOf(u)
    BY <1>2, <1>4, <1>5, <2>2 DEF LossInv
  <2> QED
    BY <2>1, <2>2
<1>6. CASE dropped' = dropped \cup ((romances \ owed) \cap PairsOf(u)) /\ UNCHANGED requests
  BY <1>2, <1>4, <1>6 DEF LossInv
<1> QED
  BY <1>3, <1>5, <1>6 DEF RequestAnswered

LEMMA LossNext ==
  ASSUME TypeInv, TypeInv', RequestHeld, GroupHeld, ThreadsInv, LossInv, Next
  PROVE  LossInv'
<1> SUFFICES ASSUME NEW key \in owed' \ dropped' PROVE OnItsWay(key)'
  BY DEF LossInv
<1>1. key \in Pairs
  BY DEF TypeInv, TableOK
<1> DEFINE Requests == WaitingRequest(key) \/ Enumerated(key)
           Groups == WaitingGroup(key) \/ Deleted(key)
<1>2. /\ UNCHANGED <<requests, requestHolder, op, enum, buf>> /\ Requests => Requests'
      /\ UNCHANGED <<groups, groupHolder, grp>> /\ Groups => Groups'
  BY StaysOnItsWay
<1>3. ASSUME NEW u \in Requesters, RequestAnswered(u) PROVE OnItsWay(key)'
  BY <1>3, AnsweredKeeps
<1>4. ASSUME key \in owed \ dropped PROVE Requests \/ Groups
  BY <1>4 DEF LossInv, OnItsWay
<1>5. Requests' \/ Groups' => OnItsWay(key)'
  BY DEF OnItsWay
<1>6. ASSUME NEW k \in Pairs, Vote(k) \/ DeleteRomance(k) PROVE Requests' \/ Groups'
  <2>1. key \in owed \ dropped
    BY <1>6 DEF Vote, DeleteRomance, Remove, historyVars
  <2> QED
    BY <1>2, <1>4, <1>6, <2>1 DEF Vote, DeleteRomance, queueVars, processVars
<1>7. ASSUME NEW u \in Requesters, RequestFails(u) PROVE Requests' \/ Groups'
  <2>1. Requests \/ Groups
    BY <1>4, <1>7 DEF RequestFails
  <2>2. UNCHANGED <<requestHolder, groups, groupHolder, op, enum, buf, grp>> /\ Enqueue(u)
    BY <1>7 DEF RequestFails, processVars
  <2>3. Requests => Requests'
    BY <2>2, EnqueueWaits, StaysOnItsWay
  <2> QED
    BY <1>2, <2>1, <2>2, <2>3
<1>8. ASSUME DeduplicationEnds PROVE Requests' \/ Groups'
  BY <1>2, <1>4, <1>8 DEF DeduplicationEnds, historyVars, processVars
<1>9. ASSUME VisibilityEnds PROVE Requests' \/ Groups'
  <2>1. Requests \/ Groups
    BY <1>4, <1>9 DEF VisibilityEnds, historyVars
  <2>2. UNCHANGED <<requests, groups, op, enum, buf, grp>>
    BY <1>9 DEF VisibilityEnds, processVars
  <2>3. Requests => Requests'
    <3>1. CASE UNCHANGED requestHolder
      BY <1>2, <2>2, <3>1
    <3>2. CASE requestHolder' = NoProcess
      BY <1>1, <2>2, <3>2, InHandIsInMessage DEF WaitingRequest
    <3> QED
      BY <1>9, <3>1, <3>2 DEF VisibilityEnds
  <2>4. Groups => Groups'
    <3>1. CASE UNCHANGED groupHolder
      BY <1>2, <2>2, <3>1
    <3>2. CASE groupHolder' = NoProcess
      BY <1>1, <2>2, <3>2, InHandIsInMessage DEF WaitingGroup
    <3> QED
      BY <1>9, <3>1, <3>2 DEF VisibilityEnds
  <2> QED
    BY <2>1, <2>3, <2>4
<1>10. ASSUME NEW p \in Processes, DeliverRequest(p) PROVE Requests' \/ Groups'
  <2>1. Requests \/ Groups
    BY <1>4, <1>10 DEF DeliverRequest, historyVars
  <2> QED
    BY <1>2, <1>10, <2>1, DeliverRequestKeeps DEF DeliverRequest
<1>11. ASSUME NEW p \in Processes, EnumStep(p) PROVE Requests' \/ Groups'
  <2>1. key \in owed \ dropped
    BY <1>11 DEF EnumStep, Query, QueryFails, SendPeer, SendReturns, LetGo, historyVars
  <2>2. UNCHANGED <<requests, requestHolder, groups, groupHolder, grp>>
    BY <1>11 DEF EnumStep, Query, QueryFails, SendPeer, SendReturns, queueVars
  <2>3. Requests => Requests'
    BY <1>11, <2>2, EnumStepKeeps, StaysOnItsWay
  <2> QED
    BY <1>2, <1>4, <2>1, <2>2, <2>3
<1>12. ASSUME NEW p \in Processes, Receive(p) \/ RangeEnds(p) \/ PublishGroup(p)
       PROVE Requests' \/ Groups'
  <2>1. key \in owed \ dropped
    BY <1>12 DEF Receive, RangeEnds, PublishGroup, LetGo, historyVars
  <2>2. UNCHANGED <<requests, requestHolder, groupHolder, grp>>
    BY <1>12 DEF Receive, RangeEnds, PublishGroup, queueVars
  <2>3. Requests => Requests' \/ Groups'
    BY <1>12, <2>2, LoopKeeps, StaysOnItsWay
  <2>4. Groups => Groups'
    <3>1. CASE UNCHANGED groups
      BY <1>2, <2>2, <3>1
    <3>2. CASE PublishGroup(p) /\ groups' = Append(groups, GroupOf(p))
      <4>1. GroupOf(p) \in GroupMsg
        BY <3>2, GroupOfType DEF PublishGroup, TypeInv, ThreadsOK
      <4> QED
        BY <2>2, <3>2, <4>1, AppendWaits, StaysOnItsWay
    <3> QED
      BY <1>12, <3>1, <3>2 DEF Receive, RangeEnds, PublishGroup, queueVars
  <2> QED
    BY <1>4, <2>1, <2>3, <2>4
<1>13. ASSUME NEW p \in Processes, PublishFails(p) PROVE Requests' \/ Groups'
  <2>1. Requests \/ Groups
    BY <1>4, <1>13 DEF PublishFails, historyVars
  <2>2. Requests => Requests'
    BY <1>1, <1>13, RequestComesAgain DEF PublishFails
  <2>3. UNCHANGED <<groupHolder, grp>>
    BY <1>13 DEF PublishFails
  <2>4. Groups => Groups'
    <3>1. CASE UNCHANGED groups
      BY <1>2, <2>3, <3>1
    <3>2. CASE groups' = Append(groups, GroupOf(p))
      <4>1. GroupOf(p) \in GroupMsg
        BY <1>13, GroupOfType DEF PublishFails, TypeInv, ThreadsOK
      <4> QED
        BY <2>3, <3>2, <4>1, AppendWaits, StaysOnItsWay
    <3> QED
      BY <1>13, <3>1, <3>2 DEF PublishFails
  <2> QED
    BY <2>1, <2>2, <2>4
<1>14. ASSUME NEW p \in Processes, AckRequest(p) \/ AckRequestLost(p) PROVE Requests' \/ Groups'
  <2>1. Requests \/ Groups
    BY <1>4, <1>14 DEF AckRequest, AckRequestLost, historyVars
  <2>2. Requests => Requests'
    BY <1>1, <1>14, AckRequestKeeps, RequestComesAgain DEF AckRequestLost
  <2>3. UNCHANGED <<groups, groupHolder, grp>>
    BY <1>14 DEF AckRequest, AckRequestLost
  <2> QED
    BY <1>2, <2>1, <2>2, <2>3
<1>15. ASSUME NEW p \in Processes, DeliverGroup(p) PROVE Requests' \/ Groups'
  <2>1. Requests \/ Groups
    BY <1>4, <1>15 DEF DeliverGroup, historyVars
  <2> QED
    BY <1>2, <1>15, <2>1, DeliverGroupKeeps DEF DeliverGroup
<1>16. ASSUME NEW p \in Processes, GroupStep(p) PROVE Requests' \/ Groups'
  <2>1. key \in owed \ dropped
    BY <1>16 DEF GroupStep, BatchSucceeds, BatchFails, AckGroup, AckGroupLost, Remove, historyVars
  <2>2. UNCHANGED <<requests, requestHolder, op, enum, buf>>
    BY <1>16 DEF GroupStep, BatchSucceeds, BatchFails, AckGroup, AckGroupLost, queueVars
  <2>3. CASE BatchSucceeds(p)
    <3>1. UNCHANGED <<groups, groupHolder>>
      BY <2>3 DEF BatchSucceeds, queueVars
    <3> QED
      BY <1>2, <1>4, <2>1, <2>2, <2>3, <3>1, BatchKeeps, StaysOnItsWay
  <2>4. CASE BatchFails(p) \/ AckGroupLost(p)
    <3>1. Groups => Groups'
      BY <1>1, <2>4, GroupComesAgain DEF BatchFails, AckGroupLost
    <3> QED
      BY <1>2, <1>4, <2>1, <2>2, <3>1
  <2>5. CASE AckGroup(p)
    <3>1. Groups => Groups'
      BY <1>1, <2>5, AckGroupKeeps
    <3> QED
      BY <1>2, <1>4, <2>1, <2>2, <3>1
  <2> QED
    BY <1>16, <2>3, <2>4, <2>5 DEF GroupStep
<1>17. ASSUME NEW p \in Processes, Crash(p) PROVE Requests' \/ Groups'
  <2>1. Requests \/ Groups
    BY <1>4, <1>17 DEF Crash, historyVars
  <2>2. /\ Requests => Requests'
        /\ Groups => Groups'
    BY <1>1, <1>17, RequestComesAgain, GroupComesAgain DEF Crash
  <2> QED
    BY <2>1, <2>2
<1>18. ASSUME NEW p \in Processes, Cancel(p) \/ Restart(p) PROVE Requests' \/ Groups'
  BY <1>2, <1>4, <1>18 DEF Cancel, Restart, queueVars, historyVars
<1> QED
  BY <1>3, <1>5, <1>6, <1>7, <1>8, <1>9, <1>10, <1>11, <1>12, <1>13, <1>14, <1>15, <1>16,
     <1>17, <1>18 DEF Next, OpStep

-----------------------------------------------------------------------------
(* No peer is sent twice                                                   *)

LEMMA DistinctParts ==
  ASSUME NEW S, NEW s \in Seq(S), Distinct(s)
  PROVE  /\ \A x \in S : x \notin Range(s) => Distinct(Append(s, x))
         /\ s # <<>> => /\ Distinct(Tail(s)) /\ Head(s) \in Range(s)
                        /\ Range(Tail(s)) \subseteq Range(s) \ {Head(s)}
<1>1. ASSUME NEW x \in S, x \notin Range(s) PROVE Distinct(Append(s, x))
  BY <1>1 DEF Distinct, Range
<1>2. ASSUME s # <<>> PROVE Distinct(Tail(s)) /\ Head(s) \in Range(s)
  BY <1>2 DEF Distinct, Range
<1>3. ASSUME s # <<>>, NEW x \in Range(Tail(s)) PROVE x \in Range(s) /\ x # Head(s)
  <2>1. PICK i \in DOMAIN Tail(s) : x = Tail(s)[i]
    BY <1>3 DEF Range
  <2>2. i + 1 \in DOMAIN s /\ 1 \in DOMAIN s /\ x = s[i + 1] /\ i + 1 # 1 /\ Head(s) = s[1]
    BY <1>3, <2>1
  <2> QED
    BY <2>2 DEF Distinct, Range
<1> QED
  BY <1>1, <1>2, <1>3

LEMMA EmptyIsDistinct ==
  Distinct(<<>>) /\ Range(<<>>) = {} /\ Len(<<>>) = 0
BY DEF Distinct, Range

LEMMA QueryReturnsPassed ==
  ASSUME NEW e \in Enum, NEW u, NEW peer, e.index = "pk" => ~(peer < u)
  PROVE  ~Ahead(QueryReturns(e), u, peer) /\ PageInv(u, QueryReturns(e))
<1>1. CASE e.index = "pk"
  <2>1. QueryReturns(e).pc = "query" /\ QueryReturns(e).index = "gsi"
    BY <1>1 DEF QueryReturns, Enum
  <2> QED
    BY <1>1, <2>1 DEF Ahead, InIndex, PageInv
<1>2. CASE e.index # "pk"
  <2>1. QueryReturns(e).pc = "done"
    BY <1>2 DEF QueryReturns, Enum
  <2> QED
    BY <2>1 DEF Ahead, PageInv
<1> QED
  BY <1>1, <1>2

LEMMA PeerSentPassed ==
  ASSUME NEW e \in Enum, EnumInv(e), e.pc = "send", NEW u \in Users, PageInv(u, e),
         NEW sent \in e.page, NEW peer \in Users, peer = sent \/ ~Ahead(e, u, peer)
  PROVE  ~Ahead(PeerSent(e, sent), u, peer) /\ PageInv(u, PeerSent(e, sent))
<1> PICK rest : rest = e.page \ {sent}
  OBVIOUS
<1>1. u \in Int /\ peer \in Int /\ sent \in Int
  BY UsersAreIntegers DEF Enum
<1>2. /\ e.index = "pk" => ~(peer < u)
      /\ peer \notin rest
  BY <1>1 DEF Ahead, PageInv, InIndex
<1>3. e.next # NoKey /\ InIndex(u, e.index, peer) => ~After(e.next, e.index, peer)
  <2>1. CASE peer # sent
    BY <2>1 DEF Ahead
  <2>2. CASE peer = sent /\ e.next # NoKey
    <3>1. e.next.peer \in Int /\ e.next.index = e.index
      BY <2>2, UsersAreIntegers DEF Enum, EnumInv, StartKey
    <3> QED
      BY <1>1, <2>2, <3>1 DEF PageInv, After
  <2> QED
    BY <2>1, <2>2
<1>4. CASE rest # {}
  <2>1. PICK new : new = [e EXCEPT !.page = rest]
    OBVIOUS
  <2>2. /\ new.pc = "send" /\ new.index = e.index /\ new.next = e.next
        /\ new.page = rest /\ PeerSent(e, sent) = new
    BY <1>4, <2>1 DEF Enum, PeerSent
  <2> QED
    BY <1>2, <1>3, <2>2 DEF Ahead, PageInv
<1>5. CASE rest = {} /\ e.next # NoKey
  <2>1. PICK new : new = [e EXCEPT !.pc = "query", !.page = {}, !.start = e.next, !.next = NoKey]
    OBVIOUS
  <2>2. /\ new.pc = "query" /\ new.index = e.index /\ new.start = e.next
        /\ PeerSent(e, sent) = new
    BY <1>5, <2>1 DEF Enum, PeerSent
  <2> QED
    BY <1>2, <1>3, <1>5, <2>2 DEF Ahead, PageInv
<1>6. CASE rest = {} /\ e.next = NoKey
  <2>1. PeerSent(e, sent) = QueryReturns(e)
    BY <1>6 DEF PeerSent
  <2> QED
    BY <1>2, <2>1, QueryReturnsPassed
<1> QED
  BY <1>4, <1>5, <1>6

\* A page holds what is beyond the start key, so nothing that was sent before.
LEMMA QueryPassed ==
  ASSUME NEW e \in Enum, e.pc = "query", NEW u \in Users, NEW page, NEW next, NEW missed, page # {},
         Page(Beyond(u, e.index, e.start) \ missed, e.index, page, next)
  PROVE  /\ PageInv(u, [e EXCEPT !.pc = "send", !.page = page, !.next = next])
         /\ \A peer \in Users : ~Ahead(e, u, peer) =>
              ~Ahead([e EXCEPT !.pc = "send", !.page = page, !.next = next], u, peer)
<1> PICK new : new = [e EXCEPT !.pc = "send", !.page = page, !.next = next]
  OBVIOUS
<1>1. /\ new.pc = "send" /\ new.index = e.index /\ new.page = page /\ new.next = next
      /\ e.index \in {"pk", "gsi"}
  BY DEF Enum
<1>2. \A x \in page : x \in Users /\ InIndex(u, e.index, x) /\ After(e.start, e.index, x)
  BY <1>1 DEF Page, Beyond, PeersIn, InIndex, After
<1>3. next # NoKey => next.peer \in page /\ \A x \in page : x <= next.peer
  BY DEF Page
<1>4. PageInv(u, new)
  BY <1>1, <1>2, <1>3 DEF PageInv
<1>5. ASSUME NEW peer \in Users, ~Ahead(e, u, peer) PROVE ~Ahead(new, u, peer)
  <2>1. peer \notin page
    BY <1>2, <1>5 DEF Ahead
  <2>2. next # NoKey /\ InIndex(u, e.index, peer) => ~After(next, e.index, peer)
    <3> SUFFICES ASSUME next # NoKey, InIndex(u, e.index, peer) PROVE ~After(next, e.index, peer)
      OBVIOUS
    <3>1. ~After(e.start, e.index, peer)
      BY <1>5 DEF Ahead
    <3>2. PICK last \in Users : last = next.peer /\ After(e.start, e.index, last)
      BY <1>2, <1>3
    <3>3. next.index = e.index
      BY DEF Page
    <3>4. e.start.peer \in Int /\ peer \in Int /\ last \in Int
      BY <3>1, UsersAreIntegers DEF Enum, StartKey, NoKey
    <3> QED
      BY <3>1, <3>2, <3>3, <3>4 DEF After
  <2> QED
    BY <1>1, <1>5, <2>1, <2>2 DEF Ahead
<1> QED
  BY <1>4, <1>5

SendsInv == \A p \in Processes : SentInv(p) /\ PageInv(op[p].user, enum[p])

\* An idle process has sent nothing.
LEMMA NothingSent ==
  ASSUME NEW p, op[p].group = <<>>, op[p].pc \in {"idle", "range"}, buf[p] = <<>>,
         enum[p].pc # "send"
  PROVE  SentInv(p) /\ PageInv(op[p].user, enum[p])
BY EmptyIsDistinct, LimitsArePositive DEF SentInv, PageInv, Sent

LEMMA SendsKept ==
  ASSUME SendsInv, NEW q \in Processes, op'[q] = op[q], enum'[q] = enum[q], buf'[q] = buf[q]
  PROVE  SentInv(q)' /\ PageInv(op[q].user, enum[q])'
BY DEF SendsInv, SentInv, PageInv, Sent, Ahead

LEMMA EndOpSends ==
  ASSUME TypeInv, SendsInv, NEW p \in Processes, EndOp(p)
  PROVE  SendsInv'
<1>1. op'[p] = NoOp /\ enum'[p] = NoEnum /\ buf'[p] = <<>>
  BY EndOpEnds DEF TypeInv
<1>2. (SentInv(p) /\ PageInv(op[p].user, enum[p]))'
  BY <1>1, EmptyIsDistinct, LimitsArePositive DEF SentInv, PageInv, Sent, NoOp, NoEnum
<1>3. ASSUME NEW q \in Processes, q # p PROVE (SentInv(q) /\ PageInv(op[q].user, enum[q]))'
  BY <1>3, EndOpEnds, SendsKept DEF TypeInv
<1> QED
  BY <1>2, <1>3 DEF SendsInv

LEMMA DeliverRequestSends ==
  ASSUME TypeInv, ThreadsInv, SendsInv, NEW p \in Processes, DeliverRequest(p)
  PROVE  SendsInv'
<1> USE DEF TypeInv, ThreadsOK
<1>1. /\ op'[p].group = <<>> /\ op'[p].pc = "range" /\ enum'[p].pc = "query" /\ buf'[p] = <<>>
      /\ \A q \in Processes : q # p => op'[q] = op[q] /\ enum'[q] = enum[q]
      /\ UNCHANGED buf
  BY DEF DeliverRequest, OpsOK, EnumsOK, NoEnum, ThreadsInv, ThreadInv
<1>2. (SentInv(p) /\ PageInv(op[p].user, enum[p]))'
  BY <1>1, EmptyIsDistinct, LimitsArePositive DEF SentInv, PageInv, Sent
<1>3. ASSUME NEW q \in Processes, q # p PROVE (SentInv(q) /\ PageInv(op[q].user, enum[q]))'
  BY <1>1, <1>3, SendsKept
<1> QED
  BY <1>2, <1>3 DEF SendsInv

LEMMA EnumStepSends ==
  ASSUME TypeInv, ThreadsInv, SendsInv, NEW p \in Processes, EnumStep(p)
  PROVE  SendsInv'
<1> USE DEF TypeInv, ThreadsOK
<1> PICK e \in Enum : e = enum[p]
  BY DEF EnumsOK
<1> PICK u : u = op[p].user
  OBVIOUS
<1>1. op[p].pc # "idle" /\ e.pc \in {"query", "send"} /\ EnumInv(e)
  BY DEF EnumStep, Query, QueryFails, SendPeer, SendReturns, ThreadsInv, ThreadInv
<1>2. u \in Users /\ u \in Int /\ op[p].group \in Seq(Users) /\ buf[p] \in Seq(Users)
  BY <1>1, LocalTypes, RequestersAssumption, UsersAreIntegers DEF BufsOK
<1>3. Sent(p) \subseteq Users
  BY <1>2, RangeType DEF Sent
<1>4. SentInv(p) /\ PageInv(u, e)
  BY DEF SendsInv
<1>5. UNCHANGED op /\ \A q \in Processes : q # p => enum'[q] = enum[q] /\ buf'[q] = buf[q]
  BY DEF EnumStep, Query, QueryFails, SendPeer, SendReturns, BufsOK, EnumsOK
<1>6. ASSUME UNCHANGED buf, PageInv(u, enum'[p]),
             \A peer \in Sent(p) : ~Ahead(enum'[p], u, peer)
      PROVE  (SentInv(p) /\ PageInv(op[p].user, enum[p]))'
  BY <1>4, <1>5, <1>6 DEF SentInv, Sent
<1>7. \A peer \in Sent(p) : e.index = "pk" => ~(peer < u)
  BY <1>1, <1>4 DEF SentInv, Ahead
<1>8. PageInv(u, QueryReturns(e))
  BY DEF QueryReturns, PageInv, Enum
<1>9. \A peer \in Sent(p) : ~Ahead(QueryReturns(e), u, peer)
  BY <1>7, QueryReturnsPassed
<1>10. (SentInv(p) /\ PageInv(op[p].user, enum[p]))'
  <2>1. CASE Query(p)
    <3>1. PICK missed, page, next :
            /\ Page(Beyond(u, e.index, e.start) \ missed, e.index, page, next)
            /\ enum' = [enum EXCEPT ![p] =
                          IF page = {} THEN QueryReturns(e)
                          ELSE [e EXCEPT !.pc = "send", !.page = page, !.next = next]]
      BY <2>1 DEF Query
    <3>2. CASE page = {}
      <4>1. enum'[p] = QueryReturns(e) /\ UNCHANGED buf
        BY <2>1, <3>1, <3>2 DEF Query, EnumsOK
      <4> QED
        BY <1>6, <1>8, <1>9, <4>1
    <3>3. CASE page # {}
      <4>1. PICK new : new = [e EXCEPT !.pc = "send", !.page = page, !.next = next]
        OBVIOUS
      <4>2. enum'[p] = new /\ UNCHANGED buf /\ e.pc = "query"
        BY <2>1, <3>1, <3>3, <4>1 DEF Query, EnumsOK
      <4>3. PageInv(u, new) /\ \A peer \in Users : ~Ahead(e, u, peer) => ~Ahead(new, u, peer)
        <5>1. /\ PageInv(u, [e EXCEPT !.pc = "send", !.page = page, !.next = next])
              /\ \A peer \in Users : ~Ahead(e, u, peer) =>
                   ~Ahead([e EXCEPT !.pc = "send", !.page = page, !.next = next], u, peer)
          BY <1>2, <3>1, <3>3, <4>2, QueryPassed
        <5> QED
          BY <4>1, <5>1
      <4>4. \A peer \in Sent(p) : ~Ahead(new, u, peer)
        BY <1>3, <1>4, <4>3 DEF SentInv
      <4> QED
        BY <1>6, <4>2, <4>3, <4>4
    <3> QED
      BY <3>2, <3>3
  <2>2. CASE QueryFails(p) \/ SendReturns(p)
    <3>1. enum'[p] = QueryReturns(e) /\ UNCHANGED buf
      BY <2>2 DEF QueryFails, SendReturns, EnumsOK
    <3> QED
      BY <1>6, <1>8, <1>9, <3>1
  <2>3. CASE SendPeer(p)
    <3>1. PICK sent \in e.page : /\ buf' = [buf EXCEPT ![p] = Append(@, sent)]
                                 /\ enum' = [enum EXCEPT ![p] = PeerSent(@, sent)]
      BY <2>3 DEF SendPeer
    <3>2. /\ buf'[p] = Append(buf[p], sent) /\ enum'[p] = PeerSent(e, sent) /\ e.pc = "send"
          /\ sent \in Users
      BY <2>3, <3>1 DEF BufsOK, EnumsOK, Enum, SendPeer
    <3>3. Ahead(e, u, sent) /\ sent # u
      <4>1. sent \in Int /\ InIndex(u, e.index, sent)
        BY <1>4, <3>2, UsersAreIntegers DEF PageInv
      <4> QED
        BY <1>2, <3>2, <4>1 DEF Ahead, InIndex
    <3>4. sent \notin Sent(p)
      BY <1>4, <3>3 DEF SentInv
    <3>5. Distinct(Append(buf[p], sent)) /\ Range(Append(buf[p], sent)) = Range(buf[p]) \cup {sent}
      BY <1>2, <1>4, <3>2, <3>4, DistinctParts, RangeOfAppend DEF SentInv, Sent
    <3>6. PageInv(u, PeerSent(e, sent))
      BY <1>1, <1>2, <1>4, <3>2, PeerSentPassed
    <3>7. \A peer \in Sent(p) \cup {sent} : peer # u /\ ~Ahead(PeerSent(e, sent), u, peer)
      BY <1>1, <1>2, <1>3, <1>4, <3>2, <3>3, PeerSentPassed DEF SentInv
    <3>8. Sent(p)' = Sent(p) \cup {sent}
      BY <1>5, <3>2, <3>5 DEF Sent
    <3>9. SentInv(p)'
      BY <1>4, <1>5, <3>2, <3>4, <3>5, <3>7, <3>8 DEF SentInv, Sent
    <3> QED
      BY <1>5, <3>2, <3>6, <3>9
  <2> QED
    BY <2>1, <2>2, <2>3 DEF EnumStep
<1>11. ASSUME NEW q \in Processes, q # p PROVE (SentInv(q) /\ PageInv(op[q].user, enum[q]))'
  BY <1>5, <1>11, SendsKept
<1> QED
  BY <1>10, <1>11 DEF SendsInv

LEMMA LoopSends ==
  ASSUME TypeInv, ThreadsInv, SendsInv, NEW p \in Processes,
         Receive(p) \/ RangeEnds(p) \/ PublishGroup(p)
  PROVE  SendsInv'
<1> USE DEF TypeInv, ThreadsOK
<1>1. /\ UNCHANGED enum
      /\ \A q \in Processes : q # p => op'[q] = op[q] /\ buf'[q] = buf[q]
      /\ op'[p].user = op[p].user
  <2>1. UNCHANGED enum /\ \A q \in Processes : q # p => buf'[q] = buf[q]
    BY DEF Receive, RangeEnds, PublishGroup, BufsOK, queueVars
  <2> QED
    BY <2>1, LoopKeepsUser
<1>2. /\ op[p].group \in Seq(Users) /\ buf[p] \in Seq(Users)
      /\ SentInv(p) /\ PageInv(op[p].user, enum[p])
  BY IdleTypes DEF BufsOK, SendsInv
<1>3. SentInv(p)'
  <2>1. CASE Receive(p)
    <3>1. PICK head : head = Head(buf[p]) /\ head \in Users
      BY <1>2, <2>1, TailType DEF Receive
    <3>2. op'[p].group = Append(op[p].group, head)
      BY <2>1, <3>1 DEF Receive, OpsOK, Op, NoOp
    <3>3. buf'[p] = Tail(buf[p]) /\ buf[p] # <<>> /\ op[p].pc = "range"
      BY <2>1 DEF Receive, BufsOK
    <3>4. /\ op'[p].pc = "publish" => Len(op'[p].group) = GroupLimit
          /\ op'[p].pc = "range" => Len(op'[p].group) # GroupLimit
      BY <2>1 DEF Receive, OpsOK
    <3>5. /\ Distinct(buf'[p]) /\ head \in Range(buf[p])
          /\ Range(buf'[p]) \subseteq Range(buf[p]) \ {head}
      BY <1>2, <3>1, <3>3, DistinctParts DEF SentInv
    <3>6. head \notin Range(op[p].group)
      BY <1>2, <3>5 DEF SentInv
    <3>7. /\ Distinct(op'[p].group)
          /\ Range(op'[p].group) = Range(op[p].group) \cup {head}
          /\ Len(op'[p].group) = Len(op[p].group) + 1 /\ op'[p].group # <<>>
      BY <1>2, <3>1, <3>2, <3>6, DistinctParts, RangeOfAppend DEF SentInv
    <3>8. Sent(p)' \subseteq Sent(p)
      BY <3>5, <3>7 DEF Sent
    <3>9. \A peer \in Sent(p)' : peer # op'[p].user /\ ~Ahead(enum'[p], op'[p].user, peer)
      BY <1>1, <1>2, <3>8 DEF SentInv
    <3>10. Len(op'[p].group) <= GroupLimit
      BY <1>2, <3>3, <3>7, LimitsArePositive DEF SentInv
    <3>11. Range(op'[p].group) \cap Range(buf'[p]) = {}
      BY <1>2, <3>5, <3>7 DEF SentInv
    <3> QED
      BY <3>4, <3>5, <3>7, <3>9, <3>10, <3>11, LimitsArePositive DEF SentInv
  <2>2. CASE RangeEnds(p)
    <3>1. /\ op'[p].group = op[p].group /\ UNCHANGED buf
          /\ op'[p].pc # "range" /\ (op'[p].pc = "publish" => op[p].group # <<>>)
      BY <2>2 DEF RangeEnds, OpsOK
    <3>2. Sent(p)' = Sent(p)
      BY <3>1 DEF Sent
    <3> QED
      BY <1>1, <1>2, <3>1, <3>2 DEF SentInv
  <2>3. CASE PublishGroup(p)
    <3>1. op'[p].group = <<>> /\ op'[p].pc = "range" /\ UNCHANGED buf
      BY <2>3 DEF PublishGroup, OpsOK
    <3>2. Sent(p)' \subseteq Sent(p)
      BY <3>1, EmptyIsDistinct DEF Sent
    <3>3. \A peer \in Sent(p)' : peer # op'[p].user /\ ~Ahead(enum'[p], op'[p].user, peer)
      BY <1>1, <1>2, <3>2 DEF SentInv
    <3> QED
      BY <1>2, <3>1, <3>3, EmptyIsDistinct, LimitsArePositive DEF SentInv
  <2> QED
    BY <2>1, <2>2, <2>3
<1>4. PageInv(op[p].user, enum[p])'
  BY <1>1, <1>2
<1>5. ASSUME NEW q \in Processes, q # p PROVE (SentInv(q) /\ PageInv(op[q].user, enum[q]))'
  BY <1>1, <1>5, SendsKept
<1> QED
  BY <1>3, <1>4, <1>5 DEF SendsInv

LEMMA SendsNext ==
  ASSUME TypeInv, ThreadsInv, SendsInv, Next
  PROVE  SendsInv'
<1>0. ASSUME UNCHANGED <<op, enum, buf>> PROVE SendsInv'
  BY <1>0, SendsKept DEF SendsInv
<1>1. ASSUME NEW key \in Pairs, Vote(key) \/ DeleteRomance(key) PROVE SendsInv'
  BY <1>0, <1>1 DEF Vote, DeleteRomance, processVars
<1>2. ASSUME NEW u \in Requesters, RequestAnswered(u) \/ RequestFails(u) PROVE SendsInv'
  BY <1>0, <1>2 DEF RequestAnswered, RequestFails, processVars
<1>3. ASSUME DeduplicationEnds \/ VisibilityEnds PROVE SendsInv'
  BY <1>0, <1>3 DEF DeduplicationEnds, VisibilityEnds, processVars
<1>4. ASSUME NEW p \in Processes, DeliverRequest(p) \/ EnumStep(p) PROVE SendsInv'
  BY <1>4, DeliverRequestSends, EnumStepSends
<1>5. ASSUME NEW p \in Processes, OpStep(p) PROVE SendsInv'
  <2>1. CASE Receive(p) \/ RangeEnds(p) \/ PublishGroup(p)
    BY <2>1, LoopSends
  <2>2. CASE PublishFails(p) \/ AckRequest(p) \/ AckRequestLost(p)
    BY <2>2, EndOpSends DEF PublishFails, AckRequest, AckRequestLost
  <2> QED
    BY <1>5, <2>1, <2>2 DEF OpStep
<1>6. ASSUME NEW p \in Processes, DeliverGroup(p) \/ GroupStep(p) PROVE SendsInv'
  BY <1>0, <1>6 DEF DeliverGroup, GroupStep, BatchSucceeds, BatchFails, AckGroup, AckGroupLost
<1>7. ASSUME NEW p \in Processes, Crash(p) PROVE SendsInv'
  BY <1>7, EndOpSends DEF Crash
<1>8. ASSUME NEW p \in Processes, Cancel(p) \/ Restart(p) PROVE SendsInv'
  BY <1>0, <1>8 DEF Cancel, Restart
<1> QED
  BY <1>1, <1>2, <1>3, <1>4, <1>5, <1>6, <1>7, <1>8 DEF Next

\* What DynamoDB takes as one batch of deletes.
Deletable(g) ==
  /\ Len(g.peers) \in 1..GroupLimit
  /\ Distinct(g.peers)
  /\ g.user \notin Range(g.peers)

LEMMA DeletableNext ==
  ASSUME TypeInv, GroupHeld, SendsInv, \A i \in DOMAIN groups : Deletable(groups[i]), Next
  PROVE  \A i \in DOMAIN groups' : Deletable(groups'[i])
<1> USE DEF TypeInv, QueuesOK, GroupsOK
<1>1. CASE UNCHANGED groups
  BY <1>1
<1>2. ASSUME NEW p \in Processes, PublishGroup(p) \/ PublishFails(p) PROVE
        \A i \in DOMAIN groups' : Deletable(groups'[i])
  <2>1. op[p].pc = "publish" /\ GroupOf(p) \in GroupMsg /\ op[p].group \in Seq(Users)
    BY <1>2, GroupOfType, IdleTypes DEF PublishGroup, PublishFails, ThreadsOK
  <2>2. op[p].group # <<>> /\ SentInv(p)
    BY <2>1 DEF SendsInv, SentInv
  <2>3. Len(op[p].group) \in 1..GroupLimit
    BY <2>1, <2>2, LimitsArePositive DEF SentInv
  <2>4. PICK g \in GroupMsg : g = GroupOf(p) /\ Deletable(g)
    BY <2>1, <2>2, <2>3 DEF Deletable, GroupOf, SentInv, Sent
  <2>5. groups' = groups \/ groups' = Append(groups, g)
    BY <1>2, <2>4 DEF PublishGroup, PublishFails
  <2>6. CASE groups' = Append(groups, g)
    <3>1. ASSUME NEW i \in DOMAIN groups'
          PROVE  groups'[i] = g \/ (i \in DOMAIN groups /\ groups'[i] = groups[i])
      BY <2>6
    <3> QED
      BY <2>4, <3>1
  <2> QED
    BY <2>5, <2>6
<1>3. ASSUME NEW p \in Processes, AckGroup(p) PROVE
        \A i \in DOMAIN groups' : Deletable(groups'[i])
  <2>1. CASE groupHolder = p
    <3>1. groups # <<>> /\ groups' = Tail(groups)
      BY <1>3, <2>1 DEF AckGroup, GroupHeld
    <3>2. ASSUME NEW i \in DOMAIN groups'
          PROVE  i + 1 \in DOMAIN groups /\ groups'[i] = groups[i + 1]
      BY <3>1
    <3> QED
      BY <3>2
  <2>2. CASE groupHolder # p
    BY <1>3, <2>2 DEF AckGroup
  <2> QED
    BY <2>1, <2>2
<1>4. ASSUME NEW key \in Pairs, Vote(key) \/ DeleteRomance(key) PROVE UNCHANGED groups
  BY <1>4 DEF Vote, DeleteRomance, queueVars
<1>5. ASSUME NEW u \in Requesters, RequestAnswered(u) \/ RequestFails(u) PROVE UNCHANGED groups
  BY <1>5 DEF RequestAnswered, RequestFails
<1>6. ASSUME DeduplicationEnds \/ VisibilityEnds PROVE UNCHANGED groups
  BY <1>6 DEF DeduplicationEnds, VisibilityEnds
<1>7. ASSUME NEW p \in Processes,
             DeliverRequest(p) \/ EnumStep(p) \/ Receive(p) \/ RangeEnds(p) \/ AckRequest(p)
               \/ AckRequestLost(p)
      PROVE UNCHANGED groups
  BY <1>7 DEF DeliverRequest, EnumStep, Query, QueryFails, SendPeer, SendReturns, Receive,
              RangeEnds,
     AckRequest, AckRequestLost, queueVars
<1>8. ASSUME NEW p \in Processes,
             DeliverGroup(p) \/ BatchSucceeds(p) \/ BatchFails(p) \/ AckGroupLost(p) \/ Crash(p)
               \/ Cancel(p) \/ Restart(p)
      PROVE UNCHANGED groups
  BY <1>8 DEF DeliverGroup, BatchSucceeds, BatchFails, AckGroupLost, Crash, Cancel, Restart,
              queueVars
<1> QED
  BY <1>1, <1>2, <1>3, <1>4, <1>5, <1>6, <1>7, <1>8 DEF Next, OpStep, GroupStep

-----------------------------------------------------------------------------
(* The theorems                                                            *)

\* The inductive invariant.
PipelineInv ==
  /\ TypeInv /\ RequestHeld /\ GroupHeld /\ ThreadsInv
  /\ AskedInv /\ LossInv
  /\ SendsInv /\ \A i \in DOMAIN groups : Deletable(groups[i])

LEMMA InitInv ==
  ASSUME Init
  PROVE  PipelineInv
<1>1. NoOp \in Op /\ NoEnum \in Enum /\ NoGrp \in Grp
  BY DEF Op, Enum, NoEnum, StartKey, Grp
<1>2. TypeInv
  <2>1. TableOK /\ AskedOK /\ RequestsOK /\ GroupsOK /\ HoldersOK /\ StoppingOK
    BY DEF Init, TableOK, AskedOK, RequestsOK, GroupsOK, HoldersOK, StoppingOK
  <2>2. OpsOK /\ EnumsOK /\ GrpsOK
    BY <1>1 DEF Init, OpsOK, EnumsOK, GrpsOK
  <2>3. BufsOK
    BY LimitsArePositive DEF Init, BufsOK
  <2>4. UsedOK
    BY BoundsAssumption DEF Init, UsedOK
  <2> QED
    BY <2>1, <2>2, <2>3, <2>4 DEF TypeInv, QueuesOK, ThreadsOK
<1>3. RequestHeld /\ GroupHeld
  BY ProcessesAssumption DEF Init, RequestHeld, GroupHeld
<1>4. ThreadsInv
  BY DEF Init, ThreadsInv, ThreadInv, EnumInv, NoOp, NoEnum, NoGrp, NoKey
<1>5. AskedInv
  BY DEF Init, AskedInv, NoOp, NoGrp
<1>6. LossInv
  BY DEF Init, LossInv
<1>7. SendsInv
  BY NothingSent DEF Init, SendsInv, NoOp, NoEnum
<1>8. \A i \in DOMAIN groups : Deletable(groups[i])
  BY DEF Init
<1> QED
  BY <1>2, <1>3, <1>4, <1>5, <1>6, <1>7, <1>8 DEF PipelineInv

LEMMA NextInv ==
  ASSUME PipelineInv, [Next]_vars
  PROVE  PipelineInv'
<1>1. CASE Next
  <2>1. TypeInv' /\ RequestHeld' /\ GroupHeld'
    BY <1>1, TypeNext, RequestHeldNext, GroupHeldNext DEF PipelineInv
  <2>2. ThreadsInv' /\ AskedInv'
    BY <1>1, ThreadsNext, AskedNext DEF PipelineInv
  <2>3. LossInv'
    BY <1>1, <2>1, LossNext DEF PipelineInv
  <2>4. SendsInv' /\ (\A i \in DOMAIN groups : Deletable(groups[i]))'
    BY <1>1, SendsNext, DeletableNext DEF PipelineInv
  <2> QED
    BY <2>1, <2>2, <2>3, <2>4 DEF PipelineInv
<1>2. CASE UNCHANGED vars
  <2>1. UNCHANGED <<romances, queueVars, processVars, historyVars, used>>
    BY <1>2 DEF vars
  <2>2. TypeInv'
    BY <2>1, Frames DEF PipelineInv, TypeInv, QueuesOK, ThreadsOK, queueVars, processVars,
                        historyVars
  <2>3. RequestHeld' /\ GroupHeld'
    BY <2>1 DEF PipelineInv, RequestHeld, GroupHeld, queueVars, processVars
  <2>4. ThreadsInv'
    BY <2>1 DEF PipelineInv, ThreadsInv, ThreadInv, EnumInv, processVars
  <2>5. AskedInv'
    BY <2>1 DEF PipelineInv, AskedInv, queueVars, processVars, historyVars
  <2>6. LossInv'
    BY <2>1, StaysOnItsWay DEF PipelineInv, LossInv, OnItsWay, queueVars, processVars, historyVars
  <2>7. SendsInv'
    BY <2>1, SendsKept DEF PipelineInv, SendsInv, processVars
  <2>8. (\A i \in DOMAIN groups : Deletable(groups[i]))'
    BY <2>1 DEF PipelineInv, queueVars
  <2> QED
    BY <2>2, <2>3, <2>4, <2>5, <2>6, <2>7, <2>8 DEF PipelineInv
<1> QED
  BY <1>1, <1>2

\* The state of the pipeline is well typed, the channel within its capacity.
THEOREM TypeCorrect == Spec => []TypeOK
<1>1. Init => PipelineInv
  BY InitInv
<1>2. PipelineInv /\ [Next]_vars => PipelineInv'
  BY NextInv
<1>3. PipelineInv => TypeOK
  BY DEF PipelineInv, TypeInv, TypeOK, TableOK, AskedOK, QueuesOK, RequestsOK, GroupsOK,
     HoldersOK, ThreadsOK, OpsOK, EnumsOK, BufsOK, GrpsOK, StoppingOK, UsedOK, GroupMsg
<1> QED
  BY <1>1, <1>2, <1>3, PTL DEF Spec

\* Whatever crashes, repeats or is late, a romance that was promised to be
\* removed and that no error was logged for is in the keys of a queued message.
THEOREM NothingElseIsLost == Spec => []NothingElseLost
<1>1. Init => PipelineInv
  BY InitInv
<1>2. PipelineInv /\ [Next]_vars => PipelineInv'
  BY NextInv
<1>3. PipelineInv => NothingElseLost
  <2> SUFFICES ASSUME PipelineInv, NEW key \in owed \ dropped
               PROVE  Accounted(key)
    BY DEF NothingElseLost
  <2>1. key \in Pairs /\ OnItsWay(key)
    BY DEF PipelineInv, TypeInv, TableOK, LossInv
  <2>2. /\ Enumerated(key) => 1 \in DOMAIN requests /\ key \in PairsOf(requests[1])
        /\ Deleted(key) => 1 \in DOMAIN groups /\ key \in GroupKeys(groups[1])
    BY <2>1, InHandIsInMessage DEF PipelineInv
  <2> QED
    BY <2>1, <2>2 DEF OnItsWay, Accounted, WaitingRequest, WaitingGroup
<1> QED
  BY <1>1, <1>2, <1>3, PTL DEF Spec

\* Every group that is published can be deleted with one batch of different keys,
\* at any size of the pages, the channel and the groups.
THEOREM PublishedGroupsAreDeletable == Spec => []GroupsAreDeletable
<1>1. Init => PipelineInv
  BY InitInv
<1>2. PipelineInv /\ [Next]_vars => PipelineInv'
  BY NextInv
<1>3. PipelineInv => GroupsAreDeletable
  BY DEF PipelineInv, GroupsAreDeletable, Deletable, Distinct
<1> QED
  BY <1>1, <1>2, <1>3, PTL DEF Spec

\* At any size of the pages, the channel and the groups, and whatever fails: an
\* operation that ranges over the channel has somebody to feed or close it, and
\* a goroutine that waits for room has somebody to make it.
THEOREM ChannelIsAlwaysServed == Spec => []ChannelIsServed
<1>1. Init => PipelineInv
  BY InitInv
<1>2. PipelineInv /\ [Next]_vars => PipelineInv'
  BY NextInv
<1>3. PipelineInv => ChannelIsServed
  <2> SUFFICES ASSUME PipelineInv, NEW p \in Processes
               PROVE  /\ op[p].pc = "range" =>
                           \/ enum[p].pc \in {"query", "done"}
                           \/ enum[p].pc = "send" /\ enum[p].page # {}
                      /\ enum[p].pc \in {"query", "send"} => op[p].pc \in {"range", "publish"}
    BY DEF ChannelIsServed
  <2>1. ThreadInv(p) /\ EnumInv(enum[p])
    BY DEF PipelineInv, ThreadsInv
  <2>2. /\ enum[p].pc \in {"none", "query", "send", "done"}
        /\ op[p].pc \in {"idle", "range", "publish", "ack"}
    BY DEF PipelineInv, TypeInv, ThreadsOK, OpsOK, EnumsOK, Op, NoOp, Enum
  <2> QED
    BY <2>1, <2>2 DEF ThreadInv, EnumInv
<1> QED
  BY <1>1, <1>2, <1>3, PTL DEF Spec

\* With every request and fault the pipeline implements the clean-up: what its
\* batches delete are romances of users who asked, whatever else the groups hold,
\* and a promised romance is forgotten only with its removal or by letting go.  A
\* romance that leaves the table otherwise does so alone, in a change that a user
\* made (DeleteRomance), and that no step of the pipeline counts as one.
THEOREM PipelineImplementsCleanup == Spec => ImplementsCleanup
<1>1. Init => PipelineInv
  BY InitInv
<1>2. PipelineInv /\ [Next]_vars => PipelineInv'
  BY NextInv
<1>3. Init => Cleanup!CleanupInit
  BY DEF Init, Cleanup!CleanupInit
<1>4. PipelineInv /\ [Next]_vars => [Cleanup!CleanupNext]_(Cleanup!cleanupVars)
  BY CleanupStep DEF PipelineInv
<1> QED
  BY <1>1, <1>2, <1>3, <1>4, PTL DEF Spec, ImplementsCleanup, Cleanup!CleanupSpec

=============================================================================
