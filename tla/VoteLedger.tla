------------------------------ MODULE VoteLedger ------------------------------
(***************************************************************************)
(* What the romances table promises its callers: a ledger with one vote    *)
(* per ordered pair of users, each request taking effect in one step.  A   *)
(* vote is replaced only by a type the transition table allows over the    *)
(* vote that stands at that instant; a user withdraws only the own vote;   *)
(* forgetting a romance empties the votes of both sides together.          *)
(***************************************************************************)
EXTENDS VoteTypes

CONSTANT Users
VARIABLE ledger

VoteIds == {id \in Users \X Users : id[1] # id[2]}
PeerId(id) == <<id[2], id[1]>>

LedgerInit == ledger = [id \in VoteIds |-> "Empty"]

Cast(id, type) ==
  /\ isVoteTypeChangeAllowed(ledger[id], type)
  /\ ledger' = [ledger EXCEPT ![id] = type]

Withdraw(id) == ledger' = [ledger EXCEPT ![id] = "Empty"]

Forget(id) == ledger' = [ledger EXCEPT ![id] = "Empty", ![PeerId(id)] = "Empty"]

LedgerNext ==
  \E id \in VoteIds :
    \/ \E type \in VoteType : Cast(id, type)
    \/ Withdraw(id)
    \/ Forget(id)

LedgerSpec == LedgerInit /\ [][LedgerNext]_ledger

=============================================================================
