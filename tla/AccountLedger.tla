---------------------------- MODULE AccountLedger ----------------------------
(***************************************************************************)
(* The balances of the accounts, one asset at a time: the coin handler     *)
(* (processCoinAccountGroup) and the token handler (sendToken) move an     *)
(* amount inside a group, returnCoinAndToken gives what a group holds to   *)
(* the admin, and a BOT-STOP handler then deletes the group's row and sets *)
(* its accounts free, for a POST to take.  Each SQL statement is a         *)
(* transaction of its own, so handlers interleave between any two of them, *)
(* and every statement finds the members of a group as they are by then.   *)
(* BotLifecycle says when handlers overlap: two copies of a chain after a  *)
(* restart, a handler past its last look at the flag and a BOT-STOP        *)
(* handler, two handlers that both see the flag.  Here any two may.        *)
(*                                                                         *)
(* GroupPool has the requests in full; here a request reads free accounts  *)
(* and saves them.  The accounts a request creates are there from the      *)
(* start: their ids are past all others, so nothing is sent to them before *)
(* they are in a group.                                                    *)
(***************************************************************************)
EXTENDS Integers, FiniteSetsExt, Functions

CONSTANTS
    Worker,     \* handler invocations that may be in progress at once
    Account,    \* user_ids that have a row; the admin has id 1
    Group,      \* ids of account_group, those that requests are still to get
                \* too; nothing depends on their order
    Groupings,  \* accountGroupId of each account, 0 when it has none: the
                \* possible choices at first
    Charge,     \* what an empty group is charged: 10 coins or 10000 tokens
    Price,      \* the amounts a handler may draw at random, by asset
    MaxOps      \* bound: handler invocations

Admin == 1

Asset == {"COIN", "TOKEN"}

ASSUME WorkerAssumption  == IsFiniteSet(Worker)
ASSUME AccountAssumption == /\ Account \subseteq Nat \ {0} /\ IsFiniteSet(Account)
                            /\ Admin \in Account
ASSUME GroupAssumption   == /\ Group \subseteq Nat \ {0}
                            /\ Groupings \subseteq [Account -> Group \cup {0}]
ASSUME AmountAssumption  == /\ Charge \in [Asset -> Nat \ {0}]
                            /\ Price \in [Asset -> SUBSET Nat]
ASSUME OpsAssumption     == MaxOps \in Nat

VARIABLES
    asset,   \* the asset of this ledger; the two share nothing but the rows
    groupOf, \* accountGroupId of each account
    row,     \* account_group: a group's row is still to come, there, or deleted
    found,   \* the free accounts that the request for a group has read
    bal,     \* coin_amount or token_amount of each account
    job,     \* what each handler invocation is doing
    ops,     \* invocations so far
    faults   \* history: what has happened that can unbalance the ledger

pool == <<groupOf, row, found>>

vars == <<asset, pool, bal, job, ops, faults>>

Members(g) == {a \in Account : groupOf[a] = g}

GroupSum(g) == SumFunctionOnSet(bal, Members(g))

-----------------------------------------------------------------------------
(* Which accounts a transfer uses (account-group.entity.ts)                *)

\* The driver returns the decimal column coin_amount as text, "9.00" or
\* "10.00", and text is compared character by character: '-' comes before
\* every digit and '.' before '0'.  Faithful below 100.
TextRank(x) ==
    LET magnitude == IF x < 0 THEN -x ELSE x
        rank      == IF magnitude < 10 THEN 11 * magnitude
                     ELSE 11 * (magnitude \div 10) + 1 + (magnitude % 10)
    IN  IF x < 0 THEN rank - 1000 ELSE rank

Rank(a) == IF asset = "COIN" THEN TextRank(bal[a]) ELSE bal[a]

\* Rows come in no stated order, so a tie goes to any of its accounts.
Highest(g) == {a \in Members(g) : \A b \in Members(g) : Rank(b) <= Rank(a)}
Lowest(g)  == {a \in Members(g) : \A b \in Members(g) : Rank(a) <= Rank(b)}

\* The pairs <<max, min>> of accounts a transfer may start from.  Both
\* reductions keep the later of equals: when all are equal they agree.
\* minTokenAccount compares coins, which say nothing about tokens.
Ends(g) ==
    IF asset = "TOKEN" THEN Highest(g) \X Members(g)
    ELSE {e \in Highest(g) \X Lowest(g) : Highest(g) = Lowest(g) => e[1] = e[2]}

\* mutant: an account alone sends to the id after its own
RecipientsNext(max, min) ==
    IF max = min THEN {min + 1}
    ELSE IF max > min THEN min .. max - 1
    ELSE max .. min

\* startCoinAccountId, startTokenAccountId: an id, of whatever account
Recipients(max, min) ==
    IF max = min THEN {min - 1}
    ELSE IF max > min THEN min .. max - 1
    ELSE max .. min

\* maxCoinAccountZero, maxTokenAccountZero compare numbers.
MaxAccountZero(g) ==
    /\ \E a \in Members(g) : bal[a] = 0
    /\ \A a \in Members(g) : bal[a] <= 0

\* The amount drawn; a token handler that finds the first charge whole in
\* the account richest in coins sends the tokens of the one poorest in coins
\* instead.  (The coin handler compares text with the number 10: never.)
Amounts(g) ==
    IF asset = "TOKEN" /\ \E a \in Members(g) : bal[a] = Charge[asset]
    THEN Price[asset] \cup {bal[a] : a \in Members(g)}
    ELSE Price[asset]

-----------------------------------------------------------------------------
Idle == [pc |-> "idle", group |-> 0, from |-> 0, to |-> 0, amount |-> 0]

Goto(w, p) == job' = [job EXCEPT ![w].pc = p]

\* The settlements that have read the sum of a group and not yet reset it
Settling(g) == {w \in Worker : job[w].pc \in {"credit", "reset"} /\ job[w].group = g}

\* Members of a group leave it under a settlement of their group
Regroups(S) == \E a \in S : Settling(groupOf[a]) # {}

\* A write to account a by handler w, seen by the settlements of its group
Disturbs(w, a) == a \in Account /\ Settling(groupOf[a]) \ {w} # {}

Note(kinds) == faults' = faults \cup kinds

\* UPDATE account SET amount = amount + x WHERE user_id = a
Add(a, x) == bal' = IF a \in Account THEN [bal EXCEPT ![a] = @ + x] ELSE bal

\* What a write to account a by handler w can do to the ledger
NoteWrite(w, a) == Note({k \in {"disturbed"} : Disturbs(w, a)})

-----------------------------------------------------------------------------
(* processCoinAccountGroup, sendToken                                      *)

\* findAccountGroup: everything is decided from this one reading, which finds
\* nothing once the row is deleted.
StartTransfer(w, g) ==
    /\ job[w].pc = "idle"
    /\ row[g] = "live"
    /\ ops < MaxOps
    /\ ops' = ops + 1
    /\ \E e \in Ends(g), x \in Amounts(g) :
          \E to \in Recipients(e[1], e[2]) :
             job' = [job EXCEPT ![w] =
                        [pc |-> IF MaxAccountZero(g) THEN "initCharge" ELSE "charge",
                         group |-> g, from |-> e[1], to |-> to, amount |-> x]]
    /\ UNCHANGED <<bal, faults>>

\* initCoinCharge, initTokenCharge: the sender gets the charge ...
InitCharge(w) ==
    /\ job[w].pc = "initCharge"
    /\ Add(job[w].from, Charge[asset])
    /\ Goto(w, "adminPays")
    /\ NoteWrite(w, job[w].from)
    /\ UNCHANGED ops

\* mutant: the type argument is taken for a deposit
UpdateAdminTransactionIn(w) ==
    /\ job[w].pc = "adminPays"
    /\ Add(Admin, Charge[asset])
    /\ Goto(w, "charge")
    /\ NoteWrite(w, Admin)
    /\ UNCHANGED ops

\* ... and the admin pays it.
UpdateAdminTransaction(w) ==
    /\ job[w].pc = "adminPays"
    /\ Add(Admin, -Charge[asset])
    /\ Goto(w, "charge")
    /\ NoteWrite(w, Admin)
    /\ UNCHANGED ops

\* transferCoin, transferToken: the recipient's row, if there is one ...
ChargeRecipient(w) ==
    /\ job[w].pc = "charge"
    /\ Add(job[w].to, job[w].amount)
    /\ Goto(w, "reduce")
    /\ Note({k \in {"noRecipient"} : job[w].to \notin Account}
            \cup {k \in {"disturbed"} : Disturbs(w, job[w].to)})
    /\ UNCHANGED ops

\* ... then the sender's, with no look at what is left.  What the token
\* handler does next leaves the balances alone.
ReduceSender(w) ==
    /\ job[w].pc = "reduce"
    /\ Add(job[w].from, -job[w].amount)
    /\ job' = [job EXCEPT ![w] = Idle]
    /\ NoteWrite(w, job[w].from)
    /\ UNCHANGED ops

-----------------------------------------------------------------------------
(* returnCoinAndToken, softDeleteAccount                                   *)

\* A handler of the chains that sees the flag, or the BOT-STOP handler, which
\* may come a second time when the row is gone.
StartSettle(w, g) ==
    /\ job[w].pc = "idle"
    /\ row[g] # "none"
    /\ ops < MaxOps
    /\ ops' = ops + 1
    /\ job' = [job EXCEPT ![w] = [Idle EXCEPT !.pc = "credit", !.group = g,
                                              !.amount = GroupSum(g)]]
    /\ UNCHANGED <<bal, faults>>

ReturnCoinAndToken(w) ==
    /\ job[w].pc = "credit"
    /\ Add(Admin, job[w].amount)
    /\ Goto(w, "reset")
    /\ NoteWrite(w, Admin)
    /\ UNCHANGED ops

\* The rows are looked up again by accountGroupId.  An admin that the group
\* has drafted loses what it was just given, and all that it had.  A handler of
\* the chains ends here; the BOT-STOP handler goes on.
ResetCoinAndToken(w) ==
    /\ job[w].pc = "reset"
    /\ bal' = [a \in Account |-> IF a \in Members(job[w].group) THEN 0 ELSE bal[a]]
    /\ \/ job' = [job EXCEPT ![w] = Idle]
       \/ job' = [job EXCEPT ![w] = [Idle EXCEPT !.pc = "erase", !.group = job[w].group]]
    /\ Note({k \in {"disturbed"} : Settling(job[w].group) \ {w} # {}}
            \cup {k \in {"drafted"} : groupOf[Admin] = job[w].group})
    /\ UNCHANGED ops

\* deleteAccount: the row first ...
DeleteRow(w) ==
    /\ job[w].pc = "erase"
    /\ row' = [row EXCEPT ![job[w].group] = "erased"]
    /\ Goto(w, "detach")
    /\ UNCHANGED <<bal, ops, faults, groupOf, found>>

\* ... then the accounts, with whatever has come to them since the reset.
DetachAccounts(w) ==
    /\ job[w].pc = "detach"
    /\ groupOf' = [a \in Account |->
                      IF a \in Members(job[w].group) THEN 0 ELSE groupOf[a]]
    /\ job' = [job EXCEPT ![w] = Idle]
    /\ Note({k \in {"regrouped"} : Regroups(Members(job[w].group))})
    /\ UNCHANGED <<bal, ops, row, found>>

\* A statement throws, or the process dies: what was written stays, and the
\* next attempt starts from the beginning.
Fail(w) ==
    /\ job[w].pc # "idle"
    /\ job' = [job EXCEPT ![w] = Idle]
    /\ Note({k \in {"torn"} : job[w].pc \in {"adminPays", "reduce", "reset"}})
    /\ UNCHANGED <<bal, ops>>

-----------------------------------------------------------------------------
(* createAccountGroup                                                      *)

\* The request that will get the id g reads accounts that are free.
FindFree(g) ==
    /\ row[g] = "none" /\ found[g] = {}
    /\ \E S \in SUBSET Members(0) \ {{}} : found' = [found EXCEPT ![g] = S]
    /\ UNCHANGED <<bal, job, ops, faults, groupOf, row>>

\* mutant: the accounts of a new group start from nothing
SaveGroupEmptied(g) ==
    /\ row[g] = "none" /\ found[g] # {}
    /\ row' = [row EXCEPT ![g] = "live"]
    /\ groupOf' = [a \in Account |-> IF a \in found[g] THEN g ELSE groupOf[a]]
    /\ found' = [found EXCEPT ![g] = {}]
    /\ bal' = [a \in Account |-> IF a \in found[g] THEN 0 ELSE bal[a]]
    /\ Note({k \in {"regrouped"} : Regroups(found[g])})
    /\ UNCHANGED <<job, ops>>

\* The save inserts the row and writes its id into the accounts that were read,
\* whosever they are by now.  Of their columns it writes no other.
SaveGroup(g) ==
    /\ row[g] = "none" /\ found[g] # {}
    /\ row' = [row EXCEPT ![g] = "live"]
    /\ groupOf' = [a \in Account |-> IF a \in found[g] THEN g ELSE groupOf[a]]
    /\ found' = [found EXCEPT ![g] = {}]
    /\ Note({k \in {"regrouped"} : Regroups(found[g])})
    /\ UNCHANGED <<bal, job, ops>>

-----------------------------------------------------------------------------
Init ==
    /\ asset \in Asset
    /\ groupOf \in Groupings
    /\ row = [g \in Group |-> IF Members(g) = {} THEN "none" ELSE "live"]
    /\ found = [g \in Group |-> {}]
    /\ bal = [a \in Account |-> 0]
    /\ job = [w \in Worker |-> Idle]
    /\ ops = 0
    /\ faults = {}

Handle(w) ==
    \/ \E g \in Group : StartTransfer(w, g) \/ StartSettle(w, g)
    \/ InitCharge(w) \/ UpdateAdminTransaction(w)
    \/ ChargeRecipient(w) \/ ReduceSender(w)
    \/ ReturnCoinAndToken(w) \/ ResetCoinAndToken(w)

Next ==
    /\ \/ (\E w \in Worker : Handle(w) \/ Fail(w)) /\ UNCHANGED pool
       \/ \E w \in Worker : DeleteRow(w) \/ DetachAccounts(w)
       \/ \E g \in Group : FindFree(g) \/ SaveGroup(g)
    /\ UNCHANGED asset

Spec == Init /\ [][Next]_vars

-----------------------------------------------------------------------------
(* Properties                                                              *)

\* Every variable has its type, and a recipient is an id that was handed out
\* before or together with the group's: never one past the last.
TypeOK ==
    /\ asset \in Asset
    /\ groupOf \in [Account -> Group \cup {0}]
    /\ row \in [Group -> {"none", "live", "erased"}]
    /\ found \in [Group -> SUBSET Account]
    /\ bal \in [Account -> Int]
    /\ ops \in 0 .. MaxOps
    /\ faults \subseteq {"disturbed", "drafted", "noRecipient", "regrouped", "torn"}
    /\ job \in [Worker -> [pc     : {"idle", "initCharge", "adminPays", "charge",
                                     "reduce", "credit", "reset", "erase", "detach"},
                           group  : Group \cup {0},
                           from   : Account \cup {0},
                           to     : 0 .. Max(Account),
                           amount : Int]]

\* Between handlers the balances add up to what they were, the admin's
\* included, unless one of five things has happened: a write to a group
\* between the sum and the reset of a settlement; a member that leaves its
\* group between the two, detached by another BOT-STOP handler or taken by the
\* save of a POST that had read it while it was free, so that the reset misses
\* it (user.service.ts:57-62); a recipient id without a row; a handler cut off
\* between two statements that belong together; the settlement of a group that
\* has the admin among its members, as the pool of free accounts does not tell
\* it apart (account.repository.ts:132).  Transfers that overlap, in one group
\* or across groups, accounts that change their group under a transfer, and
\* settlements of different groups do no harm, whichever accounts they pick.
Conserved ==
    (\A w \in Worker : job[w].pc = "idle") /\ faults = {}
        => SumFunctionOnSet(bal, Account) = 0
=============================================================================
