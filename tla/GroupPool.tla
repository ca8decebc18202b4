----------------------------- MODULE GroupPool -----------------------------
(***************************************************************************)
(* Where the accounts of a group come from.  createAccountGroup reads as   *)
(* many free accounts as it was asked for, creates those that are missing, *)
(* and saves the group, which writes its id into each of them.  Between    *)
(* the reading and the saving the accounts are still free for any other    *)
(* POST to read, the ones just created too, and the save asks nobody whose *)
(* they are by then.  The settlement of a stopped group deletes its row    *)
(* and then frees the accounts that still carry its id.                    *)
(*                                                                         *)
(* The query takes the oldest accounts, to the second; which ones it takes *)
(* makes no difference here.  The admin's row is a free account like any   *)
(* other, unless it was given the id of a group by hand.  A process that   *)
(* dies is all its requests failing.                                       *)
(***************************************************************************)
EXTENDS Naturals, FiniteSetsExt, Functions

CONSTANTS
    Post,         \* bound: POST requests, each made once
    Counts,       \* values of accountCount (at least 4, 10 when absent)
    Seeds,        \* numbers of free accounts there may be at first
    MaxAccounts   \* ids of accounts; no bound, see PoolBounded

ASSUME PostAssumption   == IsFiniteSet(Post)
ASSUME CountsAssumption == Counts \subseteq Nat \ {0} /\ IsFiniteSet(Counts)
ASSUME SeedsAssumption  == Seeds \subseteq 0 .. MaxAccounts
ASSUME AccountsAssumption == MaxAccounts \in Nat

Account == 1 .. MaxAccounts
Group   == 1 .. Cardinality(Post)
NoGroup == 0

VARIABLES
    seed,       \* accounts at first
    last,       \* the last user_id handed out
    groupOf,    \* accountGroupId
    row,        \* account_group: each group's row, and whether it is released
    count,      \* account_group.count
    nextId,     \* the next id of account_group
    post,       \* where each request is
    overtaken,  \* history: groups saved between another's reading and saving
    peak        \* history: the most accounts asked for at any time

vars == <<seed, last, groupOf, row, count, nextId, post, overtaken, peak>>

-----------------------------------------------------------------------------
Members(g) == {a \in Account : groupOf[a] = g}

FreeAccounts == {a \in 1 .. last : groupOf[a] = NoGroup}

\* `own` is the list `accounts`, `missing` the saves of createAccounts not yet
\* answered; `rivals` are the groups saved since the request read the pool.
Idle == [pc |-> "idle", count |-> 0, own |-> {}, missing |-> 0, rivals |-> {}]

InProgress(p) == \/ post[p].pc \in {"create", "save"}
                 \/ post[p].pc = "failed" /\ post[p].missing > 0

Held(g) == row[g] \in {"live", "erased"}

\* What requests and groups have been promised, and what is still being created.
Asked == [p \in Post |-> IF InProgress(p) THEN post[p].count ELSE 0]
Owed  == [g \in Group |-> IF Held(g) THEN count[g] ELSE 0]

Demand == SumFunctionOnSet(Asked, Post) + SumFunctionOnSet(Owed, Group)

Planned == SumFunctionOnSet([p \in Post |-> post[p].missing], Post)

AtLeast(x, y) == IF x < y THEN y ELSE x

-----------------------------------------------------------------------------
(* createAccountGroup *)

\* What is found of n accounts, and what is missing
Read(p, n, found) ==
    /\ post[p].pc = "idle"
    /\ post' = [post EXCEPT ![p] =
                  [pc |-> IF Cardinality(found) < n THEN "create" ELSE "save",
                   count |-> n, own |-> found,
                   missing |-> n - Cardinality(found), rivals |-> {}]]
    /\ peak' = AtLeast(peak, Demand + n)
    /\ UNCHANGED <<seed, last, groupOf, row, count, nextId, overtaken>>

\* mutant: no limit
FindAll(p, n) == Read(p, n, FreeAccounts)

\* mutant: accountGroupId is not asked for
FindAny(p, n) ==
    \E found \in kSubset(n, 1 .. last) : Read(p, n, found)

\* findUserNotMappingGroupByAccountCount: accountGroupId IS NULL, LIMIT n
FindFree(p, n) ==
    LET free == FreeAccounts
    IN  IF Cardinality(free) <= n
        THEN Read(p, n, free)
        ELSE \E found \in kSubset(n, free) : Read(p, n, found)

\* One save of createAccounts is answered; all are under way at once, and go on
\* when one of them has failed.
Created(p, joins) ==
    /\ post[p].pc \in {"create", "failed"}
    /\ post[p].missing > 0
    /\ last < MaxAccounts
    /\ last' = last + 1
    /\ post' = [post EXCEPT
                  ![p].missing = @ - 1,
                  ![p].own = IF joins THEN @ \cup {last + 1} ELSE @,
                  ![p].pc = IF @ = "create" /\ post[p].missing = 1
                            THEN "save" ELSE @]
    /\ UNCHANGED <<seed, groupOf, row, count, nextId, overtaken, peak>>

\* mutant: concat without its result
CreateUnlisted(p) == Created(p, FALSE)

CreateAccount(p) == Created(p, post[p].pc = "create")

\* A save fails: Promise.all rejects, and with it the request.
FailCreate(p) ==
    /\ post[p].pc \in {"create", "failed"}
    /\ post[p].missing > 0
    /\ post' = [post EXCEPT ![p].missing = @ - 1, ![p].pc = "failed"]
    /\ UNCHANGED <<seed, last, groupOf, row, count, nextId, overtaken, peak>>

\* accountGroupRepository.save: one transaction inserts the row and updates
\* each account, whatever its group is by now.
SaveGroup(p) ==
    /\ post[p].pc = "save"
    /\ row' = [row EXCEPT ![nextId] = "live"]
    /\ count' = [count EXCEPT ![nextId] = post[p].count]
    /\ groupOf' = [a \in Account |-> IF a \in post[p].own THEN nextId
                                     ELSE groupOf[a]]
    /\ nextId' = nextId + 1
    /\ post' = [q \in Post |->
                  IF q = p THEN [Idle EXCEPT !.pc = "done"]
                  ELSE IF post[q].pc \in {"create", "save"}
                  THEN [post[q] EXCEPT !.rivals = @ \cup {nextId}]
                  ELSE post[q]]
    /\ overtaken' = overtaken \cup post[p].rivals
    /\ UNCHANGED <<seed, last, peak>>

\* The transaction fails: accounts that were created stay, without a group.
FailSave(p) ==
    /\ post[p].pc = "save"
    /\ post' = [post EXCEPT ![p].pc = "failed"]
    /\ UNCHANGED <<seed, last, groupOf, row, count, nextId, overtaken, peak>>

-----------------------------------------------------------------------------
(* softDeleteAccount, once the group is settled *)

DeleteRow(g) ==
    /\ row[g] = "live"
    /\ row' = [row EXCEPT ![g] = "erased"]
    /\ UNCHANGED <<seed, last, groupOf, count, nextId, post, overtaken, peak>>

Released(g, S) ==
    /\ row[g] = "erased"
    /\ row' = [row EXCEPT ![g] = "released"]
    /\ groupOf' = [a \in Account |-> IF a \in S THEN NoGroup ELSE groupOf[a]]
    /\ UNCHANGED <<seed, last, count, nextId, post, overtaken, peak>>

\* mutant: the accounts are not released
KeepAccounts(g) == Released(g, {})

FreeGroup(g) == Released(g, Members(g))

-----------------------------------------------------------------------------
Init ==
    /\ seed \in Seeds
    /\ last = seed
    /\ groupOf = [a \in Account |-> NoGroup]
    /\ row = [g \in Group |-> "none"]
    /\ count = [g \in Group |-> 0]
    /\ nextId = 1
    /\ post = [p \in Post |-> Idle]
    /\ overtaken = {}
    /\ peak = 0

Request(p) ==
    \/ \E n \in Counts : FindFree(p, n)
    \/ CreateAccount(p) \/ FailCreate(p)
    \/ SaveGroup(p) \/ FailSave(p)

Next ==
    \/ \E p \in Post : Request(p)
    \/ \E g \in Group : DeleteRow(g) \/ FreeGroup(g)

Spec == Init /\ [][Next]_vars

-----------------------------------------------------------------------------
(* Properties *)

\* The variables have their types, but for peak, of which PoolBounded speaks;
\* the list of a request has only accounts that were created.
TypeOK ==
    /\ seed \in Seeds
    /\ last \in 0 .. MaxAccounts
    /\ groupOf \in [Account -> Group \cup {NoGroup}]
    /\ row \in [Group -> {"none", "live", "erased", "released"}]
    /\ count \in [Group -> Counts \cup {0}]
    /\ nextId \in 1 .. Cardinality(Post) + 1
    /\ post \in [Post -> [pc      : {"idle", "create", "save", "failed", "done"},
                          count   : Counts \cup {0},
                          own     : SUBSET (1 .. last),
                          missing : Nat,
                          rivals  : SUBSET Group]]
    /\ overtaken \subseteq Group

\* A group has the number of accounts its row says until it is stopped, unless
\* another POST that had read the pool before it was saved was saved after it
\* (user.service.ts:36-47).  Failures of requests and the settlement of other
\* groups do not matter.
CountKept ==
    \A g \in Group : row[g] = "live" /\ g \notin overtaken
                        => Cardinality(Members(g)) = count[g]

\* An account leaves a group when the group is released, or for a POST that
\* read the pool while the account was free: before the group was saved.
RobbedByRivals ==
    [][\A a \in Account :
          LET g == groupOf[a]
          IN  g # NoGroup /\ groupOf'[a] # g =>
                 \/ row[g] = "erased" /\ groupOf'[a] = NoGroup
                 \/ \E p \in Post : /\ post[p].pc = "save"
                                    /\ post'[p].pc = "done"
                                    /\ a \in post[p].own
                                    /\ g \in post[p].rivals]_vars

\* There are never more accounts than were asked for at one time, or were there
\* at first: what a failed request has created, what two requests have created
\* for the same group and what a group has lost is found by the next request.
PoolBounded == last + Planned <= AtLeast(seed, peak)
=============================================================================
