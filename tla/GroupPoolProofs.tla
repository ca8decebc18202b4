--------------------------- MODULE GroupPoolProofs ---------------------------
(***************************************************************************)
(* Theorems about GroupPool, for any finite set of requests, any numbers   *)
(* of accounts asked for and any pool to begin with.                       *)
(***************************************************************************)
EXTENDS GroupPool, SumTheorems

-----------------------------------------------------------------------------
(* The inductive invariant                                                 *)

Done == {p \in Post : post[p].pc = "done"}

\* Ids are handed out in order, one to each request that is through.
IdsOk ==
    /\ nextId = Cardinality(Done) + 1
    /\ \A g \in Group : g >= nextId => row[g] = "none"

\* An account is in a group that has been saved and not yet released, and no
\* account is in a group before it is created.
MembersOk ==
    /\ \A a \in Account : groupOf[a] # NoGroup => Held(groupOf[a])
    /\ \A a \in Account : a > last => groupOf[a] = NoGroup

\* A request has, or is about to create, as many accounts as it was asked for.
\* Each one is free, or in a group saved since it was read.
OwnOk ==
    \A p \in Post : post[p].pc \in {"create", "save"} =>
        /\ Cardinality(post[p].own) + post[p].missing = post[p].count
        /\ post[p].pc = "save" => post[p].missing = 0
        /\ \A a \in post[p].own : groupOf[a] = NoGroup \/ groupOf[a] \in post[p].rivals

Inv == TypeOK /\ IdsOk /\ MembersOk /\ OwnOk /\ CountKept

-----------------------------------------------------------------------------
(* Requests                                                                *)

LEMMA DoneFinite == IsFiniteSet(Done) /\ Cardinality(Done) \in Nat
BY PostAssumption, FS_Subset, FS_CardinalityType DEF Done

LEMMA PostSize == Cardinality(Post) \in Nat
BY PostAssumption, FS_CardinalityType

\* A list of accounts has a size.
LEMMA OwnFinite ==
    ASSUME TypeOK, NEW S \in SUBSET (1 .. last)
    PROVE  IsFiniteSet(S) /\ Cardinality(S) \in Nat
<1>1. last \in Int
  BY AccountsAssumption DEF TypeOK
<1>2. IsFiniteSet(1 .. last)
  BY <1>1, FS_Interval
<1> QED BY <1>2, FS_Subset, FS_CardinalityType

\* While a request is not through there is an id for its group.
LEMMA IdLeft ==
    ASSUME TypeOK, IdsOk, NEW p \in Post, post[p].pc # "done"
    PROVE  nextId \in Group
<1>1. Done \subseteq Post /\ Done # Post
  BY DEF Done
<1>2. Cardinality(Done) < Cardinality(Post)
  BY <1>1, PostAssumption, FS_Subset, FS_CardinalityType
<1> QED BY <1>2, DoneFinite, PostSize DEF IdsOk, Group

\* What FindFree reads is free, and no more than was asked for.
LEMMA FindFreeReads ==
    ASSUME TypeOK, NEW p \in Post, NEW n \in Counts, FindFree(p, n)
    PROVE  \E found \in SUBSET FreeAccounts : /\ Cardinality(found) <= n
                                             /\ Read(p, n, found)
<1>1. CASE Cardinality(FreeAccounts) <= n
  BY <1>1 DEF FindFree
<1>2. CASE ~(Cardinality(FreeAccounts) <= n)
  <2>1. PICK found \in kSubset(n, FreeAccounts) : Read(p, n, found)
    BY <1>2 DEF FindFree
  <2>2. found \in SUBSET FreeAccounts /\ Cardinality(found) = n
    BY <2>1 DEF kSubset
  <2>3. n \in Nat
    BY CountsAssumption
  <2> QED BY <2>1, <2>2, <2>3
<1> QED BY <1>1, <1>2

-----------------------------------------------------------------------------
LEMMA InitInv == Init => Inv
<1> SUFFICES ASSUME Init PROVE Inv
  OBVIOUS
<1>1. Done = {} /\ Cardinality(Done) = 0
  BY FS_EmptySet DEF Done, Init, Idle
<1>2. seed \in 0 .. MaxAccounts
  BY SeedsAssumption DEF Init
<1>3. TypeOK
  BY <1>2, PostSize, AccountsAssumption DEF TypeOK, Init, Idle
<1>4. IdsOk
  BY <1>1 DEF IdsOk, Init
<1>5. MembersOk /\ OwnOk /\ CountKept
  BY DEF MembersOk, OwnOk, CountKept, Init, Idle
<1> QED BY <1>3, <1>4, <1>5 DEF Inv

\* Reading the pool changes nothing but the request.
LEMMA ReadStep ==
    ASSUME Inv, NEW p \in Post, NEW n \in Counts,
           NEW found \in SUBSET FreeAccounts, Cardinality(found) <= n,
           Read(p, n, found)
    PROVE  Inv'
<1> USE DEF Inv
<1>1. n \in Nat /\ found \in SUBSET (1 .. last)
  BY CountsAssumption DEF FreeAccounts
<1>2. Cardinality(found) \in Nat
  BY <1>1, OwnFinite
<1>3. n - Cardinality(found) \in Nat
  BY <1>1, <1>2
<1>4. UNCHANGED <<seed, last, groupOf, row, count, nextId, overtaken>>
  BY DEF Read
<1>5. post' = [post EXCEPT ![p] =
                  [pc |-> IF Cardinality(found) < n THEN "create" ELSE "save",
                   count |-> n, own |-> found,
                   missing |-> n - Cardinality(found), rivals |-> {}]]
  BY DEF Read
<1>6. TypeOK'
  BY <1>1, <1>3, <1>4, <1>5 DEF TypeOK
<1>7. Done' = Done
  BY <1>5 DEF Done, Read, TypeOK
<1>8. IdsOk' /\ MembersOk' /\ CountKept'
  BY <1>4, <1>7 DEF IdsOk, MembersOk, CountKept, Held, Members
<1>9. OwnOk'
  <2> SUFFICES ASSUME NEW q \in Post, post'[q].pc \in {"create", "save"}
               PROVE  /\ Cardinality(post'[q].own) + post'[q].missing = post'[q].count
                      /\ post'[q].pc = "save" => post'[q].missing = 0
                      /\ \A a \in post'[q].own :
                            groupOf'[a] = NoGroup \/ groupOf'[a] \in post'[q].rivals
    BY DEF OwnOk
  <2>1. CASE q = p
    <3>1. /\ post'[p].own = found /\ post'[p].missing = n - Cardinality(found)
          /\ post'[p].count = n
          /\ post'[p].pc = IF Cardinality(found) < n THEN "create" ELSE "save"
      BY <1>5 DEF TypeOK
    <3>2. \A a \in found : groupOf[a] = NoGroup
      BY DEF FreeAccounts
    <3> QED BY <1>1, <1>2, <1>4, <2>1, <3>1, <3>2
  <2>2. CASE q # p
    BY <1>4, <1>5, <2>2 DEF OwnOk, TypeOK
  <2> QED BY <2>1, <2>2
<1> QED BY <1>6, <1>8, <1>9

\* An account that is created joins the list of its request.
LEMMA CreateStep ==
    ASSUME Inv, NEW p \in Post, CreateAccount(p)
    PROVE  Inv'
<1> USE DEF Inv
<1> DEFINE joins == post[p].pc = "create"
           new == [post[p] EXCEPT
                     !.missing = @ - 1,
                     !.own = IF joins THEN @ \cup {last + 1} ELSE @,
                     !.pc = IF @ = "create" /\ post[p].missing = 1 THEN "save" ELSE @]
<1>1. /\ post[p].pc \in {"create", "failed"}
      /\ post[p].missing \in Nat /\ post[p].missing > 0
      /\ last \in Nat /\ last + 1 \in Account /\ last' = last + 1
      /\ UNCHANGED <<seed, groupOf, row, count, nextId, overtaken>>
  BY AccountsAssumption DEF CreateAccount, Created, TypeOK, Account
<1>2. post' = [post EXCEPT ![p] = new]
  BY DEF CreateAccount, Created, TypeOK
<1>3. /\ new.missing = post[p].missing - 1 /\ new.rivals = post[p].rivals
      /\ new.count = post[p].count
      /\ new.own = IF joins THEN post[p].own \cup {last + 1} ELSE post[p].own
      /\ new.pc = IF joins /\ post[p].missing = 1 THEN "save" ELSE post[p].pc
  BY DEF TypeOK
<1>4. new \in [pc      : {"idle", "create", "save", "failed", "done"},
               count   : Counts \cup {0},
               own     : SUBSET (1 .. last'),
               missing : Nat,
               rivals  : SUBSET Group]
  <2>1. /\ post[p].missing - 1 \in Nat
        /\ post[p].own \in SUBSET (1 .. last') /\ last + 1 \in 1 .. last'
    BY <1>1 DEF TypeOK
  <2>2. post[p].own \cup {last + 1} \in SUBSET (1 .. last')
    BY <2>1
  <2>3. post[p] \in [pc      : {"idle", "create", "save", "failed", "done"},
                     count   : Counts \cup {0},
                     own     : SUBSET (1 .. last'),
                     missing : Nat,
                     rivals  : SUBSET Group]
    BY <2>1 DEF TypeOK
  <2> QED BY <2>1, <2>2, <2>3
<1> HIDE DEF new
<1>5. 1 .. last \subseteq 1 .. last'
  BY <1>1
<1>6. TypeOK'
  BY <1>1, <1>2, <1>4, <1>5 DEF TypeOK, Account
<1>7. Done' = Done
  BY <1>1, <1>2, <1>3 DEF Done, TypeOK
<1>8. IdsOk' /\ MembersOk' /\ CountKept'
  BY <1>1, <1>7 DEF IdsOk, MembersOk, CountKept, Held, Members, TypeOK, Account
<1>9. OwnOk'
  <2> SUFFICES ASSUME NEW q \in Post, post'[q].pc \in {"create", "save"}
               PROVE  /\ Cardinality(post'[q].own) + post'[q].missing = post'[q].count
                      /\ post'[q].pc = "save" => post'[q].missing = 0
                      /\ \A a \in post'[q].own :
                            groupOf'[a] = NoGroup \/ groupOf'[a] \in post'[q].rivals
    BY DEF OwnOk
  <2>1. CASE q = p
    <3>1. joins /\ post'[p] = new
      BY <1>1, <1>2, <1>3, <2>1 DEF TypeOK
    <3>2. last + 1 \notin post[p].own /\ post[p].own \in SUBSET (1 .. last)
      BY <1>1 DEF TypeOK
    <3>3. Cardinality(new.own) = Cardinality(post[p].own) + 1
      BY <1>3, <3>1, <3>2, OwnFinite, FS_AddElement
    <3>4. Cardinality(post[p].own) \in Nat
      BY <3>2, OwnFinite
    <3>5. Cardinality(post[p].own) + post[p].missing = post[p].count
      BY <3>1 DEF OwnOk
    <3>6. Cardinality(new.own) + new.missing = new.count
      BY <1>1, <1>3, <3>3, <3>4, <3>5
    <3>7. new.pc = "save" => new.missing = 0
      BY <1>1, <1>3, <3>1
    <3>8. groupOf[last + 1] = NoGroup
      BY <1>1 DEF MembersOk
    <3>9. \A a \in new.own : groupOf'[a] = NoGroup \/ groupOf'[a] \in new.rivals
      BY <1>1, <1>3, <3>1, <3>8 DEF OwnOk
    <3> QED BY <2>1, <3>1, <3>6, <3>7, <3>9
  <2>2. CASE q # p
    BY <1>1, <1>2, <2>2 DEF OwnOk, TypeOK
  <2> QED BY <2>1, <2>2
<1> QED BY <1>6, <1>8, <1>9

\* A request that fails leaves everything as it is.
LEMMA FailStep ==
    ASSUME Inv, NEW p \in Post, FailCreate(p) \/ FailSave(p)
    PROVE  Inv'
<1> USE DEF Inv
<1>1. /\ UNCHANGED <<seed, last, groupOf, row, count, nextId, overtaken>>
      /\ post[p].pc # "done"
  BY DEF FailCreate, FailSave
<1>2. \E m \in Nat : post' = [post EXCEPT ![p].missing = m, ![p].pc = "failed"]
  <2>1. CASE FailCreate(p)
    <3>1. post[p].missing - 1 \in Nat
      BY <2>1 DEF FailCreate, TypeOK
    <3> QED BY <2>1, <3>1 DEF FailCreate
  <2>2. CASE FailSave(p)
    <3>1. post[p].missing \in Nat
      BY DEF TypeOK
    <3>2. post' = [post EXCEPT ![p].missing = post[p].missing, ![p].pc = "failed"]
      BY <2>2 DEF FailSave, TypeOK
    <3> QED BY <3>1, <3>2
  <2> QED BY <2>1, <2>2
<1>3. TypeOK'
  <2>1. PICK m \in Nat : post' = [post EXCEPT ![p].missing = m, ![p].pc = "failed"]
    BY <1>2
  <2>2. post' \in [Post -> [pc      : {"idle", "create", "save", "failed", "done"},
                            count   : Counts \cup {0},
                            own     : SUBSET (1 .. last),
                            missing : Nat,
                            rivals  : SUBSET Group]]
    BY <2>1 DEF TypeOK
  <2> QED BY <1>1, <2>2 DEF TypeOK
<1>4. \A q \in Post : post'[q] = post[q] \/ (q = p /\ post'[q].pc = "failed")
  BY <1>2 DEF TypeOK
<1>5. Done' = Done
  BY <1>1, <1>4 DEF Done
<1>6. IdsOk' /\ MembersOk' /\ CountKept'
  BY <1>1, <1>5 DEF IdsOk, MembersOk, CountKept, Held, Members
<1>7. OwnOk'
  BY <1>1, <1>4 DEF OwnOk
<1> QED BY <1>3, <1>6, <1>7

\* The new group takes the accounts of its list, from the groups saved since
\* the list was read at most: those are overtaken.
LEMMA SaveStep ==
    ASSUME Inv, NEW p \in Post, SaveGroup(p)
    PROVE  Inv'
<1> USE DEF Inv
<1>1. nextId \in Group /\ post[p].pc = "save"
  BY IdLeft DEF SaveGroup
<1>2. /\ row' = [row EXCEPT ![nextId] = "live"]
      /\ count' = [count EXCEPT ![nextId] = post[p].count]
      /\ groupOf' = [a \in Account |-> IF a \in post[p].own THEN nextId ELSE groupOf[a]]
      /\ nextId' = nextId + 1
      /\ overtaken' = overtaken \cup post[p].rivals
      /\ UNCHANGED <<seed, last>>
  BY DEF SaveGroup
<1>3. post' = [q \in Post |->
                  IF q = p THEN [Idle EXCEPT !.pc = "done"]
                  ELSE IF post[q].pc \in {"create", "save"}
                  THEN [post[q] EXCEPT !.rivals = @ \cup {nextId}]
                  ELSE post[q]]
  BY DEF SaveGroup
<1>4. row[nextId] = "none" /\ \A a \in Account : groupOf[a] # nextId
  BY <1>1 DEF IdsOk, MembersOk, Held, TypeOK, NoGroup, Group
<1>5. nextId \in Nat /\ nextId # NoGroup /\ nextId + 1 \in 1 .. Cardinality(Post) + 1
  BY <1>1, PostSize DEF Group, NoGroup
<1>6. TypeOK'
  <2>1. post' \in [Post -> [pc      : {"idle", "create", "save", "failed", "done"},
                            count   : Counts \cup {0},
                            own     : SUBSET (1 .. last),
                            missing : Nat,
                            rivals  : SUBSET Group]]
    BY <1>1, <1>3 DEF TypeOK, Idle
  <2>2. row' \in [Group -> {"none", "live", "erased", "released"}]
    BY <1>2 DEF TypeOK
  <2>3. count' \in [Group -> Counts \cup {0}]
    BY <1>2 DEF TypeOK
  <2>4. groupOf' \in [Account -> Group \cup {NoGroup}]
    BY <1>1, <1>2 DEF TypeOK
  <2>5. overtaken' \subseteq Group
    BY <1>2 DEF TypeOK
  <2> QED BY <1>2, <1>5, <2>1, <2>2, <2>3, <2>4, <2>5 DEF TypeOK
<1>7. IdsOk'
  <2>1. Done' = Done \cup {p} /\ p \notin Done
    BY <1>1, <1>3 DEF Done, Idle, TypeOK
  <2>2. Cardinality(Done') = Cardinality(Done) + 1
    BY <2>1, DoneFinite, FS_AddElement
  <2>3. \A g \in Group : g >= nextId + 1 => row'[g] = "none"
    BY <1>1, <1>2, <1>5 DEF IdsOk, TypeOK, Group
  <2> QED BY <1>2, <1>5, <2>2, <2>3, DoneFinite DEF IdsOk
<1>8. MembersOk'
  <2>3. \A a \in Account : a \in post[p].own => ~(a > last)
    BY AccountsAssumption DEF TypeOK, Account
  <2>4. \A a \in Account : groupOf'[a] # NoGroup => Held(groupOf[a])'
    <3> SUFFICES ASSUME NEW a \in Account, groupOf'[a] # NoGroup
                 PROVE  Held(groupOf[a])'
      OBVIOUS
    <3>1. CASE a \in post[p].own
      <4>1. groupOf'[a] = nextId
        BY <1>2, <3>1
      <4> QED BY <1>1, <1>2, <4>1 DEF Held, TypeOK
    <3>2. CASE a \notin post[p].own
      <4>1. groupOf'[a] = groupOf[a] /\ groupOf[a] \in Group /\ Held(groupOf[a])
        BY <1>2, <3>2 DEF MembersOk, TypeOK
      <4> QED BY <1>1, <1>2, <4>1 DEF Held, TypeOK
    <3> QED BY <3>1, <3>2
  <2>5. \A a \in Account : a > last' => groupOf'[a] = NoGroup
    BY <1>2, <2>3 DEF MembersOk
  <2> QED BY <2>4, <2>5 DEF MembersOk
<1>9. OwnOk'
  <2> SUFFICES ASSUME NEW q \in Post, post'[q].pc \in {"create", "save"}
               PROVE  /\ Cardinality(post'[q].own) + post'[q].missing = post'[q].count
                      /\ post'[q].pc = "save" => post'[q].missing = 0
                      /\ \A a \in post'[q].own :
                            groupOf'[a] = NoGroup \/ groupOf'[a] \in post'[q].rivals
    BY DEF OwnOk
  <2>1. q # p
    BY <1>3 DEF Idle
  <2>2. post[q].pc \in {"create", "save"}
    BY <1>3, <2>1
  <2>3. /\ post'[q].own = post[q].own /\ post'[q].missing = post[q].missing
        /\ post'[q].count = post[q].count /\ post'[q].pc = post[q].pc
        /\ post'[q].rivals = post[q].rivals \cup {nextId}
    BY <1>3, <2>1, <2>2 DEF TypeOK
  <2>4. post[q].own \subseteq Account
    BY AccountsAssumption DEF TypeOK, Account
  <2>5. \A a \in post[q].own :
           groupOf'[a] = NoGroup \/ groupOf'[a] \in post[q].rivals \cup {nextId}
    BY <1>2, <2>2, <2>4 DEF OwnOk
  <2> QED BY <2>2, <2>3, <2>5 DEF OwnOk
<1>10. CountKept'
  <2> SUFFICES ASSUME NEW g \in Group, row'[g] = "live", g \notin overtaken'
               PROVE  Cardinality(Members(g)') = count'[g]
    BY DEF CountKept
  <2>1. post[p].own \subseteq Account
    BY AccountsAssumption DEF TypeOK, Account
  <2>2. CASE g = nextId
    <3>1. Members(g)' = post[p].own
      BY <1>2, <1>4, <2>1, <2>2 DEF Members
    <3>2. Cardinality(post[p].own) \in Nat /\ post[p].count \in Nat \cup {0}
      BY OwnFinite, CountsAssumption DEF TypeOK
    <3>3. count'[g] = post[p].count
      BY <1>1, <1>2, <2>2 DEF TypeOK
    <3>4. Cardinality(post[p].own) + post[p].missing = post[p].count /\ post[p].missing = 0
      BY <1>1 DEF OwnOk
    <3> QED BY <3>1, <3>2, <3>3, <3>4
  <2>3. CASE g # nextId
    <3>1. g # NoGroup
      BY DEF Group, NoGroup
    <3>2. \A a \in post[p].own : groupOf[a] # g
      BY <1>1, <1>2, <3>1 DEF OwnOk
    <3>3. Members(g)' = Members(g)
      BY <1>2, <2>3, <3>2 DEF Members
    <3>4. row[g] = "live" /\ count'[g] = count[g] /\ g \notin overtaken
      BY <1>1, <1>2, <2>3 DEF TypeOK
    <3> QED BY <3>3, <3>4 DEF CountKept
  <2> QED BY <2>2, <2>3
<1> QED BY <1>6, <1>7, <1>8, <1>9, <1>10

\* A row that is deleted leaves the accounts where they are.
LEMMA DeleteStep ==
    ASSUME Inv, NEW g \in Group, DeleteRow(g)
    PROVE  Inv'
<1> USE DEF Inv
<1>1. /\ row[g] = "live" /\ row' = [row EXCEPT ![g] = "erased"]
      /\ UNCHANGED <<seed, last, groupOf, count, nextId, post, overtaken>>
  BY DEF DeleteRow
<1>2. TypeOK'
  BY <1>1 DEF TypeOK
<1>3. IdsOk'
  BY <1>1 DEF IdsOk, Done, TypeOK
<1>4. MembersOk'
  BY <1>1 DEF MembersOk, Held, TypeOK
<1>5. OwnOk' /\ CountKept'
  BY <1>1 DEF OwnOk, CountKept, Members, TypeOK
<1> QED BY <1>2, <1>3, <1>4, <1>5

\* Accounts that are released are free.
LEMMA FreeStep ==
    ASSUME Inv, NEW g \in Group, FreeGroup(g)
    PROVE  Inv'
<1> USE DEF Inv
<1>1. /\ row[g] = "erased" /\ row' = [row EXCEPT ![g] = "released"]
      /\ groupOf' = [a \in Account |-> IF a \in Members(g) THEN NoGroup ELSE groupOf[a]]
      /\ UNCHANGED <<seed, last, count, nextId, post, overtaken>>
  BY DEF FreeGroup, Released
<1>2. TypeOK'
  BY <1>1 DEF TypeOK
<1>3. IdsOk'
  BY <1>1 DEF IdsOk, Done, TypeOK
<1>4. MembersOk'
  BY <1>1 DEF MembersOk, Held, Members, TypeOK
<1>5. OwnOk'
  <2>1. \A q \in Post : post[q].own \subseteq Account
    BY AccountsAssumption DEF TypeOK, Account
  <2> QED BY <1>1, <2>1 DEF OwnOk
<1>6. CountKept'
  <2> SUFFICES ASSUME NEW h \in Group, row'[h] = "live", h \notin overtaken'
               PROVE  Cardinality(Members(h)') = count'[h]
    BY DEF CountKept
  <2>1. h # g /\ row[h] = "live"
    BY <1>1 DEF TypeOK
  <2>2. Members(h)' = Members(h)
    BY <1>1, <2>1 DEF Members, Group, NoGroup
  <2> QED BY <1>1, <2>1, <2>2 DEF CountKept
<1> QED BY <1>2, <1>3, <1>4, <1>5, <1>6

LEMMA StepInv == Inv /\ [Next]_vars => Inv'
<1> SUFFICES ASSUME Inv, [Next]_vars PROVE Inv'
  OBVIOUS
<1>1. CASE UNCHANGED vars
  BY <1>1 DEF vars, Inv, TypeOK, IdsOk, Done, MembersOk, OwnOk, CountKept, Held, Members
<1>2. ASSUME NEW p \in Post, NEW n \in Counts, FindFree(p, n) PROVE Inv'
  BY <1>2, FindFreeReads, ReadStep DEF Inv
<1>3. ASSUME NEW p \in Post, CreateAccount(p) PROVE Inv'
  BY <1>3, CreateStep
<1>4. ASSUME NEW p \in Post, FailCreate(p) \/ FailSave(p) PROVE Inv'
  BY <1>4, FailStep
<1>5. ASSUME NEW p \in Post, SaveGroup(p) PROVE Inv'
  BY <1>5, SaveStep
<1>6. ASSUME NEW g \in Group, DeleteRow(g) PROVE Inv'
  BY <1>6, DeleteStep
<1>7. ASSUME NEW g \in Group, FreeGroup(g) PROVE Inv'
  BY <1>7, FreeStep
<1> QED BY <1>1, <1>2, <1>3, <1>4, <1>5, <1>6, <1>7 DEF Next, Request

\* The variables have their types.
THEOREM TypeCorrect == Spec => []TypeOK
<1>1. Inv => TypeOK
  BY DEF Inv
<1> QED BY <1>1, InitInv, StepInv, PTL DEF Spec

\* A group that is not stopped has as many accounts as its row says, unless it
\* was saved between another request's reading of the pool and its saving
\* (createAccountGroup, user.service.ts:36-47).
THEOREM CountKeptCorrect == Spec => []CountKept
<1>1. Inv => CountKept
  BY DEF Inv
<1> QED BY <1>1, InitInv, StepInv, PTL DEF Spec

-----------------------------------------------------------------------------
(* Who takes an account away                                               *)

LEMMA RobbedStep ==
    ASSUME Inv, [Next]_vars,
           NEW a \in Account, groupOf[a] # NoGroup, groupOf'[a] # groupOf[a]
    PROVE  \/ row[groupOf[a]] = "erased" /\ groupOf'[a] = NoGroup
           \/ \E p \in Post : /\ post[p].pc = "save"
                              /\ post'[p].pc = "done"
                              /\ a \in post[p].own
                              /\ groupOf[a] \in post[p].rivals
<1>1. CASE UNCHANGED vars
  BY <1>1 DEF vars
<1>2. ASSUME NEW p \in Post, NEW n \in Counts, FindFree(p, n) PROVE groupOf' = groupOf
  BY <1>2, FindFreeReads DEF Inv, Read
<1>3. ASSUME NEW p \in Post, CreateAccount(p) \/ FailCreate(p) \/ FailSave(p)
      PROVE  groupOf' = groupOf
  BY <1>3 DEF CreateAccount, Created, FailCreate, FailSave
<1>4. ASSUME NEW p \in Post, SaveGroup(p)
      PROVE  /\ post[p].pc = "save" /\ post'[p].pc = "done"
             /\ a \in post[p].own /\ groupOf[a] \in post[p].rivals
  <2>1. post[p].pc = "save" /\ post'[p].pc = "done"
    BY <1>4 DEF SaveGroup, Idle
  <2>2. a \in post[p].own
    BY <1>4 DEF SaveGroup
  <2> QED BY <2>1, <2>2 DEF Inv, OwnOk
<1>5. ASSUME NEW g \in Group, DeleteRow(g) PROVE groupOf' = groupOf
  BY <1>5 DEF DeleteRow
<1>6. ASSUME NEW g \in Group, FreeGroup(g)
      PROVE  row[groupOf[a]] = "erased" /\ groupOf'[a] = NoGroup
  BY <1>6 DEF FreeGroup, Released, Members
<1> QED BY <1>1, <1>2, <1>3, <1>4, <1>5, <1>6 DEF Next, Request

\* An account leaves a group only when the group is released, or for a request
\* that read the pool before the group was saved (user.service.ts:36-47).
THEOREM RobbedByRivalsCorrect == Spec => RobbedByRivals
<1>1. Inv /\ [Next]_vars =>
        [\A a \in Account :
          LET g == groupOf[a]
          IN  g # NoGroup /\ groupOf'[a] # g =>
                 \/ row[g] = "erased" /\ groupOf'[a] = NoGroup
                 \/ \E p \in Post : /\ post[p].pc = "save"
                                    /\ post'[p].pc = "done"
                                    /\ a \in post[p].own
                                    /\ g \in post[p].rivals]_vars
  BY RobbedStep
<1> QED BY <1>1, InitInv, StepInv, PTL DEF Spec, RobbedByRivals

-----------------------------------------------------------------------------
(* How many accounts there come to be                                      *)
(*                                                                         *)
(* A request that creates accounts has found every free account, and they  *)
(* were not enough.  So all the accounts there are then, and all that are  *)
(* still to be created, are accounts of groups, or promised to requests,   *)
(* or among the n it was asked for.                                        *)

\* Saves are under way only for requests that count, and not for more than was
\* asked for; a group has no more accounts than it was saved with.
PromisesOk ==
    /\ \A p \in Post : post[p].missing > 0 => /\ InProgress(p)
                                             /\ post[p].missing <= post[p].count
    /\ \A g \in Group : Held(g) => Cardinality(Members(g)) <= count[g]

PoolInv == PromisesOk /\ peak \in Nat /\ PoolBounded

Missing == [p \in Post |-> post[p].missing]

Attached == {a \in 1 .. last : groupOf[a] # NoGroup}

LEMMA GroupFinite == IsFiniteSet(Group)
<1>1. Cardinality(Post) \in Int
  BY PostSize
<1> QED BY <1>1, FS_Interval DEF Group

LEMMA Numbers ==
    ASSUME TypeOK
    PROVE  /\ seed \in Nat /\ last \in Nat /\ Counts \subseteq Nat /\ IsFiniteSet(Account)
           /\ \A p \in Post : /\ post[p].missing \in Nat /\ post[p].count \in Nat
                              /\ Missing[p] \in Int /\ Asked[p] \in Int
           /\ \A g \in Group : count[g] \in Nat /\ Owed[g] \in Int
           /\ Planned = SumFunctionOnSet(Missing, Post)
           /\ Planned \in Int /\ Demand \in Int
<1>1. seed \in Nat /\ last \in Nat /\ Counts \subseteq Nat
  BY SeedsAssumption, CountsAssumption, AccountsAssumption DEF TypeOK
<1>0. \A c \in Counts \cup {0} : c \in Nat
  BY CountsAssumption
<1>2. \A p \in Post : /\ post[p].missing \in Nat /\ post[p].count \in Nat
                      /\ Missing[p] \in Int /\ Asked[p] \in Int
  <2> SUFFICES ASSUME NEW p \in Post
               PROVE  /\ post[p].missing \in Nat /\ post[p].count \in Nat
                      /\ Missing[p] \in Int /\ Asked[p] \in Int
    OBVIOUS
  <2>1. post[p].missing \in Nat /\ post[p].count \in Counts \cup {0}
    BY DEF TypeOK
  <2>2. post[p].count \in Nat
    BY <1>0, <2>1
  <2>3. Missing[p] = post[p].missing /\ (Asked[p] = post[p].count \/ Asked[p] = 0)
    BY DEF Missing, Asked
  <2> QED BY <2>1, <2>2, <2>3
<1>3. \A g \in Group : count[g] \in Nat /\ Owed[g] \in Int
  <2> SUFFICES ASSUME NEW g \in Group
               PROVE  count[g] \in Nat /\ Owed[g] \in Int
    OBVIOUS
  <2>1. count[g] \in Counts \cup {0}
    BY DEF TypeOK
  <2>2. Owed[g] = count[g] \/ Owed[g] = 0
    BY DEF Owed
  <2> QED BY <1>0, <2>1, <2>2
<1>4. Planned = SumFunctionOnSet(Missing, Post)
  BY DEF Planned, Missing
<1>5. /\ SumFunctionOnSet(Missing, Post) \in Int
      /\ SumFunctionOnSet(Asked, Post) \in Int
      /\ SumFunctionOnSet(Owed, Group) \in Int
  BY <1>2, <1>3, PostAssumption, GroupFinite, SumType
<1>6. 1 \in Int /\ MaxAccounts \in Int
  BY AccountsAssumption
<1>7. IsFiniteSet(Account)
  BY <1>6, FS_Interval DEF Account
<1> QED BY <1>1, <1>2, <1>3, <1>4, <1>5, <1>7 DEF Demand

\* What is still to be created has been asked for.
LEMMA PlannedAsked ==
    ASSUME TypeOK, PromisesOk
    PROVE  Planned <= SumFunctionOnSet(Asked, Post)
<1>1. \A p \in Post : Missing[p] <= Asked[p]
  BY Numbers DEF PromisesOk, Missing, Asked
<1> QED BY <1>1, Numbers, PostAssumption, SumMonotone

\* The accounts that are in groups are owed to them.
LEMMA AttachedOwed ==
    ASSUME TypeOK, MembersOk, PromisesOk
    PROVE  /\ IsFiniteSet(Attached)
           /\ Cardinality(Attached) <= SumFunctionOnSet(Owed, Group)
<1> DEFINE F == [g \in Group |-> IF Held(g) THEN Members(g) ELSE {}]
<1>1. \A g \in Group : IsFiniteSet(F[g]) /\ Cardinality(F[g]) <= Owed[g]
  <2> SUFFICES ASSUME NEW g \in Group
               PROVE  IsFiniteSet(F[g]) /\ Cardinality(F[g]) <= Owed[g]
    OBVIOUS
  <2>1. CASE Held(g)
    <3>1. IsFiniteSet(Members(g))
      BY Numbers, FS_Subset DEF Members
    <3> QED BY <2>1, <3>1 DEF PromisesOk, Owed
  <2>2. CASE ~Held(g)
    <3>1. F[g] = {} /\ Owed[g] = 0
      BY <2>2 DEF Owed
    <3> QED BY <3>1, FS_EmptySet
  <2> QED BY <2>1, <2>2
<1>2. Attached = UNION {F[g] : g \in Group}
  <2>1. 1 .. last \subseteq Account
    BY AccountsAssumption DEF TypeOK, Account
  <2>2. ASSUME NEW a \in Attached PROVE a \in UNION {F[g] : g \in Group}
    <3>1. a \in Account /\ groupOf[a] \in Group /\ Held(groupOf[a])
      BY <2>1 DEF Attached, TypeOK, MembersOk
    <3>2. a \in F[groupOf[a]]
      BY <3>1 DEF Members
    <3> QED BY <3>1, <3>2
  <2>3. ASSUME NEW g \in Group, NEW a \in F[g] PROVE a \in Attached
    <3>1. a \in Account /\ groupOf[a] = g /\ g # NoGroup
      BY DEF Members, Group, NoGroup
    <3>2. a \in 1 .. last
      BY <3>1, Numbers DEF MembersOk, Account
    <3> QED BY <3>1, <3>2 DEF Attached
  <2> QED BY <2>2, <2>3
<1>3. \A g \in Group : Owed[g] \in Int
  BY Numbers
<1>4. IsFiniteSet(Attached)
  BY OwnFinite DEF Attached
<1> HIDE DEF F
<1> QED BY <1>1, <1>2, <1>3, <1>4, GroupFinite, SumCovers

\* Whoever is not in a group is free.
LEMMA FreeOrAttached ==
    ASSUME TypeOK
    PROVE  /\ Cardinality(FreeAccounts) \in Nat /\ Cardinality(Attached) \in Nat
           /\ Cardinality(FreeAccounts) + Cardinality(Attached) = last
<1>1. /\ IsFiniteSet(FreeAccounts) /\ IsFiniteSet(Attached)
      /\ Cardinality(FreeAccounts) \in Nat /\ Cardinality(Attached) \in Nat
  BY OwnFinite DEF FreeAccounts, Attached
<1>2. FreeAccounts \cup Attached = 1 .. last /\ FreeAccounts \cap Attached = {}
  BY DEF FreeAccounts, Attached
<1>3. Cardinality(FreeAccounts \cup Attached) = last
  <2>1. last \in Nat /\ 1 \in Int /\ last \in Int
    BY Numbers
  <2>2. Cardinality(1 .. last) = IF 1 > last THEN 0 ELSE last - 1 + 1
    BY <2>1, FS_Interval
  <2>3. Cardinality(1 .. last) = last
    BY <2>1, <2>2
  <2> QED BY <1>2, <2>3
<1>4. Cardinality(FreeAccounts \cup Attached)
      = Cardinality(FreeAccounts) + Cardinality(Attached) - Cardinality({})
  BY <1>1, <1>2, FS_Union
<1>5. Cardinality({}) = 0
  BY FS_EmptySet
<1>6. Cardinality(FreeAccounts) + Cardinality(Attached) = last
  BY <1>1, <1>3, <1>4, <1>5
<1> QED BY <1>1, <1>6

\* What is found, unless there is enough, is all there is.
LEMMA FindFreeReadsAll ==
    ASSUME TypeOK, NEW p \in Post, NEW n \in Counts, FindFree(p, n)
    PROVE  \E found \in SUBSET FreeAccounts :
              /\ Read(p, n, found)
              /\ Cardinality(found) = n \/ (Cardinality(found) < n /\ found = FreeAccounts)
<1>1. n \in Nat /\ Cardinality(FreeAccounts) \in Nat
  BY Numbers, FreeOrAttached
<1>2. CASE Cardinality(FreeAccounts) <= n
  BY <1>1, <1>2 DEF FindFree
<1>3. CASE ~(Cardinality(FreeAccounts) <= n)
  <2>1. PICK found \in kSubset(n, FreeAccounts) : Read(p, n, found)
    BY <1>3 DEF FindFree
  <2>2. found \in SUBSET FreeAccounts /\ Cardinality(found) = n
    BY <2>1 DEF kSubset
  <2> QED BY <2>1, <2>2
<1> QED BY <1>2, <1>3

LEMMA InitPool == Init => PoolInv
<1> SUFFICES ASSUME Init PROVE PoolInv
  OBVIOUS
<1>1. TypeOK
  BY InitInv DEF Inv
<1>2. \A p \in Post : Missing[p] = 0 /\ post[p].missing = 0
  BY DEF Init, Missing, Idle
<1>3. Planned = 0
  BY <1>1, <1>2, Numbers, PostAssumption, SumZero
<1>4. PromisesOk
  BY <1>2 DEF PromisesOk, Init, Held
<1> QED BY <1>1, <1>3, <1>4, Numbers DEF PoolInv, PoolBounded, AtLeast, Init

\* A request that reads the pool: what it is missing, it was asked for.
LEMMA ReadPool ==
    ASSUME Inv, PoolInv, NEW p \in Post, NEW n \in Counts, FindFree(p, n)
    PROVE  PoolInv'
<1>1. PICK found \in SUBSET FreeAccounts :
         /\ Read(p, n, found)
         /\ Cardinality(found) = n \/ (Cardinality(found) < n /\ found = FreeAccounts)
  BY FindFreeReadsAll DEF Inv
<1> DEFINE m == n - Cardinality(found)
<1>2. n \in Nat /\ Cardinality(found) \in Nat /\ m \in Nat /\ m <= n
  <2>1. found \in SUBSET (1 .. last)
    BY DEF FreeAccounts
  <2> QED BY <1>1, <2>1, Numbers, OwnFinite DEF Inv
<1>3. /\ post[p].pc = "idle" /\ peak' = AtLeast(peak, Demand + n)
      /\ UNCHANGED <<seed, last, groupOf, row, count>>
      /\ post' = [post EXCEPT ![p] =
                    [pc |-> IF Cardinality(found) < n THEN "create" ELSE "save",
                     count |-> n, own |-> found, missing |-> m, rivals |-> {}]]
  BY <1>1 DEF Read
<1>4. /\ post'[p].missing = m /\ post'[p].count = n /\ post'[p].pc \in {"create", "save"}
      /\ \A q \in Post \ {p} : post'[q] = post[q]
  BY <1>3 DEF Inv, TypeOK
<1>5. TypeOK' /\ TypeOK
  BY <1>1, <1>2, ReadStep DEF Inv
<1>6. post[p].missing = 0
  BY <1>3, Numbers DEF PoolInv, PromisesOk, InProgress, Inv
<1>7. PromisesOk'
  <2>1. \A q \in Post : post'[q].missing > 0 => InProgress(q)' /\ post'[q].missing <= post'[q].count
    BY <1>2, <1>4 DEF PoolInv, PromisesOk, InProgress
  <2>2. \A g \in Group : Held(g)' => Cardinality(Members(g)') <= count'[g]
    BY <1>3 DEF PoolInv, PromisesOk, Held, Members
  <2> QED BY <2>1, <2>2 DEF PromisesOk
<1>8. Planned' = Planned + m
  <2>1. \A q \in Post : Missing[q] \in Int /\ Missing'[q] \in Int
    BY <1>5, <1>4, <1>2, Numbers DEF Missing
  <2>2. Missing[p] = 0 /\ Missing'[p] = m /\ \A q \in Post \ {p} : Missing[q] = Missing'[q]
    BY <1>4, <1>6 DEF Missing
  <2>3. SumFunctionOnSet(Missing', Post) = SumFunctionOnSet(Missing, Post) + (m - 0)
    BY <2>1, <2>2, PostAssumption, SumUpdate
  <2>4. Planned' = SumFunctionOnSet(Missing', Post)
    BY DEF Planned, Missing
  <2> QED BY <1>2, <1>5, <2>3, <2>4, Numbers
<1>9. peak' \in Nat /\ peak' >= peak /\ peak' >= Demand + n
  BY <1>2, <1>3, <1>5, Numbers DEF AtLeast, PoolInv
<1>10. last + Planned + m <= AtLeast(seed, peak')
  <2>1. CASE m = 0
    BY <1>5, <1>9, <2>1, Numbers DEF PoolInv, PoolBounded, AtLeast
  <2>2. CASE m > 0
    <3>1. found = FreeAccounts
      BY <1>1, <1>2, <2>2
    <3>2. last = Cardinality(found) + Cardinality(Attached) /\ Cardinality(Attached) \in Nat
      BY <1>5, <3>1, FreeOrAttached
    <3>3. /\ Cardinality(Attached) <= SumFunctionOnSet(Owed, Group)
          /\ Planned <= SumFunctionOnSet(Asked, Post)
      BY AttachedOwed, PlannedAsked DEF Inv, PoolInv
    <3>4. /\ SumFunctionOnSet(Owed, Group) \in Int /\ SumFunctionOnSet(Asked, Post) \in Int
          /\ Planned \in Int
      BY <1>5, Numbers, GroupFinite, PostAssumption, SumType
    <3>5. last + Planned + m <= Demand + n
      BY <1>2, <3>2, <3>3, <3>4 DEF Demand
    <3> QED BY <1>2, <1>5, <1>9, <3>4, <3>5, Numbers DEF AtLeast
  <2> QED BY <1>2, <2>1, <2>2
<1>11. PoolBounded'
  BY <1>3, <1>5, <1>8, <1>10, <1>2, Numbers DEF PoolBounded, AtLeast
<1> QED BY <1>7, <1>9, <1>11 DEF PoolInv

\* A step after which a request is missing d less, and there are at most d more
\* accounts; nothing else changes that counts.
LEMMA AnswerPool ==
    ASSUME Inv, PoolInv, TypeOK', NEW p \in Post, NEW d \in Nat,
           post[p].missing >= d,
           post'[p].missing = post[p].missing - d, post'[p].count = post[p].count,
           \A q \in Post \ {p} : post'[q].missing = post[q].missing,
           last' <= last + d, seed' = seed, peak' = peak, PromisesOk'
    PROVE  PoolInv'
<1>1. \A q \in Post : Missing[q] \in Int /\ Missing'[q] \in Int
  BY Numbers DEF Missing, Inv, TypeOK
<1>2. /\ Missing'[p] = Missing[p] - d
      /\ \A q \in Post \ {p} : Missing[q] = Missing'[q]
  BY DEF Missing
<1>3. SumFunctionOnSet(Missing', Post) = SumFunctionOnSet(Missing, Post) + (Missing'[p] - Missing[p])
  BY <1>1, <1>2, PostAssumption, SumUpdate
<1>4. Planned' = SumFunctionOnSet(Missing', Post)
  BY DEF Planned, Missing
<1>5. Missing'[p] - Missing[p] = 0 - d
  BY <1>1, <1>2
<1>6. Planned' = Planned - d
  BY <1>3, <1>4, <1>5, Numbers DEF Inv
<1>7. last' \in Nat /\ last \in Nat /\ Planned \in Int /\ seed \in Nat /\ peak \in Nat
  BY Numbers DEF Inv, TypeOK, PoolInv
<1>8. AtLeast(seed, peak) \in Nat /\ AtLeast(seed, peak)' = AtLeast(seed, peak)
  BY <1>7 DEF AtLeast
<1>9. last + Planned <= AtLeast(seed, peak)
  BY DEF PoolInv, PoolBounded
<1>10. last' + Planned' <= AtLeast(seed, peak)'
  BY <1>6, <1>7, <1>8, <1>9
<1> QED BY <1>7, <1>10 DEF PoolInv, PoolBounded

LEMMA CreatePool ==
    ASSUME Inv, PoolInv, NEW p \in Post, CreateAccount(p)
    PROVE  PoolInv'
<1>1. /\ post[p].pc \in {"create", "failed"} /\ post[p].missing > 0
      /\ last' = last + 1 /\ UNCHANGED <<seed, groupOf, row, count, peak>>
  BY DEF CreateAccount, Created
<1>2. /\ post'[p].missing = post[p].missing - 1 /\ post'[p].count = post[p].count
      /\ post'[p].pc = IF post[p].pc = "create" /\ post[p].missing = 1
                       THEN "save" ELSE post[p].pc
      /\ \A q \in Post \ {p} : post'[q] = post[q]
  BY DEF CreateAccount, Created, Inv, TypeOK
<1>3. TypeOK'
  BY CreateStep DEF Inv
<1>4. post[p].missing \in Nat /\ post[p].count \in Nat /\ last \in Nat
  BY Numbers DEF Inv
<1>5. PromisesOk'
  <2>1. \A q \in Post : post'[q].missing > 0 => InProgress(q)' /\ post'[q].missing <= post'[q].count
    BY <1>1, <1>2, <1>4 DEF PoolInv, PromisesOk, InProgress
  <2>2. \A g \in Group : Held(g)' => Cardinality(Members(g)') <= count'[g]
    BY <1>1 DEF PoolInv, PromisesOk, Held, Members
  <2> QED BY <2>1, <2>2 DEF PromisesOk
<1>6. /\ post[p].missing >= 1 /\ last' <= last + 1
      /\ \A q \in Post \ {p} : post'[q].missing = post[q].missing
  BY <1>1, <1>2, <1>4
<1> QED BY <1>1, <1>2, <1>3, <1>5, <1>6, AnswerPool

LEMMA FailPool ==
    ASSUME Inv, PoolInv, NEW p \in Post, FailCreate(p) \/ FailSave(p)
    PROVE  PoolInv'
<1>1. UNCHANGED <<seed, last, groupOf, row, count, peak>>
  BY DEF FailCreate, FailSave
<1>2. post[p].missing \in Nat /\ post[p].count \in Nat /\ last \in Nat
  BY Numbers DEF Inv
<1>3. TypeOK'
  BY FailStep DEF Inv
<1>4. \E d \in Nat : /\ post[p].missing >= d /\ post'[p].missing = post[p].missing - d
                     /\ post'[p].count = post[p].count /\ post'[p].pc = "failed"
                     /\ \A q \in Post \ {p} : post'[q] = post[q]
  <2>1. CASE FailCreate(p)
    <3>1. /\ post[p].missing >= 1 /\ post'[p].missing = post[p].missing - 1
          /\ post'[p].count = post[p].count /\ post'[p].pc = "failed"
          /\ \A q \in Post \ {p} : post'[q] = post[q]
      BY <1>2, <2>1 DEF FailCreate, Inv, TypeOK
    <3> QED BY <3>1
  <2>2. CASE FailSave(p)
    <3>1. /\ post[p].missing >= 0 /\ post'[p].missing = post[p].missing - 0
          /\ post'[p].count = post[p].count /\ post'[p].pc = "failed"
          /\ \A q \in Post \ {p} : post'[q] = post[q]
      BY <1>2, <2>2 DEF FailSave, Inv, TypeOK
    <3> QED BY <3>1
  <2> QED BY <2>1, <2>2
<1>5. PICK d \in Nat : /\ post[p].missing >= d /\ post'[p].missing = post[p].missing - d
                       /\ post'[p].count = post[p].count /\ post'[p].pc = "failed"
                       /\ \A q \in Post \ {p} : post'[q] = post[q]
  BY <1>4
<1>6. PromisesOk'
  <2>1. \A q \in Post : post'[q].missing > 0 => InProgress(q)' /\ post'[q].missing <= post'[q].count
    BY <1>2, <1>5 DEF PoolInv, PromisesOk, InProgress
  <2>2. \A g \in Group : Held(g)' => Cardinality(Members(g)') <= count'[g]
    BY <1>1 DEF PoolInv, PromisesOk, Held, Members
  <2> QED BY <2>1, <2>2 DEF PromisesOk
<1>7. last' <= last + d /\ \A q \in Post \ {p} : post'[q].missing = post[q].missing
  BY <1>1, <1>2, <1>5
<1> QED BY <1>1, <1>3, <1>5, <1>6, <1>7, AnswerPool

\* The new group has the accounts of its list; others can only lose some.
LEMMA SavePool ==
    ASSUME Inv, PoolInv, NEW p \in Post, SaveGroup(p)
    PROVE  PoolInv'
<1>1. nextId \in Group /\ post[p].pc = "save" /\ row[nextId] = "none"
  <2>1. post[p].pc = "save" /\ nextId \in Group
    BY IdLeft DEF SaveGroup, Inv
  <2>2. nextId \in Int
    BY <2>1, PostSize DEF Group
  <2> QED BY <2>1, <2>2 DEF Inv, IdsOk
<1>2. /\ row' = [row EXCEPT ![nextId] = "live"]
      /\ count' = [count EXCEPT ![nextId] = post[p].count]
      /\ groupOf' = [a \in Account |-> IF a \in post[p].own THEN nextId ELSE groupOf[a]]
      /\ UNCHANGED <<seed, last, peak>>
      /\ post' = [q \in Post |->
                    IF q = p THEN [Idle EXCEPT !.pc = "done"]
                    ELSE IF post[q].pc \in {"create", "save"}
                    THEN [post[q] EXCEPT !.rivals = @ \cup {nextId}]
                    ELSE post[q]]
  BY DEF SaveGroup
<1>3. TypeOK'
  BY SaveStep DEF Inv
<1>4. post[p].missing = 0 /\ Cardinality(post[p].own) = post[p].count
  <2>1. /\ Cardinality(post[p].own) + post[p].missing = post[p].count
        /\ post[p].missing = 0 /\ Cardinality(post[p].own) \in Nat
    BY <1>1, OwnFinite DEF Inv, OwnOk, TypeOK
  <2> QED BY <2>1
<1>5. /\ post'[p].missing = 0
      /\ \A q \in Post \ {p} : /\ post'[q].missing = post[q].missing
                               /\ post'[q].count = post[q].count /\ post'[q].pc = post[q].pc
  BY <1>2 DEF Idle, Inv, TypeOK
<1>6. PromisesOk'
  <2>1. \A q \in Post : post'[q].missing > 0 => InProgress(q)' /\ post'[q].missing <= post'[q].count
    BY <1>5 DEF PoolInv, PromisesOk, InProgress
  <2>2. ASSUME NEW g \in Group, Held(g)'
        PROVE  Cardinality(Members(g)') <= count'[g]
    <3>1. IsFiniteSet(Account) /\ post[p].own \subseteq Account
      BY Numbers, AccountsAssumption DEF Inv, TypeOK, Account
    <3>2. CASE g = nextId
      <4>1. \A a \in Account : groupOf[a] # nextId
        BY <1>1 DEF Inv, MembersOk, Held, TypeOK, Group, NoGroup
      <4>2. Members(g)' = post[p].own
        BY <1>2, <3>1, <3>2, <4>1 DEF Members
      <4>3. count'[g] = post[p].count /\ count'[g] \in Nat
        BY <1>1, <1>2, <1>3, <3>2, CountsAssumption DEF Inv, TypeOK
      <4> QED BY <1>4, <4>2, <4>3
    <3>3. CASE g # nextId
      <4>1. Members(g)' \subseteq Members(g)
        BY <1>2, <3>3 DEF Members
      <4>2. IsFiniteSet(Members(g))
        BY <3>1, FS_Subset DEF Members
      <4>3. /\ Cardinality(Members(g)') \in Nat /\ Cardinality(Members(g)) \in Nat
            /\ Cardinality(Members(g)') <= Cardinality(Members(g))
        BY <4>1, <4>2, FS_Subset, FS_CardinalityType
      <4>4. Held(g) /\ count'[g] = count[g] /\ count[g] \in Nat
        BY <1>1, <1>2, <2>2, <3>3, Numbers DEF Held, Inv, TypeOK
      <4>5. Cardinality(Members(g)) <= count[g]
        BY <4>4 DEF PoolInv, PromisesOk
      <4> QED BY <4>3, <4>4, <4>5
    <3> QED BY <3>2, <3>3
  <2> QED BY <2>1, <2>2 DEF PromisesOk
<1>7. Planned' = Planned
  <2>1. \A q \in Post : Missing[q] \in Int /\ Missing[q] = Missing'[q]
    BY <1>4, <1>5, Numbers DEF Missing, Inv
  <2>2. SumFunctionOnSet(Missing, Post) = SumFunctionOnSet(Missing', Post)
    BY <2>1, PostAssumption, SumSame
  <2> QED BY <2>2 DEF Planned, Missing
<1> QED BY <1>2, <1>6, <1>7 DEF PoolInv, PoolBounded

\* Settlement only frees accounts.
LEMMA SettlePool ==
    ASSUME Inv, PoolInv, NEW g \in Group, DeleteRow(g) \/ FreeGroup(g)
    PROVE  PoolInv'
<1>1. /\ UNCHANGED <<seed, last, count, post, peak>>
      /\ \A h \in Group : Held(h)' => Held(h)
  BY DEF DeleteRow, FreeGroup, Released, Held, Inv, TypeOK
<1>2. \A h \in Group : Members(h)' \subseteq Members(h)
  <2>1. CASE DeleteRow(g)
    BY <2>1 DEF DeleteRow, Members
  <2>2. CASE FreeGroup(g)
    BY <2>2 DEF FreeGroup, Released, Members, Group, NoGroup
  <2> QED BY <2>1, <2>2
<1>3. PromisesOk'
  <2>1. \A q \in Post : post'[q].missing > 0 => InProgress(q)' /\ post'[q].missing <= post'[q].count
    BY <1>1 DEF PoolInv, PromisesOk, InProgress
  <2>2. ASSUME NEW h \in Group, Held(h)'
        PROVE  Cardinality(Members(h)') <= count'[h]
    <3>1. IsFiniteSet(Members(h))
      BY Numbers, FS_Subset DEF Members, Inv
    <3>2. /\ Cardinality(Members(h)') \in Nat /\ Cardinality(Members(h)) \in Nat
          /\ Cardinality(Members(h)') <= Cardinality(Members(h))
      BY <1>2, <3>1, FS_Subset, FS_CardinalityType
    <3>3. Cardinality(Members(h)) <= count[h] /\ count[h] \in Nat /\ count'[h] = count[h]
      BY <1>1, <2>2, Numbers DEF PoolInv, PromisesOk, Inv
    <3> QED BY <3>2, <3>3
  <2> QED BY <2>1, <2>2 DEF PromisesOk
<1> QED BY <1>1, <1>3 DEF PoolInv, PoolBounded, Planned

LEMMA StepPool == Inv /\ PoolInv /\ [Next]_vars => PoolInv'
<1> SUFFICES ASSUME Inv, PoolInv, [Next]_vars PROVE PoolInv'
  OBVIOUS
<1>1. CASE UNCHANGED vars
  BY <1>1 DEF vars, PoolInv, PromisesOk, InProgress, Held, Members, PoolBounded, Planned
<1>2. ASSUME NEW p \in Post, NEW n \in Counts, FindFree(p, n) PROVE PoolInv'
  BY <1>2, ReadPool
<1>3. ASSUME NEW p \in Post, CreateAccount(p) PROVE PoolInv'
  BY <1>3, CreatePool
<1>4. ASSUME NEW p \in Post, FailCreate(p) \/ FailSave(p) PROVE PoolInv'
  BY <1>4, FailPool
<1>5. ASSUME NEW p \in Post, SaveGroup(p) PROVE PoolInv'
  BY <1>5, SavePool
<1>6. ASSUME NEW g \in Group, DeleteRow(g) \/ FreeGroup(g) PROVE PoolInv'
  BY <1>6, SettlePool
<1> QED BY <1>1, <1>2, <1>3, <1>4, <1>5, <1>6 DEF Next, Request

\* There are never more accounts than were asked for at one time, or were there
\* at first, those included that are still being created: what failed requests
\* and lost rivalries have left over is found by the next request
\* (createAccountGroup, user.service.ts:35-44).
THEOREM PoolBoundedCorrect == Spec => []PoolBounded
<1>1. PoolInv => PoolBounded
  BY DEF PoolInv
<1> QED BY <1>1, InitInv, StepInv, InitPool, StepPool, PTL DEF Spec
=============================================================================
