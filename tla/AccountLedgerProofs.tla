------------------------- MODULE AccountLedgerProofs -------------------------
(***************************************************************************)
(* Theorems about AccountLedger, for any finite set of accounts in any     *)
(* groups, any finite set of handlers, any charge and any prices.          *)
(***************************************************************************)
EXTENDS AccountLedger, SumTheorems

-----------------------------------------------------------------------------
(* The inductive invariant                                                 *)

\* What a handler in the middle of its statements has taken from nobody yet,
\* or given to nobody.
DebtOf(r) ==
    IF r.pc = "adminPays" THEN Charge[asset]
    ELSE IF r.pc \in {"reduce", "reset"} THEN r.amount
    ELSE 0

Debt == [w \in Worker |-> DebtOf(job[w])]

\* The balances add up to what handlers owe.
Balanced == faults = {} => SumFunctionOnSet(bal, Account) = SumFunctionOnSet(Debt, Worker)

\* The sender of a transfer has a row.
SendersOk ==
    \A w \in Worker : job[w].pc \in {"initCharge", "adminPays", "charge", "reduce"}
                         => job[w].from \in Account

\* A settlement still has the sum of its group, but for what it has itself
\* given to an admin in the group.
SettlesOk(r) ==
    \/ r.pc = "credit"
    \/ r.pc = "reset" /\ groupOf[Admin] # r.group
    => r.amount = GroupSum(r.group)

SettlementsOk == faults = {} => \A w \in Worker : SettlesOk(job[w])

\* A group is only settled once its row was made: no account joins it then.
SettledMade ==
    \A w \in Worker : job[w].pc \in {"credit", "reset", "erase", "detach"}
                         => job[w].group \in Group /\ row[job[w].group] # "none"

IInv == TypeOK /\ Balanced /\ SendersOk /\ SettlementsOk /\ SettledMade

-----------------------------------------------------------------------------
(* Lemmas about the operators                                              *)

LEMMA MaxAccount ==
    Max(Account) \in Account \cap Nat /\ \A a \in Account : a <= Max(Account)
<1> DEFINE B == {S \in SUBSET Account : S = {} \/ \E m \in S : \A a \in S : a <= m}
<1>1. IsFiniteSet(Account) /\ Account \subseteq Nat /\ Account # {}
  BY AccountAssumption
<1>2. {} \in B
  OBVIOUS
<1>3. \A T \in B : \A x \in Account \ T : T \cup {x} \in B
  <2> SUFFICES ASSUME NEW T \in B, NEW x \in Account \ T PROVE T \cup {x} \in B
    OBVIOUS
  <2>1. CASE T = {}
    BY <2>1, <1>1
  <2>2. CASE T # {}
    <3>1. PICK m \in T : \A a \in T : a <= m
      BY <2>2
    <3>2. T \subseteq Nat /\ x \in Nat /\ m \in Nat
      BY <1>1
    <3>3. CASE x <= m
      BY <3>1, <3>2, <3>3
    <3>4. CASE m <= x
      <4>1. \A a \in T \cup {x} : a <= x
        BY <3>1, <3>2, <3>4
      <4> QED BY <4>1
    <3> QED BY <3>2, <3>3, <3>4
  <2> QED BY <2>1, <2>2
<1>4. Account \in B
  <2> HIDE DEF B
  <2>1. B \in SUBSET (SUBSET Account)
    BY DEF B
  <2> QED BY <1>1, <1>2, <1>3, <2>1, SubsetCases
<1>5. PICK m \in Account : \A a \in Account : a <= m
  BY <1>1, <1>4
<1> QED BY <1>1, <1>5 DEF Max

\* A recipient's id is not past the last account's.
LEMMA RecipientIds ==
    ASSUME NEW m \in Account, NEW n \in Account
    PROVE  Recipients(m, n) \subseteq 0 .. Max(Account)
<1>1. /\ m \in Nat \ {0} /\ n \in Nat \ {0} /\ Max(Account) \in Nat
      /\ m <= Max(Account) /\ n <= Max(Account)
  BY MaxAccount, AccountAssumption
<1> QED BY <1>1 DEF Recipients

LEMMA AmountsAreIntegers ==
    ASSUME TypeOK, NEW g
    PROVE  Amounts(g) \subseteq Int
<1>1. Price[asset] \subseteq Nat /\ \A a \in Members(g) : bal[a] \in Int
  BY AmountAssumption DEF TypeOK, Members
<1> QED BY <1>1 DEF Amounts

LEMMA ChargeIsNumber == TypeOK => Charge[asset] \in Nat
  BY AmountAssumption DEF TypeOK

LEMMA MembersFinite ==
    \A g : Members(g) \subseteq Account /\ IsFiniteSet(Members(g))
  BY AccountAssumption, FS_Subset DEF Members

LEMMA GroupSumType == ASSUME TypeOK, NEW g PROVE GroupSum(g) \in Int
<1>1. \A a \in Members(g) : bal[a] \in Int
  BY MembersFinite DEF TypeOK
<1> QED BY <1>1, MembersFinite, SumType DEF GroupSum

LEMMA DebtType == ASSUME TypeOK, NEW w \in Worker PROVE DebtOf(job[w]) \in Int
<1>1. job[w].amount \in Int
  BY DEF TypeOK
<1> QED BY <1>1, ChargeIsNumber DEF DebtOf

\* Adding to the row of an account changes the sum of all accounts by as much,
\* and of no set of accounts without it.
LEMMA AddChangesSum ==
    ASSUME TypeOK, NEW a, NEW x \in Int, Add(a, x)
    PROVE  /\ bal' \in [Account -> Int]
           /\ a \in Account =>
                SumFunctionOnSet(bal', Account) = SumFunctionOnSet(bal, Account) + x
           /\ \A S \in SUBSET Account :
                a \notin S => SumFunctionOnSet(bal', S) = SumFunctionOnSet(bal, S)
<1>1. bal \in [Account -> Int] /\ bal' \in [Account -> Int]
  BY DEF TypeOK, Add
<1>2. \A b \in Account : bal[b] \in Int /\ bal'[b] \in Int
  BY <1>1
<1>3. \A b \in Account \ {a} : bal[b] = bal'[b]
  BY <1>1 DEF Add
<1>4. ASSUME a \in Account
      PROVE  SumFunctionOnSet(bal', Account) = SumFunctionOnSet(bal, Account) + x
  <2>1. SumFunctionOnSet(bal', Account) = SumFunctionOnSet(bal, Account) + (bal'[a] - bal[a])
    <3>1. IsFiniteSet(Account)
      BY AccountAssumption
    <3>2. \A y \in Account : bal[y] \in Int /\ bal'[y] \in Int
      BY <1>2
    <3>3. \A y \in Account \ {a} : bal[y] = bal'[y]
      BY <1>3
    <3> QED BY <1>4, <3>1, <3>2, <3>3, SumUpdate
  <2>2. bal'[a] - bal[a] = x
    BY <1>1, <1>4 DEF Add
  <2> QED BY <2>1, <2>2
<1>5. ASSUME NEW S \in SUBSET Account, a \notin S
      PROVE  SumFunctionOnSet(bal', S) = SumFunctionOnSet(bal, S)
  <2>1. IsFiniteSet(S)
    BY AccountAssumption, FS_Subset
  <2>2. \A b \in S : bal'[b] \in Int /\ bal'[b] = bal[b]
    BY <1>2, <1>3, <1>5
  <2> QED BY <2>1, <2>2, SumSame
<1> QED BY <1>1, <1>4, <1>5

\* One handler's step changes what is owed by the change of its own debt.
LEMMA DebtChanges ==
    ASSUME TypeOK, TypeOK', asset' = asset, NEW w \in Worker,
           \A v \in Worker \ {w} : job'[v] = job[v]
    PROVE  SumFunctionOnSet(Debt', Worker)
             = SumFunctionOnSet(Debt, Worker) + (DebtOf(job[w])' - DebtOf(job[w]))
<1>1. \A v \in Worker : Debt[v] = DebtOf(job[v]) /\ Debt'[v] = DebtOf(job[v])'
  BY DEF Debt
<1>2. \A v \in Worker : DebtOf(job[v]) \in Int
  BY DebtType
<1>3. \A v \in Worker : DebtOf(job[v])' \in Int
  <2>1. \A v \in Worker : job'[v].amount \in Int
    BY DEF TypeOK
  <2> QED BY <2>1, ChargeIsNumber DEF DebtOf
<1>4. \A v \in Worker \ {w} : Debt[v] = Debt'[v]
  BY <1>1 DEF DebtOf
<1>5. \A v \in Worker : Debt[v] \in Int /\ Debt'[v] \in Int
  BY <1>1, <1>2, <1>3
<1>6. SumFunctionOnSet(Debt', Worker)
        = SumFunctionOnSet(Debt, Worker) + (Debt'[w] - Debt[w])
  BY <1>4, <1>5, WorkerAssumption, SumUpdate
<1> QED BY <1>1, <1>6

-----------------------------------------------------------------------------
(* The invariant holds                                                     *)

LEMMA InitInv == Init => IInv
<1> SUFFICES ASSUME Init PROVE IInv
  OBVIOUS
<1>1. \A w \in Worker : job[w] = Idle
  BY DEF Init
<1>2. TypeOK
  <2>1. Max(Account) \in Nat
    BY MaxAccount
  <2> QED BY <2>1, OpsAssumption, GroupAssumption DEF Init, TypeOK, Idle
<1>3. Balanced
  <2>1. \A a \in Account : bal[a] = 0
    BY DEF Init
  <2>2. \A w \in Worker : Debt[w] = 0
    BY <1>1 DEF Debt, DebtOf, Idle
  <2>3. SumFunctionOnSet(bal, Account) = 0
    BY <2>1, AccountAssumption, SumZero
  <2>4. SumFunctionOnSet(Debt, Worker) = 0
    BY <2>2, WorkerAssumption, SumZero
  <2> QED BY <2>3, <2>4 DEF Balanced
<1>4. SendersOk
  BY <1>1 DEF SendersOk, Idle
<1>5. SettlementsOk
  BY <1>1 DEF SettlementsOk, SettlesOk, Idle
<1>6. SettledMade
  BY <1>1 DEF SettledMade, Idle
<1> QED BY <1>2, <1>3, <1>4, <1>5, <1>6 DEF IInv

\* A step of handler w keeps the part of the invariant about senders when the
\* new job of w does.
LEMMA SendersStep ==
    ASSUME SendersOk, NEW w \in Worker,
           \A v \in Worker \ {w} : job'[v] = job[v],
           job'[w].pc \in {"initCharge", "adminPays", "charge", "reduce"}
              => job'[w].from \in Account
    PROVE  SendersOk'
BY DEF SendersOk

\* The same for the groups that are settled
LEMMA MadeStep ==
    ASSUME SettledMade, NEW w \in Worker, row' = row,
           \A v \in Worker \ {w} : job'[v] = job[v],
           job'[w].pc \in {"credit", "reset", "erase", "detach"}
              => job'[w].group \in Group /\ row[job'[w].group] # "none"
    PROVE  SettledMade'
BY DEF SettledMade

\* A write to the row of one account, noted, leaves the settlements of others
\* as they are.
LEMMA SettlementsStep ==
    ASSUME TypeOK, SettlementsOk, NEW w \in Worker, groupOf' = groupOf,
           \A v \in Worker \ {w} : job'[v] = job[v],
           NEW a, NEW x \in Int, Add(a, x),
           faults \subseteq faults', Disturbs(w, a) => "disturbed" \in faults',
           faults' = {} => SettlesOk(job[w])'
    PROVE  SettlementsOk'
<1> SUFFICES ASSUME faults' = {}, NEW v \in Worker PROVE SettlesOk(job[v])'
  BY DEF SettlementsOk
<1>1. CASE v = w
  BY <1>1
<1>2. CASE v # w
  <2>1. job'[v] = job[v] /\ SettlesOk(job[v])
    BY <1>2 DEF SettlementsOk
  <2>2. SUFFICES ASSUME job[v].pc \in {"credit", "reset"},
                        job[v].amount = GroupSum(job[v].group)
                 PROVE  job[v].amount = GroupSum(job[v].group)'
    BY <2>1 DEF SettlesOk
  <2>3. a \notin Members(job[v].group)
    <3>1. v \in Settling(job[v].group) \ {w}
      BY <1>2, <2>2 DEF Settling
    <3>2. SUFFICES ASSUME a \in Account PROVE groupOf[a] # job[v].group
      BY DEF Members
    <3> QED BY <3>1, <3>2 DEF Disturbs
  <2>4. SumFunctionOnSet(bal', Members(job[v].group))
          = SumFunctionOnSet(bal, Members(job[v].group))
    BY <2>3, AddChangesSum, MembersFinite
  <2>5. Members(job[v].group)' = Members(job[v].group)
    BY <2>1 DEF Members
  <2> QED BY <2>1, <2>2, <2>4, <2>5 DEF GroupSum
<1> QED BY <1>1, <1>2

LEMMA StartTransferInv ==
    ASSUME IInv, NEW w \in Worker, NEW g \in Group, StartTransfer(w, g),
           UNCHANGED <<asset, groupOf, row, found>>
    PROVE  IInv'
<1>1. PICK e \in Ends(g), x \in Amounts(g) :
        \E to \in Recipients(e[1], e[2]) :
           job' = [job EXCEPT ![w] =
                     [pc |-> IF MaxAccountZero(g) THEN "initCharge" ELSE "charge",
                      group |-> g, from |-> e[1], to |-> to, amount |-> x]]
  BY DEF StartTransfer
<1>2. PICK to \in Recipients(e[1], e[2]) :
         job' = [job EXCEPT ![w] =
                   [pc |-> IF MaxAccountZero(g) THEN "initCharge" ELSE "charge",
                    group |-> g, from |-> e[1], to |-> to, amount |-> x]]
  BY <1>1
<1> DEFINE r == [pc |-> IF MaxAccountZero(g) THEN "initCharge" ELSE "charge",
                 group |-> g, from |-> e[1], to |-> to, amount |-> x]
<1>3. e[1] \in Account /\ e[2] \in Account /\ x \in Int /\ to \in 0 .. Max(Account)
  <2>1. e[1] \in Members(g) /\ e[2] \in Members(g)
    BY DEF Ends, Highest, Lowest
  <2>2. e[1] \in Account /\ e[2] \in Account
    BY <2>1 DEF Members
  <2> QED BY <2>2, RecipientIds, AmountsAreIntegers DEF IInv
<1>5. job'[w] = r /\ \A v \in Worker \ {w} : job'[v] = job[v]
  BY <1>2 DEF IInv, TypeOK
<1>6. TypeOK'
  <2>1. ops' \in 0 .. MaxOps
    BY OpsAssumption DEF IInv, TypeOK, StartTransfer
  <2>2. r \in [pc     : {"idle", "initCharge", "adminPays", "charge",
                         "reduce", "credit", "reset", "erase", "detach"},
               group  : Group \cup {0},
               from   : Account \cup {0},
               to     : 0 .. Max(Account),
               amount : Int]
    BY <1>3
  <2> HIDE DEF r
  <2> QED BY <1>2, <2>1, <2>2 DEF IInv, TypeOK, StartTransfer, r
<1>7. Balanced'
  <2>1. DebtOf(job[w]) = 0 /\ DebtOf(job[w])' = 0
    BY <1>5 DEF DebtOf, StartTransfer
  <2>2. SumFunctionOnSet(Debt', Worker)
          = SumFunctionOnSet(Debt, Worker) + (DebtOf(job[w])' - DebtOf(job[w]))
    BY <1>5, <1>6, DebtChanges DEF IInv
  <2>3. SumFunctionOnSet(Debt, Worker) \in Int
    BY DebtType, WorkerAssumption, SumType DEF IInv, Debt
  <2> QED BY <2>1, <2>2, <2>3 DEF IInv, Balanced, StartTransfer
<1>8. SendersOk'
  BY <1>3, <1>5, SendersStep DEF IInv
<1>9. SettlementsOk'
  <2>1. \A h : GroupSum(h)' = GroupSum(h)
    BY DEF GroupSum, Members, StartTransfer
  <2> QED BY <1>5, <2>1 DEF IInv, SettlementsOk, SettlesOk, StartTransfer
<1>10. SettledMade'
  BY <1>5, MadeStep DEF IInv
<1> QED BY <1>6, <1>7, <1>8, <1>9, <1>10 DEF IInv

LEMMA StartSettleInv ==
    ASSUME IInv, NEW w \in Worker, NEW g \in Group, StartSettle(w, g),
           UNCHANGED <<asset, groupOf, row, found>>
    PROVE  IInv'
<1> DEFINE r == [Idle EXCEPT !.pc = "credit", !.group = g, !.amount = GroupSum(g)]
<1>1. job'[w] = r /\ \A v \in Worker \ {w} : job'[v] = job[v]
  BY DEF IInv, TypeOK, StartSettle
<1>2. r.pc = "credit" /\ r.group = g /\ r.amount = GroupSum(g)
  BY DEF Idle
<1>3. TypeOK'
  <2>1. ops' \in 0 .. MaxOps
    BY OpsAssumption DEF IInv, TypeOK, StartSettle
  <2>2. r \in [pc     : {"idle", "initCharge", "adminPays", "charge",
                         "reduce", "credit", "reset", "erase", "detach"},
               group  : Group \cup {0},
               from   : Account \cup {0},
               to     : 0 .. Max(Account),
               amount : Int]
    <3>1. GroupSum(g) \in Int
      BY GroupSumType DEF IInv
    <3>2. 0 \in 0 .. Max(Account)
      BY MaxAccount
    <3> QED BY <3>1, <3>2 DEF Idle
  <2>3. job' = [job EXCEPT ![w] = r] /\ bal' = bal /\ faults' = faults
    BY DEF StartSettle
  <2> HIDE DEF r
  <2> QED BY <2>1, <2>2, <2>3 DEF IInv, TypeOK
<1>4. Balanced'
  <2>1. DebtOf(job[w]) = 0 /\ DebtOf(job[w])' = 0
    BY <1>1, <1>2 DEF DebtOf, StartSettle
  <2>2. SumFunctionOnSet(Debt', Worker)
          = SumFunctionOnSet(Debt, Worker) + (DebtOf(job[w])' - DebtOf(job[w]))
    BY <1>1, <1>3, DebtChanges DEF IInv
  <2>3. SumFunctionOnSet(Debt, Worker) \in Int
    BY DebtType, WorkerAssumption, SumType DEF IInv, Debt
  <2> QED BY <2>1, <2>2, <2>3 DEF IInv, Balanced, StartSettle
<1>5. SendersOk'
  BY <1>1, <1>2, SendersStep DEF IInv
<1>6. SettlementsOk'
  <2>1. \A h : GroupSum(h)' = GroupSum(h)
    BY DEF GroupSum, Members, StartSettle
  <2> QED BY <1>1, <1>2, <2>1 DEF IInv, SettlementsOk, SettlesOk, StartSettle
<1>7. SettledMade'
  BY <1>1, <1>2, MadeStep DEF IInv, StartSettle
<1> QED BY <1>3, <1>4, <1>5, <1>6, <1>7 DEF IInv

\* A handler that goes on to another statement after a write of x to the row
\* of account a keeps the invariant when its debt changes by x.
LEMMA WriteStep ==
    ASSUME IInv, NEW w \in Worker, NEW a, NEW x \in Int, Add(a, x),
           UNCHANGED <<asset, groupOf, row, found, ops>>,
           NEW r, job' = [job EXCEPT ![w] = r],
           r = Idle \/ \E p \in {"adminPays", "charge", "reduce", "reset"} :
                          r = [job[w] EXCEPT !.pc = p],
           faults \subseteq faults',
           faults' \subseteq {"disturbed", "drafted", "noRecipient", "regrouped", "torn"},
           Disturbs(w, a) => "disturbed" \in faults',
           faults' = {} => a \in Account /\ DebtOf(r) - DebtOf(job[w]) = x,
           r.pc \in {"initCharge", "adminPays", "charge", "reduce"} => r.from \in Account,
           faults' = {} => SettlesOk(r)',
           r.pc = "reset" => job[w].pc = "credit"
    PROVE  IInv'
<1>1. job'[w] = r /\ \A v \in Worker \ {w} : job'[v] = job[v]
  BY DEF IInv, TypeOK
<1>2. TypeOK'
  <2>1. bal' \in [Account -> Int]
    BY AddChangesSum DEF IInv
  <2>2. r \in [pc     : {"idle", "initCharge", "adminPays", "charge",
                         "reduce", "credit", "reset", "erase", "detach"},
               group  : Group \cup {0},
               from   : Account \cup {0},
               to     : 0 .. Max(Account),
               amount : Int]
    <3>1. 0 \in 0 .. Max(Account)
      BY MaxAccount
    <3> QED BY <3>1 DEF IInv, TypeOK, Idle
  <2> QED BY <2>1, <2>2 DEF IInv, TypeOK
<1>3. Balanced'
  <2> SUFFICES ASSUME faults' = {}
               PROVE  SumFunctionOnSet(bal', Account) = SumFunctionOnSet(Debt', Worker)
    BY DEF Balanced
  <2>1. SumFunctionOnSet(bal, Account) = SumFunctionOnSet(Debt, Worker)
    BY DEF IInv, Balanced
  <2>2. SumFunctionOnSet(bal', Account) = SumFunctionOnSet(bal, Account) + x
    BY AddChangesSum DEF IInv
  <2>3. SumFunctionOnSet(Debt', Worker)
          = SumFunctionOnSet(Debt, Worker) + (DebtOf(job[w])' - DebtOf(job[w]))
    BY <1>1, <1>2, DebtChanges DEF IInv
  <2>4. DebtOf(job[w])' = DebtOf(r)
    BY <1>1 DEF DebtOf
  <2>5. DebtOf(r) - DebtOf(job[w]) = x
    OBVIOUS
  <2> QED BY <2>1, <2>2, <2>3, <2>4, <2>5
<1>4. SendersOk'
  BY <1>1, SendersStep DEF IInv
<1>5. SettlementsOk'
  <2>1. faults' = {} => SettlesOk(job[w])'
    BY <1>1 DEF SettlesOk
  <2> QED BY <1>1, <2>1, SettlementsStep DEF IInv
<1>6. SettledMade'
  <2>1. ASSUME r.pc \in {"credit", "reset", "erase", "detach"}
        PROVE  r.group \in Group /\ row[r.group] # "none"
    <3>1. r.pc = "reset" /\ r.group = job[w].group
      BY <2>1 DEF IInv, TypeOK, Idle
    <3> QED BY <3>1 DEF IInv, SettledMade
  <2> QED BY <1>1, <2>1, MadeStep DEF IInv
<1> QED BY <1>2, <1>3, <1>4, <1>5, <1>6 DEF IInv

LEMMA InitChargeInv ==
    ASSUME IInv, NEW w \in Worker, InitCharge(w), UNCHANGED <<asset, groupOf, row, found>>
    PROVE  IInv'
<1>1. PICK r : r = [job[w] EXCEPT !.pc = "adminPays"]
  OBVIOUS
<1>2. job' = [job EXCEPT ![w] = r] /\ Add(job[w].from, Charge[asset])
  BY <1>1 DEF InitCharge, Goto
<1>3. r.pc = "adminPays" /\ r.from = job[w].from /\ r.from \in Account
  BY <1>1 DEF IInv, TypeOK, SendersOk, InitCharge
<1>4. /\ faults \subseteq faults'
      /\ faults' \subseteq {"disturbed", "drafted", "noRecipient", "regrouped", "torn"}
      /\ Disturbs(w, job[w].from) => "disturbed" \in faults'
  BY DEF IInv, TypeOK, InitCharge, NoteWrite, Note
<1>5. DebtOf(r) - DebtOf(job[w]) = Charge[asset] /\ Charge[asset] \in Int
  <2>1. DebtOf(r) = Charge[asset] /\ DebtOf(job[w]) = 0
    BY <1>3 DEF DebtOf, InitCharge
  <2> QED BY <2>1, ChargeIsNumber DEF IInv
<1>6. SettlesOk(r)'
  BY <1>3 DEF SettlesOk
<1> QED BY <1>1, <1>2, <1>3, <1>4, <1>5, <1>6, WriteStep DEF InitCharge

LEMMA UpdateAdminTransactionInv ==
    ASSUME IInv, NEW w \in Worker, UpdateAdminTransaction(w),
           UNCHANGED <<asset, groupOf, row, found>>
    PROVE  IInv'
<1>1. PICK r : r = [job[w] EXCEPT !.pc = "charge"]
  OBVIOUS
<1>2. job' = [job EXCEPT ![w] = r] /\ Add(Admin, -Charge[asset])
  BY <1>1 DEF UpdateAdminTransaction, Goto
<1>3. r.pc = "charge" /\ r.from = job[w].from /\ r.from \in Account
  BY <1>1 DEF IInv, TypeOK, SendersOk, UpdateAdminTransaction
<1>4. /\ faults \subseteq faults'
      /\ faults' \subseteq {"disturbed", "drafted", "noRecipient", "regrouped", "torn"}
      /\ Disturbs(w, Admin) => "disturbed" \in faults'
  BY DEF IInv, TypeOK, UpdateAdminTransaction, NoteWrite, Note
<1>5. DebtOf(r) - DebtOf(job[w]) = -Charge[asset] /\ -Charge[asset] \in Int
  <2>1. DebtOf(r) = 0 /\ DebtOf(job[w]) = Charge[asset]
    BY <1>3 DEF DebtOf, UpdateAdminTransaction
  <2> QED BY <2>1, ChargeIsNumber DEF IInv
<1>6. SettlesOk(r)'
  BY <1>3 DEF SettlesOk
<1> QED BY <1>1, <1>2, <1>3, <1>4, <1>5, <1>6, AccountAssumption, WriteStep
        DEF UpdateAdminTransaction

LEMMA ChargeRecipientInv ==
    ASSUME IInv, NEW w \in Worker, ChargeRecipient(w), UNCHANGED <<asset, groupOf, row, found>>
    PROVE  IInv'
<1>1. PICK r : r = [job[w] EXCEPT !.pc = "reduce"]
  OBVIOUS
<1>2. job' = [job EXCEPT ![w] = r] /\ Add(job[w].to, job[w].amount)
  BY <1>1 DEF ChargeRecipient, Goto
<1>3. r.pc = "reduce" /\ r.from = job[w].from /\ r.from \in Account /\ r.amount = job[w].amount
  BY <1>1 DEF IInv, TypeOK, SendersOk, ChargeRecipient
<1>4. /\ faults \subseteq faults'
      /\ faults' \subseteq {"disturbed", "drafted", "noRecipient", "regrouped", "torn"}
      /\ Disturbs(w, job[w].to) => "disturbed" \in faults'
      /\ faults' = {} => job[w].to \in Account
  BY DEF IInv, TypeOK, ChargeRecipient, Note
<1>5. DebtOf(r) - DebtOf(job[w]) = job[w].amount /\ job[w].amount \in Int
  <2>1. DebtOf(r) = job[w].amount /\ DebtOf(job[w]) = 0
    BY <1>3 DEF DebtOf, ChargeRecipient
  <2>2. job[w].amount \in Int
    BY DEF IInv, TypeOK
  <2> QED BY <2>1, <2>2
<1>6. SettlesOk(r)'
  BY <1>3 DEF SettlesOk
<1> QED BY <1>1, <1>2, <1>3, <1>4, <1>5, <1>6, WriteStep DEF ChargeRecipient

LEMMA ReduceSenderInv ==
    ASSUME IInv, NEW w \in Worker, ReduceSender(w), UNCHANGED <<asset, groupOf, row, found>>
    PROVE  IInv'
<1>1. job' = [job EXCEPT ![w] = Idle] /\ Add(job[w].from, -job[w].amount)
  BY DEF ReduceSender
<1>2. Idle.pc = "idle" /\ job[w].from \in Account
  BY DEF IInv, SendersOk, ReduceSender, Idle
<1>3. /\ faults \subseteq faults'
      /\ faults' \subseteq {"disturbed", "drafted", "noRecipient", "regrouped", "torn"}
      /\ Disturbs(w, job[w].from) => "disturbed" \in faults'
  BY DEF IInv, TypeOK, ReduceSender, NoteWrite, Note
<1>4. DebtOf(Idle) - DebtOf(job[w]) = -job[w].amount /\ -job[w].amount \in Int
  <2>1. DebtOf(Idle) = 0 /\ DebtOf(job[w]) = job[w].amount
    BY <1>2 DEF DebtOf, ReduceSender
  <2>2. job[w].amount \in Int
    BY DEF IInv, TypeOK
  <2> QED BY <2>1, <2>2
<1>5. SettlesOk(Idle)'
  BY <1>2 DEF SettlesOk, Idle
<1> QED BY <1>1, <1>2, <1>3, <1>4, <1>5, WriteStep DEF ReduceSender

LEMMA ReturnCoinAndTokenInv ==
    ASSUME IInv, NEW w \in Worker, ReturnCoinAndToken(w), UNCHANGED <<asset, groupOf, row, found>>
    PROVE  IInv'
<1>1. PICK r : r = [job[w] EXCEPT !.pc = "reset"]
  OBVIOUS
<1>2. job' = [job EXCEPT ![w] = r] /\ Add(Admin, job[w].amount)
  BY <1>1 DEF ReturnCoinAndToken, Goto
<1>3. r.pc = "reset" /\ r.group = job[w].group /\ r.amount = job[w].amount
  BY <1>1 DEF IInv, TypeOK
<1>4. /\ faults \subseteq faults'
      /\ faults' \subseteq {"disturbed", "drafted", "noRecipient", "regrouped", "torn"}
      /\ Disturbs(w, Admin) => "disturbed" \in faults'
  BY DEF IInv, TypeOK, ReturnCoinAndToken, NoteWrite, Note
<1>5. DebtOf(r) - DebtOf(job[w]) = job[w].amount /\ job[w].amount \in Int
  <2>1. DebtOf(r) = job[w].amount /\ DebtOf(job[w]) = 0
    BY <1>3 DEF DebtOf, ReturnCoinAndToken
  <2>2. job[w].amount \in Int
    BY DEF IInv, TypeOK
  <2> QED BY <2>1, <2>2
<1>6. faults' = {} => SettlesOk(r)'
  <2> SUFFICES ASSUME faults' = {}, groupOf[Admin] # r.group
               PROVE  r.amount = GroupSum(r.group)'
    BY <1>3 DEF SettlesOk
  <2>1. job[w].amount = GroupSum(job[w].group)
    BY <1>4 DEF IInv, SettlementsOk, SettlesOk, ReturnCoinAndToken
  <2>2. Admin \notin Members(r.group)
    BY DEF Members
  <2>3. SumFunctionOnSet(bal', Members(r.group)) = SumFunctionOnSet(bal, Members(r.group))
    BY <1>2, <1>5, <2>2, AddChangesSum, MembersFinite DEF IInv
  <2>4. Members(r.group)' = Members(r.group)
    BY DEF Members
  <2> QED BY <1>3, <2>1, <2>3, <2>4 DEF GroupSum
<1> QED BY <1>1, <1>2, <1>3, <1>4, <1>5, <1>6, AccountAssumption, WriteStep
        DEF ReturnCoinAndToken

LEMMA ResetCoinAndTokenInv ==
    ASSUME IInv, NEW w \in Worker, ResetCoinAndToken(w), UNCHANGED <<asset, groupOf, row, found>>
    PROVE  IInv'
<1> DEFINE M == Members(job[w].group)
           R == Account \ M
<1>a. PICK next : /\ job' = [job EXCEPT ![w] = next]
                  /\ \/ next = Idle
                     \/ next = [Idle EXCEPT !.pc = "erase", !.group = job[w].group]
  BY DEF ResetCoinAndToken
<1>0. next.pc = "idle" \/ (next.pc = "erase" /\ next.group = job[w].group)
  <2>1. CASE next = Idle
    BY <2>1 DEF Idle
  <2>2. CASE next = [Idle EXCEPT !.pc = "erase", !.group = job[w].group]
    BY <2>2 DEF Idle
  <2> QED BY <1>a, <2>1, <2>2
<1>1. /\ job'[w] = next /\ \A v \in Worker \ {w} : job'[v] = job[v]
      /\ next.pc \in {"idle", "erase"}
  BY <1>a, <1>0 DEF IInv, TypeOK
<1>2. /\ faults \subseteq faults'
      /\ faults' \subseteq {"disturbed", "drafted", "noRecipient", "regrouped", "torn"}
      /\ faults' = {} => /\ groupOf[Admin] # job[w].group
                         /\ Settling(job[w].group) \ {w} = {}
  BY DEF IInv, TypeOK, ResetCoinAndToken, Note
<1>3. /\ M \subseteq Account /\ IsFiniteSet(M) /\ IsFiniteSet(R)
      /\ M \cap R = {} /\ M \cup R = Account
  BY AccountAssumption, MembersFinite, FS_Subset
<1>4. /\ bal \in [Account -> Int] /\ bal' \in [Account -> Int]
      /\ \A a \in M : bal'[a] = 0
      /\ \A a \in R : bal'[a] = bal[a]
  BY <1>3 DEF IInv, TypeOK, ResetCoinAndToken
<1>5. TypeOK'
  <2>1. next \in [pc     : {"idle", "initCharge", "adminPays", "charge",
                            "reduce", "credit", "reset", "erase", "detach"},
                  group  : Group \cup {0},
                  from   : Account \cup {0},
                  to     : 0 .. Max(Account),
                  amount : Int]
    <3>1. 0 \in 0 .. Max(Account) /\ job[w].group \in Group \cup {0}
      BY MaxAccount DEF IInv, TypeOK
    <3>2. CASE next = Idle
      BY <3>1, <3>2 DEF Idle
    <3>3. CASE next = [Idle EXCEPT !.pc = "erase", !.group = job[w].group]
      <4>1. Idle \in [pc     : {"idle", "initCharge", "adminPays", "charge",
                              "reduce", "credit", "reset", "erase", "detach"},
                    group  : Group \cup {0},
                    from   : Account \cup {0},
                    to     : 0 .. Max(Account),
                    amount : Int]
        BY <3>1 DEF Idle
      <4> HIDE DEF Idle
      <4> QED BY <3>1, <3>3, <4>1
    <3> QED BY <1>a, <3>2, <3>3
  <2> QED BY <1>1, <1>2, <1>4, <2>1 DEF IInv, TypeOK, ResetCoinAndToken
<1>6. Balanced'
  <2> SUFFICES ASSUME faults' = {}
               PROVE  SumFunctionOnSet(bal', Account) = SumFunctionOnSet(Debt', Worker)
    BY DEF Balanced
  <2> DEFINE Out   == SumFunctionOnSet(bal, M)
             Rest  == SumFunctionOnSet(bal, R)
             Owed  == SumFunctionOnSet(Debt, Worker)
  <2>1. /\ \A a \in M \cup R : bal[a] \in Int /\ bal'[a] \in Int
        /\ \A a \in R : bal[a] \in Int /\ bal[a] = bal'[a]
    BY <1>3, <1>4
  <2>2. Out \in Int /\ Rest \in Int /\ SumFunctionOnSet(bal, Account) = Out + Rest
    <3> HIDE DEF M, R
    <3>1. SumFunctionOnSet(bal, M \cup R)
            = SumFunctionOnSet(bal, M) + SumFunctionOnSet(bal, R)
      BY <1>3, <2>1, SumUnion
    <3>2. SumFunctionOnSet(bal, M) \in Int /\ SumFunctionOnSet(bal, R) \in Int
      BY <1>3, <2>1, SumType
    <3> QED BY <1>3, <3>1, <3>2
  <2>3. SumFunctionOnSet(bal', Account) = Rest
    <3> HIDE DEF M, R
    <3>1. SumFunctionOnSet(bal', M \cup R)
            = SumFunctionOnSet(bal', M) + SumFunctionOnSet(bal', R)
      BY <1>3, <2>1, SumUnion
    <3>2. SumFunctionOnSet(bal', M) = 0
      BY <1>3, <1>4, SumZero
    <3>3. SumFunctionOnSet(bal', R) = Rest
      BY <1>3, <2>1, SumSame
    <3>4. Rest \in Int
      BY <2>2
    <3>5. SumFunctionOnSet(bal', Account) = SumFunctionOnSet(bal', M \cup R)
      BY <1>3
    <3> HIDE DEF Rest
    <3> QED BY <3>1, <3>2, <3>3, <3>4, <3>5
  <2>4. DebtOf(job[w]) = Out /\ DebtOf(job[w])' = 0
    <3>1. DebtOf(job[w]) = job[w].amount
      BY DEF DebtOf, ResetCoinAndToken
    <3>2. job[w].amount = GroupSum(job[w].group)
      BY <1>2 DEF IInv, SettlementsOk, SettlesOk, ResetCoinAndToken
    <3>3. DebtOf(job[w])' = 0
      BY <1>1 DEF DebtOf
    <3> QED BY <3>1, <3>2, <3>3 DEF GroupSum
  <2>5. SumFunctionOnSet(Debt', Worker) = Owed + (0 - Out)
    BY <1>1, <1>5, <2>4, DebtChanges DEF IInv
  <2>6. Owed = Out + Rest
    BY <1>2, <2>2 DEF IInv, Balanced
  <2> HIDE DEF Out, Rest, Owed
  <2> QED BY <2>2, <2>3, <2>5, <2>6
<1>7. SendersOk'
  BY <1>1, SendersStep DEF IInv
<1>8. SettlementsOk'
  <2> SUFFICES ASSUME faults' = {}, NEW v \in Worker PROVE SettlesOk(job[v])'
    BY DEF SettlementsOk
  <2>1. CASE v = w
    BY <1>1, <2>1 DEF SettlesOk
  <2>2. CASE v # w
    <3>1. job'[v] = job[v] /\ SettlesOk(job[v])
      BY <1>1, <1>2, <2>2 DEF IInv, SettlementsOk
    <3>2. SUFFICES ASSUME job[v].pc \in {"credit", "reset"},
                          job[v].amount = GroupSum(job[v].group)
                   PROVE  job[v].amount = GroupSum(job[v].group)'
      BY <3>1 DEF SettlesOk
    <3>3. job[v].group # job[w].group
      BY <1>2, <2>2, <3>2 DEF Settling
    <3>4. Members(job[v].group) \subseteq R /\ IsFiniteSet(Members(job[v].group))
      BY <3>3, MembersFinite DEF Members
    <3>5. \A a \in Members(job[v].group) : bal'[a] \in Int /\ bal'[a] = bal[a]
      BY <1>4, <3>4
    <3>6. SumFunctionOnSet(bal', Members(job[v].group))
            = SumFunctionOnSet(bal, Members(job[v].group))
      BY <3>4, <3>5, SumSame
    <3>7. Members(job[v].group)' = Members(job[v].group)
      BY <3>1 DEF Members
    <3> QED BY <3>1, <3>2, <3>6, <3>7 DEF GroupSum
  <2> QED BY <2>1, <2>2
<1>9. SettledMade'
  <2>1. job[w].group \in Group /\ row[job[w].group] # "none"
    BY DEF IInv, SettledMade, ResetCoinAndToken
  <2> QED BY <1>0, <1>1, <2>1, MadeStep DEF IInv
<1> QED BY <1>5, <1>6, <1>7, <1>8, <1>9 DEF IInv

LEMMA FailInv ==
    ASSUME IInv, NEW w \in Worker, Fail(w), UNCHANGED <<asset, groupOf, row, found>>
    PROVE  IInv'
<1>1. job'[w] = Idle /\ \A v \in Worker \ {w} : job'[v] = job[v]
  BY DEF IInv, TypeOK, Fail
<1>2. /\ faults \subseteq faults'
      /\ faults' \subseteq {"disturbed", "drafted", "noRecipient", "regrouped", "torn"}
      /\ faults' = {} => job[w].pc \notin {"adminPays", "reduce", "reset"}
  BY DEF IInv, TypeOK, Fail, Note
<1>3. TypeOK'
  <2>1. Idle \in [pc     : {"idle", "initCharge", "adminPays", "charge",
                            "reduce", "credit", "reset", "erase", "detach"},
                  group  : Group \cup {0},
                  from   : Account \cup {0},
                  to     : 0 .. Max(Account),
                  amount : Int]
    BY MaxAccount DEF Idle
  <2> QED BY <1>2, <2>1 DEF IInv, TypeOK, Fail
<1>4. Balanced'
  <2> SUFFICES ASSUME faults' = {}
               PROVE  SumFunctionOnSet(bal', Account) = SumFunctionOnSet(Debt', Worker)
    BY DEF Balanced
  <2>1. DebtOf(job[w]) = 0 /\ DebtOf(job[w])' = 0
    BY <1>1, <1>2 DEF DebtOf, Idle
  <2>2. SumFunctionOnSet(Debt', Worker)
          = SumFunctionOnSet(Debt, Worker) + (DebtOf(job[w])' - DebtOf(job[w]))
    BY <1>1, <1>3, DebtChanges DEF IInv, Fail
  <2>3. SumFunctionOnSet(Debt, Worker) \in Int
    BY DebtType, WorkerAssumption, SumType DEF IInv, Debt
  <2> QED BY <1>2, <2>1, <2>2, <2>3 DEF IInv, Balanced, Fail
<1>5. SendersOk'
  BY <1>1, SendersStep DEF IInv, Idle
<1>6. SettlementsOk'
  <2>1. \A g : GroupSum(g)' = GroupSum(g)
    BY DEF GroupSum, Members, Fail
  <2> QED BY <1>1, <1>2, <2>1 DEF IInv, SettlementsOk, SettlesOk, Idle
<1>7. SettledMade'
  BY <1>1, MadeStep DEF IInv, Idle, Fail
<1> QED BY <1>3, <1>4, <1>5, <1>6, <1>7 DEF IInv

\* Accounts that go to another group, noted, leave the settlements as they are:
\* none is of the group they go to.
LEMMA RegroupStep ==
    ASSUME TypeOK, SettlementsOk, NEW S \in SUBSET Account, NEW g,
           groupOf' = [a \in Account |-> IF a \in S THEN g ELSE groupOf[a]],
           bal' = bal, faults \subseteq faults', Regroups(S) => "regrouped" \in faults',
           \A v \in Worker : \/ job'[v].pc \notin {"credit", "reset"}
                            \/ (job'[v] = job[v] /\ job[v].group # g)
    PROVE  SettlementsOk'
<1> SUFFICES ASSUME faults' = {}, NEW v \in Worker,
                    job'[v].pc \in {"credit", "reset"}
             PROVE  SettlesOk(job[v])'
  BY DEF SettlementsOk, SettlesOk
<1>0. PICK h : h = job[v].group
  OBVIOUS
<1>1. job'[v] = job[v] /\ h # g /\ SettlesOk(job[v])
  BY <1>0 DEF SettlementsOk
<1>2. v \in Settling(h)
  BY <1>0, <1>1 DEF Settling
<1>3. \A a \in S : groupOf[a] # h
  BY <1>2 DEF Regroups
<1>4. \A a \in Account : groupOf'[a] = h <=> groupOf[a] = h
  BY <1>1, <1>3
<1>5. Members(h)' = Members(h)
  BY <1>4 DEF Members
<1>6. GroupSum(h)' = GroupSum(h)
  BY <1>5 DEF GroupSum
<1>7. job'[v].group = h /\ job'[v] = job[v] /\ (groupOf'[Admin] = h <=> groupOf[Admin] = h)
  BY <1>0, <1>1, <1>4, AccountAssumption
<1>8. SUFFICES ASSUME job[v].pc = "credit" \/ (job[v].pc = "reset" /\ groupOf[Admin] # h)
               PROVE  job[v].amount = GroupSum(h)'
  BY <1>7 DEF SettlesOk
<1>9. job[v].amount = GroupSum(h)
  BY <1>0, <1>1, <1>8 DEF SettlesOk
<1> QED BY <1>6, <1>9

LEMMA DeleteRowInv ==
    ASSUME IInv, NEW w \in Worker, DeleteRow(w), asset' = asset
    PROVE  IInv'
<1> DEFINE r == [job[w] EXCEPT !.pc = "detach"]
<1>1. /\ job'[w] = r /\ r.pc = "detach" /\ r.group = job[w].group
      /\ \A v \in Worker \ {w} : job'[v] = job[v]
  BY DEF IInv, TypeOK, DeleteRow, Goto
<1>2. TypeOK'
  BY DEF IInv, TypeOK, DeleteRow, Goto
<1> HIDE DEF r
<1>3. Balanced'
  <2>1. DebtOf(job[w]) = 0 /\ DebtOf(job[w])' = 0
    BY <1>1 DEF DebtOf, DeleteRow
  <2>2. SumFunctionOnSet(Debt', Worker)
          = SumFunctionOnSet(Debt, Worker) + (DebtOf(job[w])' - DebtOf(job[w]))
    BY <1>1, <1>2, DebtChanges DEF IInv
  <2>3. SumFunctionOnSet(Debt, Worker) \in Int
    BY DebtType, WorkerAssumption, SumType DEF IInv, Debt
  <2> QED BY <2>1, <2>2, <2>3 DEF IInv, Balanced, DeleteRow
<1>4. SendersOk'
  BY <1>1, SendersStep DEF IInv
<1>5. SettlementsOk'
  <2>1. \A h : GroupSum(h)' = GroupSum(h)
    BY DEF GroupSum, Members, DeleteRow
  <2> QED BY <1>1, <2>1 DEF IInv, SettlementsOk, SettlesOk, DeleteRow
<1>6. SettledMade'
  <2>1. \A h \in Group : row[h] # "none" => row'[h] # "none"
    BY DEF IInv, TypeOK, DeleteRow
  <2>2. job[w].pc = "erase"
    BY DEF DeleteRow
  <2>3. \A v \in Worker : job'[v].pc \in {"credit", "reset", "erase", "detach"}
                          => /\ job[v].pc \in {"credit", "reset", "erase", "detach"}
                             /\ job'[v].group = job[v].group
    BY <1>1, <2>2
  <2> QED BY <2>1, <2>3 DEF IInv, SettledMade
<1> QED BY <1>2, <1>3, <1>4, <1>5, <1>6 DEF IInv

LEMMA DetachAccountsInv ==
    ASSUME IInv, NEW w \in Worker, DetachAccounts(w), asset' = asset
    PROVE  IInv'
<1> DEFINE M == Members(job[w].group)
<1>1. job'[w] = Idle /\ \A v \in Worker \ {w} : job'[v] = job[v]
  BY DEF IInv, TypeOK, DetachAccounts
<1>2. /\ faults \subseteq faults'
      /\ faults' \subseteq {"disturbed", "drafted", "noRecipient", "regrouped", "torn"}
      /\ Regroups(M) => "regrouped" \in faults'
  BY DEF IInv, TypeOK, DetachAccounts, Note
<1>3. M \in SUBSET Account /\ groupOf' = [a \in Account |-> IF a \in M THEN 0 ELSE groupOf[a]]
  BY MembersFinite DEF DetachAccounts
<1>4. TypeOK'
  <2>1. Idle \in [pc     : {"idle", "initCharge", "adminPays", "charge",
                            "reduce", "credit", "reset", "erase", "detach"},
                  group  : Group \cup {0},
                  from   : Account \cup {0},
                  to     : 0 .. Max(Account),
                  amount : Int]
    BY MaxAccount DEF Idle
  <2>2. groupOf' \in [Account -> Group \cup {0}]
    BY <1>3 DEF IInv, TypeOK
  <2> QED BY <1>2, <2>1, <2>2 DEF IInv, TypeOK, DetachAccounts
<1>5. Balanced'
  <2>1. DebtOf(job[w]) = 0 /\ DebtOf(job[w])' = 0
    BY <1>1 DEF DebtOf, Idle, DetachAccounts
  <2>2. SumFunctionOnSet(Debt', Worker)
          = SumFunctionOnSet(Debt, Worker) + (DebtOf(job[w])' - DebtOf(job[w]))
    BY <1>1, <1>4, DebtChanges DEF IInv
  <2>3. SumFunctionOnSet(Debt, Worker) \in Int
    BY DebtType, WorkerAssumption, SumType DEF IInv, Debt
  <2> QED BY <1>2, <2>1, <2>2, <2>3 DEF IInv, Balanced, DetachAccounts
<1>6. SendersOk'
  BY <1>1, SendersStep DEF IInv, Idle
<1>7. SettlementsOk'
  <2> HIDE DEF M
  <2>1. \A v \in Worker : \/ job'[v].pc \notin {"credit", "reset"}
                         \/ (job'[v] = job[v] /\ job[v].group # 0)
    <3>1. \A v \in Worker : job[v].pc \in {"credit", "reset"} => job[v].group # 0
      BY GroupAssumption DEF IInv, SettledMade
    <3> QED BY <1>1, <3>1 DEF Idle
  <2>2. bal' = bal
    BY DEF DetachAccounts
  <2> QED BY <1>2, <1>3, <2>1, <2>2, RegroupStep DEF IInv
<1>8. SettledMade'
  BY <1>1, MadeStep DEF IInv, Idle, DetachAccounts
<1> QED BY <1>4, <1>5, <1>6, <1>7, <1>8 DEF IInv

LEMMA FindFreeInv ==
    ASSUME IInv, NEW g \in Group, FindFree(g), asset' = asset
    PROVE  IInv'
<1>1. UNCHANGED <<asset, groupOf, row, bal, job, ops, faults>>
  BY DEF FindFree
<1>2. found' \in [Group -> SUBSET Account]
  <2>1. PICK S \in SUBSET Members(0) \ {{}} : found' = [found EXCEPT ![g] = S]
    BY DEF FindFree
  <2> QED BY <2>1, MembersFinite DEF IInv, TypeOK
<1> QED BY <1>1, <1>2 DEF IInv, TypeOK, Balanced, Debt, DebtOf, SendersOk, SettlementsOk,
                          SettlesOk, SettledMade, GroupSum, Members

LEMMA SaveGroupInv ==
    ASSUME IInv, NEW g \in Group, SaveGroup(g), asset' = asset
    PROVE  IInv'
<1>1. /\ faults \subseteq faults'
      /\ faults' \subseteq {"disturbed", "drafted", "noRecipient", "regrouped", "torn"}
      /\ Regroups(found[g]) => "regrouped" \in faults'
  BY DEF IInv, TypeOK, SaveGroup, Note
<1>2. /\ found[g] \in SUBSET Account
      /\ groupOf' = [a \in Account |-> IF a \in found[g] THEN g ELSE groupOf[a]]
      /\ bal' = bal /\ job' = job /\ ops' = ops
  BY DEF IInv, TypeOK, SaveGroup
<1>3. TypeOK'
  <2>1. groupOf' \in [Account -> Group \cup {0}]
    BY <1>2 DEF IInv, TypeOK
  <2>2. /\ row' \in [Group -> {"none", "live", "erased"}]
        /\ found' \in [Group -> SUBSET Account]
    BY DEF IInv, TypeOK, SaveGroup
  <2> QED BY <1>1, <1>2, <2>1, <2>2 DEF IInv, TypeOK
<1>4. Balanced'
  BY <1>1, <1>2 DEF IInv, Balanced, Debt, DebtOf
<1>5. SendersOk'
  BY <1>2 DEF IInv, SendersOk
<1>6. SettlementsOk'
  <2>1. \A v \in Worker : \/ job'[v].pc \notin {"credit", "reset"}
                         \/ (job'[v] = job[v] /\ job[v].group # g)
    BY <1>2 DEF IInv, SettledMade, SaveGroup
  <2> QED BY <1>1, <1>2, <2>1, RegroupStep DEF IInv
<1>7. SettledMade'
  <2>1. \A h \in Group : row[h] # "none" => row'[h] # "none"
    BY DEF IInv, TypeOK, SaveGroup
  <2> QED BY <1>2, <2>1 DEF IInv, SettledMade
<1> QED BY <1>3, <1>4, <1>5, <1>6, <1>7 DEF IInv

LEMMA NextInv == IInv /\ [Next]_vars => IInv'
<1> SUFFICES ASSUME IInv, [Next]_vars PROVE IInv'
  OBVIOUS
<1>1. ASSUME NEW w \in Worker, Handle(w), UNCHANGED <<asset, groupOf, row, found>>
      PROVE  IInv'
  BY <1>1, StartTransferInv, StartSettleInv, InitChargeInv, UpdateAdminTransactionInv,
     ChargeRecipientInv, ReduceSenderInv, ReturnCoinAndTokenInv, ResetCoinAndTokenInv
     DEF Handle
<1>2. ASSUME NEW w \in Worker, Fail(w), UNCHANGED <<asset, groupOf, row, found>>
      PROVE  IInv'
  BY <1>2, FailInv
<1>3. ASSUME NEW w \in Worker, DeleteRow(w) \/ DetachAccounts(w), asset' = asset
      PROVE  IInv'
  BY <1>3, DeleteRowInv, DetachAccountsInv
<1>4. ASSUME NEW g \in Group, FindFree(g) \/ SaveGroup(g), asset' = asset
      PROVE  IInv'
  BY <1>4, FindFreeInv, SaveGroupInv
<1>5. CASE UNCHANGED vars
  BY <1>5 DEF vars, pool, IInv, TypeOK, Balanced, Debt, DebtOf, SendersOk,
              SettlementsOk, SettlesOk, SettledMade, GroupSum, Members
<1> QED BY <1>1, <1>2, <1>3, <1>4, <1>5 DEF Next, pool

\* With nobody in the middle of a transfer nothing is owed.
LEMMA InvConserved == IInv => Conserved
<1> SUFFICES ASSUME IInv, \A w \in Worker : job[w].pc = "idle", faults = {}
             PROVE  SumFunctionOnSet(bal, Account) = 0
  BY DEF Conserved
<1>1. \A w \in Worker : Debt[w] = 0
  BY DEF Debt, DebtOf
<1>2. SumFunctionOnSet(Debt, Worker) = 0
  BY <1>1, WorkerAssumption, SumZero
<1> QED BY <1>2 DEF IInv, Balanced

-----------------------------------------------------------------------------
(* Theorems                                                                *)

\* The balances stay amounts, the sender of a transfer keeps a row, and the
\* id a transfer draws for its recipient (startCoinAccountId,
\* startTokenAccountId) is never past the last account, however the groups
\* are numbered.
THEOREM TypeCorrect == Spec => []TypeOK
<1>1. IInv => TypeOK
  BY DEF IInv
<1> QED BY <1>1, InitInv, NextInv, PTL DEF Spec

\* However the statements of any number of handlers interleave, for any
\* amounts, and however accounts are detached and taken in between: while no
\* settlement is disturbed, loses a member before its reset or takes from the
\* admin, no recipient lacks a row and no handler is cut off in between, the
\* balances add up to zero whenever no handler is at work.
THEOREM ConservedCorrect == Spec => []Conserved
BY InitInv, NextInv, InvConserved, PTL DEF Spec
=============================================================================
