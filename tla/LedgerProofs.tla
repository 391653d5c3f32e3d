---------------------------- MODULE LedgerProofs ----------------------------
(* Proofs about Ledger, for every chart of accounts, every set of client   *)
(* and stress threads and every set of amounts.                            *)
EXTENDS Ledger, FoldTheorems, FiniteSetTheorems, TLAPS

-----------------------------------------------------------------------------
(* The inductive invariant IInv.                                           *)

\* The futures of a stress run name accounts and transfer natural amounts.
LEMMA FutureType ==
  ASSUME NEW i \in Nat
  PROVE  futureTransfer(i) \in Requests
<1>1. Len(Ids) \in Nat \ {0}
  BY LedgerAssumption
<1>2. (i % Len(Ids)) + 1 \in 1..Len(Ids) /\ ((i + 1) % Len(Ids)) + 1 \in 1..Len(Ids)
  BY <1>1, Z3
<1>3. i % 90 \in Nat
  OBVIOUS
<1> QED
  BY <1>2, <1>3, LedgerAssumption DEF futureTransfer, Transfer, Requests, Names

LEMMA IdleType == NoTxn \in TxnState
BY FutureType, LedgerAssumption DEF NoTxn, TxnState

LEMMA NoStressType == NoStress \in StressState
BY DEF NoStress, StressState

\* The records the actions put together.
LEMMA StressFields ==
  ASSUME NEW r \in StressState
  PROVE  /\ \A v \in {"idle", "waiting", "sum"} : [r EXCEPT !.pc = v] \in StressState
         /\ \A v \in SUBSET Accounts : [r EXCEPT !.left = v] \in StressState
         /\ \A v \in Int : [r EXCEPT !.sum = v] \in StressState
         /\ \A v \in {"none", "preserved", "broken"} : [r EXCEPT !.verdict = v] \in StressState
         /\ r.left \in SUBSET Accounts /\ r.sum \in Int
<1>1. \A v \in {"idle", "waiting", "sum"} : [r EXCEPT !.pc = v] \in StressState
  BY DEF StressState
<1>2. \A v \in SUBSET Accounts : [r EXCEPT !.left = v] \in StressState
  BY DEF StressState
<1>3. \A v \in Int : [r EXCEPT !.sum = v] \in StressState
  BY DEF StressState
<1>4. \A v \in {"none", "preserved", "broken"} : [r EXCEPT !.verdict = v] \in StressState
  BY DEF StressState
<1> QED
  BY <1>1, <1>2, <1>3, <1>4 DEF StressState

LEMMA BeginType ==
  ASSUME NEW x \in Requests, NEW b \in [Accounts -> Int]
  PROVE  [pc |-> "open", what |-> x, snap |-> b, stale |-> FALSE] \in TxnState
BY DEF TxnState

LEMMA EndedType ==
  ASSUME NEW t
  PROVE  Ended(t) \in TxnState /\ Ended(t).pc # "open"
BY IdleType DEF Ended, TxnState, NoTxn

LEMMA StaleType ==
  ASSUME NEW others, TypeOK
  PROVE  /\ Invalidate(others) \in [Threads -> TxnState]
         /\ \A t \in Threads :
              /\ Invalidate(others)[t].pc = txn[t].pc
              /\ t \in others /\ txn[t].pc = "open" => Invalidate(others)[t].stale
<1> SUFFICES ASSUME NEW t \in Threads
             PROVE  /\ Invalidate(others)[t] \in TxnState
                    /\ Invalidate(others)[t].pc = txn[t].pc
                    /\ t \in others /\ txn[t].pc = "open" => Invalidate(others)[t].stale
  BY DEF Invalidate
<1>1. txn[t] \in TxnState
  BY DEF TypeOK
<1>2. [txn[t] EXCEPT !.stale = TRUE] \in TxnState
      /\ [txn[t] EXCEPT !.stale = TRUE].pc = txn[t].pc
      /\ [txn[t] EXCEPT !.stale = TRUE].stale
  BY <1>1 DEF TxnState
<1> QED
  BY <1>1, <1>2 DEF Invalidate

LEMMA TearType ==
  ASSUME NEW st \in [Stressers -> StressState]
  PROVE  TearSums(st) \in [Stressers -> StressState]
<1> SUFFICES ASSUME NEW s \in Stressers
             PROVE  TearSums(st)[s] \in StressState
  BY DEF TearSums
<1>1. st[s] \in StressState
  OBVIOUS
<1>2. [st[s] EXCEPT !.torn = TRUE] \in StressState
  BY <1>1 DEF StressState
<1> QED
  BY <1>1, <1>2 DEF TearSums

\* One transfer, account by account.
LEMMA MoveType ==
  ASSUME NEW b \in [Accounts -> Int],
         NEW x \in [from : Accounts, to : Accounts, amount : Int]
  PROVE  /\ Move(b, x) \in [Accounts -> Int]
         /\ \A a \in Accounts :
              \/ Move(b, x)[a] >= b[a]
              \/ x.amount < 0
              \/ a = x.from /\ Move(b, x)[a] = b[a] - x.amount
         /\ \A a \in Accounts : a \notin {x.from, x.to} => Move(b, x)[a] = b[a]
<1> DEFINE c == [b EXCEPT ![x.from] = b[x.from] - x.amount]
<1>1. x.from \in Accounts /\ x.to \in Accounts /\ x.amount \in Int
  OBVIOUS
<1>2. c \in [Accounts -> Int] /\ \A a \in Accounts :
        c[a] = IF a = x.from THEN b[a] - x.amount ELSE b[a]
  BY <1>1
<1> HIDE DEF c
<1>3. Move(b, x) = [c EXCEPT ![x.to] = c[x.to] + x.amount]
  BY <1>1 DEF Move, c
<1>4. Move(b, x) \in [Accounts -> Int] /\ \A a \in Accounts :
        Move(b, x)[a] = IF a = x.to THEN c[a] + x.amount ELSE c[a]
  BY <1>1, <1>2, <1>3
<1> QED
  BY <1>1, <1>2, <1>4

\* The invariant holds when the server starts.
LEMMA InitIInv == Init => IInv
<1> SUFFICES ASSUME Init PROVE IInv
  OBVIOUS
<1>1. TypeOK
  BY IdleType, NoStressType, LedgerAssumption DEF Init, TypeOK
<1>2. FreshSnapshot
  BY DEF Init, FreshSnapshot, NoTxn
<1>3. NoOverdraft /\ totalTransfers = Len(transferLog)
  BY LedgerAssumption DEF Init, NoOverdraft
<1> QED
  BY <1>1, <1>2, <1>3 DEF IInv

\* What a commit writes: one whole transfer applied to the current balances.
LEMMA CommitMoves ==
  ASSUME IInv, NEW t \in Threads, commit(t)
  PROVE  /\ txn[t].what \in [from : Accounts, to : Accounts, amount : Int]
         /\ Covered(balance, txn[t].what)
         /\ balance' = Move(balance, txn[t].what)
         /\ balance' \in [Accounts -> Int]
<1> DEFINE x == txn[t].what
<1>1. x \in [from : Accounts, to : Accounts, amount : Int]
  BY DEF commit, Covered, IInv, TypeOK, TxnState, Requests
<1>2. txn[t].snap = balance /\ balance \in [Accounts -> Int]
  BY DEF commit, IInv, FreshSnapshot, TypeOK
<1>3. Covered(balance, x)
  BY <1>2 DEF commit
<1>4. /\ Move(balance, x) \in [Accounts -> Int]
      /\ \A a \in Accounts : a \notin {x.from, x.to} => Move(balance, x)[a] = balance[a]
  BY <1>1, <1>2, MoveType
<1>5. balance' = [a \in Accounts |-> IF a \in {x.from, x.to}
                                     THEN Move(balance, x)[a] ELSE balance[a]]
  BY <1>2 DEF commit
<1>6. balance' = Move(balance, x)
  BY <1>4, <1>5
<1> QED
  BY <1>1, <1>3, <1>4, <1>6

\* Every step preserves the types.
LEMMA TypeStep == IInv /\ [Next]_vars => TypeOK'
<1> SUFFICES ASSUME IInv, [Next]_vars PROVE TypeOK'
  OBVIOUS
<1>0. TypeOK /\ (\A t \in Threads : txn[t].what \in Requests)
  BY DEF IInv, TypeOK, TxnState
<1>1. ASSUME NEW c \in Clients, NEW amount \in Amounts, NEW from \in Names,
             NEW to \in Names, clientTransfer(c, from, to, amount)
      PROVE  TypeOK'
  <2>1. Transfer(from, to, amount) \in Requests
    BY LedgerAssumption DEF Transfer, Requests
  <2> QED
    BY <1>0, <1>1, <2>1, BeginType DEF clientTransfer, Begin, TypeOK, Threads
<1>2. ASSUME NEW t \in Threads, futureStarts(t) \/ retry(t) PROVE TypeOK'
  <2>1. Begin(t, txn[t].what) /\ UNCHANGED <<balance, transferLog, totalTransfers, stress>>
    BY <1>2 DEF futureStarts, retry
  <2> QED
    BY <1>0, <2>1, BeginType DEF Begin, TypeOK
<1>3. ASSUME NEW t \in Threads, commit(t) PROVE TypeOK'
  <2>1. balance' \in [Accounts -> Int]
    BY <1>3, CommitMoves
  <2>2. transferLog' \in Seq([from : Accounts, to : Accounts, amount : Int])
    <3>1. txn[t].what \in [from : Accounts, to : Accounts, amount : Int]
      BY <1>3, CommitMoves
    <3>2. transferLog' = Append(transferLog, txn[t].what)
      BY <1>3 DEF commit
    <3> HIDE DEF IInv
    <3> QED
      BY <1>0, <3>1, <3>2 DEF TypeOK
  <2>3. totalTransfers' \in Nat
    BY <1>0, <1>3 DEF commit, TypeOK
  <2>4. txn' \in [Threads -> TxnState]
    <3>1. txn' = [Invalidate(Threads \ {t}) EXCEPT ![t] = Ended(t)]
      BY <1>3 DEF commit
    <3> QED
      BY <1>0, <3>1, StaleType, EndedType
  <2>5. stress' \in [Stressers -> StressState]
    BY <1>0, <1>3, TearType DEF commit, TypeOK
  <2> QED
    BY <2>1, <2>2, <2>3, <2>4, <2>5 DEF TypeOK
<1>4. ASSUME NEW t \in Threads, refuse(t) PROVE TypeOK'
  BY <1>0, <1>4, EndedType DEF refuse, TypeOK
<1>5. ASSUME NEW s \in Stressers, resetAccounts(s) PROVE TypeOK'
  <2>1. \A t \in Threads : t \in FuturesOf(s) =>
          [NoTxn EXCEPT !.pc = "ready", !.what = futureTransfer(t[2])] \in TxnState
    <3> SUFFICES ASSUME NEW t \in Threads, t \in FuturesOf(s)
                 PROVE  [NoTxn EXCEPT !.pc = "ready", !.what = futureTransfer(t[2])] \in TxnState
      OBVIOUS
    <3>1. t[2] \in Nat
      BY LedgerAssumption DEF FuturesOf
    <3>2. futureTransfer(t[2]) \in Requests
      BY <3>1, FutureType
    <3> QED
      BY <3>2, IdleType DEF TxnState
  <2>2. txn' \in [Threads -> TxnState]
    BY <1>0, <1>5, <2>1, StaleType DEF resetAccounts
  <2>3. stress' \in [Stressers -> StressState]
    <3>1. [NoStress EXCEPT !.pc = "waiting"] \in StressState
      BY NoStressType, StressFields
    <3>2. [stress EXCEPT ![s] = [NoStress EXCEPT !.pc = "waiting"]] \in [Stressers -> StressState]
      BY <1>0, <3>1 DEF TypeOK
    <3> QED
      BY <1>5, <3>2, TearType DEF resetAccounts
  <2>4. balance' \in [Accounts -> Int]
    <3>1. Initial \in [Accounts -> Int]
      BY LedgerAssumption
    <3> QED
      BY <1>5, <3>1 DEF resetAccounts
  <2>5. transferLog' = <<>> /\ totalTransfers' = 0
    BY <1>5 DEF resetAccounts
  <2> QED
    BY <2>2, <2>3, <2>4, <2>5 DEF TypeOK
<1>6. ASSUME NEW s \in Stressers, awaitFutures(s) PROVE TypeOK'
  <2>1. [stress[s] EXCEPT !.pc = "sum", !.left = Accounts] \in StressState
    BY <1>0 DEF TypeOK, StressState
  <2>2. stress' = [stress EXCEPT ![s] = [stress[s] EXCEPT !.pc = "sum", !.left = Accounts]]
    BY <1>0, <1>6 DEF awaitFutures, TypeOK, StressState
  <2> QED
    BY <1>0, <1>6, <2>1, <2>2 DEF awaitFutures, TypeOK
<1>7. ASSUME NEW s \in Stressers, NEW a \in Accounts, readAccount(s, a) PROVE TypeOK'
  <2> DEFINE new == [stress[s] EXCEPT !.left = @ \ {a}, !.sum = @ + balance[a]]
  <2>1. /\ balance[a] \in Int
        /\ stress[s] \in StressState
        /\ stress[s].left \in SUBSET Accounts /\ stress[s].sum \in Int
    BY <1>0 DEF TypeOK, StressState
  <2>2. new \in StressState
    <3> DEFINE r == [stress[s] EXCEPT !.left = stress[s].left \ {a}]
    <3>1. r \in StressState
      BY <2>1, StressFields
    <3>2. stress[s].sum + balance[a] \in Int
      BY <2>1
    <3> HIDE DEF r
    <3>3. [r EXCEPT !.sum = stress[s].sum + balance[a]] \in StressState
      BY <3>1, <3>2, StressFields
    <3> QED
      BY <3>3 DEF r
  <2>3. stress' = [stress EXCEPT ![s] = new]
    BY <1>0, <1>7 DEF readAccount, TypeOK, StressState
  <2> HIDE DEF new
  <2>4. stress' \in [Stressers -> StressState]
    BY <1>0, <2>2, <2>3 DEF TypeOK
  <2>5. UNCHANGED <<balance, transferLog, totalTransfers, txn>>
    BY <1>7 DEF readAccount
  <2> QED
    BY <1>0, <2>4, <2>5 DEF TypeOK
<1>8. ASSUME NEW s \in Stressers, verdict(s) PROVE TypeOK'
  <2> DEFINE v == IF stress[s].sum = Total(Initial) THEN "preserved" ELSE "broken"
             new == [stress[s] EXCEPT !.pc = "idle", !.sum = 0, !.verdict = v]
  <2>1. v \in {"none", "preserved", "broken"} /\ stress[s] \in StressState
    BY <1>0 DEF TypeOK
  <2>2. stress' = [stress EXCEPT ![s] = new]
    BY <1>0, <1>8 DEF verdict, TypeOK, StressState
  <2> HIDE DEF v
  <2>3. new \in StressState
    <3> DEFINE r == [stress[s] EXCEPT !.pc = "idle"]
               q == [r EXCEPT !.sum = 0]
    <3>1. r \in StressState
      BY <2>1, StressFields
    <3> HIDE DEF r
    <3>2. q \in StressState
      BY <3>1 DEF StressState
    <3> HIDE DEF q
    <3>3. [q EXCEPT !.verdict = v] \in StressState
      BY <2>1, <3>2, StressFields
    <3> QED
      BY <3>3 DEF q, r
  <2> HIDE DEF new
  <2>4. txn' \in [Threads -> TxnState]
    BY <1>0, <1>8, IdleType DEF verdict, TypeOK
  <2>5. stress' \in [Stressers -> StressState]
    BY <1>0, <2>2, <2>3 DEF TypeOK
  <2>6. UNCHANGED <<balance, transferLog, totalTransfers>>
    BY <1>8 DEF verdict
  <2> QED
    BY <1>0, <2>4, <2>5, <2>6 DEF TypeOK
<1>9. CASE UNCHANGED vars
  BY <1>0, <1>9 DEF vars, TypeOK
<1>10. CASE Restart
  <2>1. Init'
    BY <1>10 DEF Restart, Init
  <2>2. Initial \in [Accounts -> Int]
    BY LedgerAssumption
  <2> QED
    BY <2>1, <2>2, IdleType, NoStressType DEF Init, TypeOK
<1> QED
  BY <1>1, <1>2, <1>3, <1>4, <1>5, <1>6, <1>7, <1>8, <1>9, <1>10
     DEF Next, TxnStep, StressStep, Names

\* Every step preserves the invariant.
LEMMA InvStep == IInv /\ [Next]_vars => IInv'
<1> SUFFICES ASSUME IInv, [Next]_vars PROVE IInv'
  OBVIOUS
<1>0. TypeOK'
  BY TypeStep
<1> DEFINE Rest == FreshSnapshot /\ NoOverdraft /\ totalTransfers = Len(transferLog)
<1>a. TypeOK /\ Rest
  BY DEF IInv
<1>1. ASSUME NEW c \in Clients, NEW amount \in Amounts, NEW from \in Names,
             NEW to \in Names, clientTransfer(c, from, to, amount)
      PROVE  Rest'
  BY <1>a, <1>1 DEF clientTransfer, Threads, TypeOK, FreshSnapshot, NoOverdraft, Begin
<1>2. ASSUME NEW t \in Threads, futureStarts(t) \/ retry(t) PROVE Rest'
  <2>1. Begin(t, txn[t].what) /\ UNCHANGED <<balance, transferLog, totalTransfers, stress>>
    BY <1>2 DEF futureStarts, retry
  <2>2. FreshSnapshot'
    BY <1>a, <2>1 DEF FreshSnapshot, Begin, TypeOK
  <2> QED
    BY <1>a, <2>1, <2>2 DEF NoOverdraft
<1>3. ASSUME NEW t \in Threads, commit(t) PROVE Rest'
  <2> DEFINE x == txn[t].what
  <2>1. /\ x \in [from : Accounts, to : Accounts, amount : Int]
        /\ Covered(balance, x)
        /\ balance' = Move(balance, x)
    BY <1>3, CommitMoves
  <2>2. transferLog' = Append(transferLog, x)
    BY <1>3 DEF commit
  <2>3. FreshSnapshot'
    <3>1. txn' = [Invalidate(Threads \ {t}) EXCEPT ![t] = Ended(t)]
      BY <1>3 DEF commit
    <3>2. \A q \in Threads : txn'[q].pc = "open" => txn'[q].stale
      BY <1>a, <3>1, StaleType, EndedType
    <3> QED
      BY <3>2 DEF FreshSnapshot
  <2>4. (totalTransfers = Len(transferLog))'
    BY <1>a, <1>3, <2>1, <2>2 DEF commit, TypeOK
  <2>5. NoOverdraft'
    <3> SUFFICES ASSUME \A i \in DOMAIN transferLog' : transferLog'[i].amount >= 0,
                        NEW a \in Accounts
                 PROVE  balance'[a] >= 0
      BY DEF NoOverdraft
    <3>1. \A i \in DOMAIN transferLog : i \in DOMAIN transferLog' /\ transferLog'[i] = transferLog[i]
      BY <1>a, <2>1, <2>2 DEF TypeOK
    <3>2. x.amount >= 0
      <4>1. Len(transferLog) + 1 \in DOMAIN transferLog'
        BY <1>a, <2>1, <2>2 DEF TypeOK
      <4>2. transferLog'[Len(transferLog) + 1] = x
        BY <1>a, <2>1, <2>2 DEF TypeOK
      <4> QED
        BY <4>1, <4>2
    <3>3. balance[a] >= 0
      BY <1>a, <3>1 DEF NoOverdraft
    <3>4. /\ Move(balance, x)[a] \in Int
          /\ \/ Move(balance, x)[a] >= balance[a]
             \/ x.amount < 0
             \/ a = x.from /\ Move(balance, x)[a] = balance[a] - x.amount
      BY <1>a, <2>1, MoveType, SMTT(40) DEF TypeOK
    <3>5. balance[x.from] >= x.amount
      BY <2>1 DEF Covered
    <3>6. balance[a] \in Int /\ x.amount \in Int
      BY <1>a, <2>1 DEF TypeOK
    <3>7. Move(balance, x)[a] >= 0
      BY <3>2, <3>3, <3>4, <3>5, <3>6
    <3> QED
      BY <2>1, <3>7
  <2> QED
    BY <2>3, <2>4, <2>5
<1>4. ASSUME NEW t \in Threads, refuse(t) PROVE Rest'
  BY <1>a, <1>4, EndedType DEF refuse, TypeOK, FreshSnapshot, NoOverdraft
<1>5. ASSUME NEW s \in Stressers, resetAccounts(s) PROVE Rest'
  <2>1. \A t \in Threads : txn'[t].pc = "open" => txn'[t].stale
    <3> SUFFICES ASSUME NEW t \in Threads PROVE txn'[t].pc = "open" => txn'[t].stale
      OBVIOUS
    <3>1. CASE t \in FuturesOf(s)
      <4>1. txn'[t] = [NoTxn EXCEPT !.pc = "ready", !.what = futureTransfer(t[2])]
        BY <1>5, <3>1 DEF resetAccounts
      <4> QED
        BY <4>1 DEF NoTxn
    <3>2. CASE t \notin FuturesOf(s)
      <4>1. txn'[t] = Invalidate(Threads)[t]
        BY <1>5, <3>2 DEF resetAccounts
      <4> QED
        BY <1>a, <4>1, StaleType
    <3> QED
      BY <3>1, <3>2
  <2>2. balance' = Initial /\ transferLog' = <<>> /\ totalTransfers' = 0
    BY <1>5 DEF resetAccounts
  <2> QED
    BY <2>1, <2>2, LedgerAssumption DEF FreshSnapshot, NoOverdraft
<1>6. ASSUME NEW s \in Stressers, awaitFutures(s) PROVE Rest'
  BY <1>a, <1>6 DEF awaitFutures, FreshSnapshot, NoOverdraft
<1>7. ASSUME NEW s \in Stressers, NEW a \in Accounts, readAccount(s, a) PROVE Rest'
  BY <1>a, <1>7 DEF readAccount, FreshSnapshot, NoOverdraft
<1>8. ASSUME NEW s \in Stressers, verdict(s) PROVE Rest'
  BY <1>a, <1>8 DEF verdict, NoTxn, TypeOK, FreshSnapshot, NoOverdraft
<1>9. ASSUME UNCHANGED vars PROVE Rest'
  BY <1>a, <1>9 DEF vars, FreshSnapshot, NoOverdraft
<1>10. ASSUME Restart PROVE Rest'
  BY <1>10, LedgerAssumption DEF Restart, NoTxn, FreshSnapshot, NoOverdraft
<1>11. Rest'
  BY <1>1, <1>2, <1>3, <1>4, <1>5, <1>6, <1>7, <1>8, <1>9, <1>10
     DEF Next, TxnStep, StressStep, Names
<1> QED
  BY <1>0, <1>11 DEF IInv

\* Type correctness of the ledger: every Next step keeps the five refs typed.
THEOREM TypeCorrect == Spec => []TypeOK
<1>1. IInv => TypeOK
  BY DEF IInv
<1> QED
  BY <1>1, InitIInv, InvStep, PTL DEF Spec

\* The balance test inside dosync is never stale: without negative amounts no
\* account is ever overdrawn, whatever transfers and resets race.
THEOREM OverdraftImpossible == Spec => []NoOverdraft
<1>1. IInv => NoOverdraft
  BY DEF IInv
<1> QED
  BY <1>1, InitIInv, InvStep, PTL DEF Spec

\* The balances change by whole transfers of transfer! or by a reset-accounts!,
\* and in no other way.
THEOREM TransfersAreWhole == Spec => WholeTransfers
<1> DEFINE Whole == \/ balance' = Initial
                    \/ \E t \in Threads :
                         /\ txn[t].pc = "open"
                         /\ Covered(balance, txn[t].what)
                         /\ balance' = Move(balance, txn[t].what)
                         /\ txn'[t].pc # "open"
<1>1. ASSUME IInv, NEW t \in Threads, commit(t) PROVE Whole
  <2>1. Covered(balance, txn[t].what) /\ balance' = Move(balance, txn[t].what)
    BY <1>1, CommitMoves
  <2>2. txn[t].pc = "open" /\ txn' = [Invalidate(Threads \ {t}) EXCEPT ![t] = Ended(t)]
    BY <1>1 DEF commit
  <2>3. TypeOK
    BY <1>1 DEF IInv
  <2>4. txn'[t].pc # "open"
    BY <2>2, <2>3, StaleType, EndedType
  <2> QED
    BY <2>1, <2>2, <2>4
<1>2. ASSUME IInv, [Next]_vars PROVE [Whole]_balance
  <2>1. \/ \E t \in Threads : commit(t)
        \/ \E s \in Stressers : resetAccounts(s)
        \/ Restart
        \/ balance' = balance
    BY <1>2 DEF Next, TxnStep, StressStep, vars, clientTransfer, futureStarts, retry,
                refuse, awaitFutures, readAccount, verdict
  <2> QED
    BY <1>1, <1>2, <2>1 DEF resetAccounts, Restart
<1> QED
  BY <1>2, InitIInv, InvStep, PTL DEF Spec, WholeTransfers

-----------------------------------------------------------------------------
(* The money: MoneyInv.                                                    *)

\* The accounts are the finitely many ids of the literal map.
LEMMA AccountsFinite == IsFiniteSet(Accounts)
<1>1. Ids \in [1..Len(Ids) -> Accounts] /\ DOMAIN Ids = 1..Len(Ids) /\ Len(Ids) \in Nat
  BY LedgerAssumption
<1>2. \A a \in Accounts : \E i \in 1..Len(Ids) : Ids[i] = a
  BY <1>1 DEF Accounts, Range
<1>3. Ids \in Surjection(1..Len(Ids), Accounts)
  BY <1>1, <1>2 DEF Surjection
<1>4. IsFiniteSet(1..Len(Ids))
  BY <1>1, FS_Interval
<1> QED
  BY <1>3, <1>4, FS_Surjection

\* A transfer moves money and makes none, also from an account to itself.
LEMMA MoveKeepsTotal ==
  ASSUME NEW b \in [Accounts -> Int],
         NEW x \in [from : Accounts, to : Accounts, amount : Int]
  PROVE  Total(Move(b, x)) = Total(b)
<1> DEFINE c == [b EXCEPT ![x.from] = b[x.from] - x.amount]
<1>1. x.from \in Accounts /\ x.to \in Accounts /\ x.amount \in Int
  OBVIOUS
<1>2. b[x.from] \in Int /\ b[x.from] - x.amount \in Int /\ c \in [Accounts -> Int]
  BY <1>1
<1>a. \A f \in [Accounts -> Int], a \in Accounts, v \in Int :
        Total([f EXCEPT ![a] = v]) = Total(f) - f[a] + v
  BY AccountsFinite, SumExcept DEF Total
<1>3. Total(c) = Total(b) - b[x.from] + (b[x.from] - x.amount)
  BY <1>1, <1>2, <1>a
<1>4. \A f \in [Accounts -> Int] : Total(f) \in Int
  BY AccountsFinite, SumPick DEF Total, SumFunction
<1> HIDE DEF c
<1>5. c[x.to] \in Int /\ c[x.to] + x.amount \in Int
  BY <1>1, <1>2
<1>6. Total([c EXCEPT ![x.to] = c[x.to] + x.amount])
        = Total(c) - c[x.to] + (c[x.to] + x.amount)
  BY <1>1, <1>2, <1>5, <1>a
<1>7. Move(b, x) = [c EXCEPT ![x.to] = c[x.to] + x.amount]
  BY <1>1 DEF Move, c
<1>8. Total(b) \in Int /\ Total(c) \in Int
  BY <1>2, <1>4
<1> QED
  BY <1>1, <1>2, <1>3, <1>5, <1>6, <1>7, <1>8

\* What one log entry does to an account, and what the whole log does.
Effect(x, a) == (IF x.to = a THEN x.amount ELSE 0) - (IF x.from = a THEN x.amount ELSE 0)
Effects(log, a) == [i \in DOMAIN log |-> Effect(log[i], a)]

\* Move is the effect of its transfer on every account.
LEMMA MoveEffect ==
  ASSUME NEW b \in [Accounts -> Int], NEW a \in Accounts,
         NEW x \in [from : Accounts, to : Accounts, amount : Int]
  PROVE  Move(b, x)[a] = b[a] + Effect(x, a)
<1> DEFINE c == [b EXCEPT ![x.from] = b[x.from] - x.amount]
<1>1. x.from \in Accounts /\ x.to \in Accounts /\ x.amount \in Int /\ b[a] \in Int
  OBVIOUS
<1>2. c \in [Accounts -> Int] /\ \A q \in Accounts :
        c[q] = IF q = x.from THEN b[q] - x.amount ELSE b[q]
  BY <1>1
<1> HIDE DEF c
<1>3. Move(b, x) = [c EXCEPT ![x.to] = c[x.to] + x.amount]
  BY <1>1 DEF Move, c
<1>4. Move(b, x)[a] = IF a = x.to THEN c[a] + x.amount ELSE c[a]
  BY <1>1, <1>2, <1>3
<1> QED
  BY <1>1, <1>2, <1>4 DEF Effect

\* One more entry in the log adds its effect.
LEMMA LogGrows ==
  ASSUME NEW log \in Seq([from : Accounts, to : Accounts, amount : Int]),
         NEW x \in [from : Accounts, to : Accounts, amount : Int], NEW a \in Accounts
  PROVE  /\ SumFunction(Effects(log, a)) \in Int
         /\ SumFunction(Effects(Append(log, x), a)) = SumFunction(Effects(log, a)) + Effect(x, a)
<1> DEFINE n == Len(log)
           old == 1..n
           all == 1..(n+1)
           new == Append(log, x)
           e == Effects(log, a)
           f == Effects(new, a)
<1>1. /\ n \in Nat /\ DOMAIN log = old /\ DOMAIN new = all /\ new[n+1] = x
      /\ \A i \in old : new[i] = log[i]
  OBVIOUS
<1>2. \A i \in old : log[i] \in [from : Accounts, to : Accounts, amount : Int]
  <2> DEFINE Entries == [from : Accounts, to : Accounts, amount : Int]
  <2>1. log \in Seq(Entries)
    OBVIOUS
  <2> HIDE DEF Entries
  <2>2. \A i \in old : log[i] \in Entries
    BY <2>1
  <2> QED
    BY <2>2 DEF Entries
<1>3. \A y \in [from : Accounts, to : Accounts, amount : Int] : Effect(y, a) \in Int
  BY DEF Effect
<1> HIDE DEF n, new
<1>4. IsFiniteSet(old) /\ IsFiniteSet(all)
  BY <1>1, FS_Interval
<1>5. n+1 \in all /\ all \ {n+1} = old
  BY <1>1
<1> HIDE DEF old, all
<1>6. DOMAIN e = old /\ (\A i \in old : e[i] = Effect(log[i], a) /\ e[i] \in Int)
  BY <1>1, <1>2, <1>3 DEF Effects
<1>7. DOMAIN f = all /\ (\A i \in old : f[i] = e[i]) /\ f[n+1] = Effect(x, a)
  BY <1>1, <1>5, <1>6 DEF Effects
<1> HIDE DEF e, f
<1>8. \A i \in all : f[i] \in Int
  BY <1>3, <1>5, <1>6, <1>7
<1>9. SumFunctionOnSet(f, all) = f[n+1] + SumFunctionOnSet(f, old)
  BY <1>4, <1>5, <1>8, SumPick
<1>10. SumFunctionOnSet(e, old) = SumFunctionOnSet(f, old)
  BY <1>4, <1>6, <1>7, SumSame
<1>11. SumFunctionOnSet(e, old) \in Int
  BY <1>4, <1>6, SumPick
<1>12. SumFunction(e) = SumFunctionOnSet(e, old) /\ SumFunction(f) = SumFunctionOnSet(f, all)
  BY <1>6, <1>7 DEF SumFunction
<1>13. SumFunction(f) = SumFunction(e) + Effect(x, a) /\ SumFunction(e) \in Int
  BY <1>3, <1>7, <1>9, <1>10, <1>11, <1>12
<1> QED
  BY <1>13 DEF e, f, new

\* LogExplainsBalances in terms of Effects.
LEMMA ExplainedBy ==
  LogExplainsBalances <=>
    /\ totalTransfers = Len(transferLog)
    /\ \A a \in Accounts : balance[a] = Initial[a] + SumFunction(Effects(transferLog, a))
BY DEF LogExplainsBalances, Effects, Effect

\* The empty log does nothing.
LEMMA EmptyLog == \A a \in Accounts : SumFunction(Effects(<<>>, a)) = 0
<1> SUFFICES ASSUME NEW a \in Accounts PROVE SumFunction(Effects(<<>>, a)) = 0
  OBVIOUS
<1>1. DOMAIN Effects(<<>>, a) = {}
  BY DEF Effects
<1>2. SumFunction(Effects(<<>>, a)) = SumFunctionOnSet(Effects(<<>>, a), {})
  BY <1>1 DEF SumFunction
<1> QED
  BY <1>2, SumStep, FS_EmptySet

\* The books after a reset-accounts! or a restart.
LEMMA FreshBooks ==
  ASSUME balance' = Initial, transferLog' = <<>>, totalTransfers' = 0
  PROVE  Conservation' /\ LogExplainsBalances'
<1>1. \A a \in Accounts : Initial[a] = Initial[a] + SumFunction(Effects(<<>>, a))
  BY EmptyLog, LedgerAssumption
<1> QED
  BY <1>1 DEF Conservation, LogExplainsBalances, Effects, Effect

\* A commit keeps the total and puts into the log what it did to the balances.
LEMMA CommitBooks ==
  ASSUME IInv, Conservation, LogExplainsBalances, NEW t \in Threads, commit(t)
  PROVE  Conservation' /\ LogExplainsBalances'
<1> DEFINE x == txn[t].what
<1>0. balance \in [Accounts -> Int]
      /\ transferLog \in Seq([from : Accounts, to : Accounts, amount : Int])
  BY DEF IInv, TypeOK
<1>1. /\ x \in [from : Accounts, to : Accounts, amount : Int]
      /\ balance' = Move(balance, x)
  BY CommitMoves
<1>2. transferLog' = Append(transferLog, x) /\ totalTransfers' = totalTransfers + 1
  BY DEF commit
<1> HIDE DEF x
<1>3. Conservation'
  BY <1>0, <1>1, MoveKeepsTotal DEF Conservation
<1>4. totalTransfers' = Len(transferLog')
  BY <1>0, <1>1, <1>2 DEF IInv
<1>5. ASSUME NEW a \in Accounts
      PROVE  balance'[a] = Initial[a] + SumFunction(Effects(transferLog', a))
  <2>1. balance[a] = Initial[a] + SumFunction(Effects(transferLog, a))
    BY ExplainedBy
  <2>2. balance'[a] = balance[a] + Effect(x, a)
    BY <1>0, <1>1, MoveEffect
  <2>3. /\ SumFunction(Effects(transferLog, a)) \in Int
        /\ SumFunction(Effects(transferLog', a))
             = SumFunction(Effects(transferLog, a)) + Effect(x, a)
    BY <1>0, <1>1, <1>2, LogGrows
  <2>4. Effect(x, a) \in Int /\ Initial[a] \in Int
    BY <1>1, LedgerAssumption DEF Effect
  <2> QED
    BY <2>1, <2>2, <2>3, <2>4
<1>6. LogExplainsBalances'
  BY <1>4, <1>5 DEF LogExplainsBalances, Effects, Effect
<1> QED
  BY <1>3, <1>6

\* After TearSums no running total-balance counts as undisturbed.
LEMMA TornSums ==
  ASSUME NEW st \in [Stressers -> StressState], stress' = TearSums(st),
         \A s \in Stressers : /\ st[s].pc # "sum" => st[s].sum = 0
                              /\ st[s].verdict = "broken" => st[s].torn
  PROVE  StressVerdictSound' /\ SumSoFar'
<1> SUFFICES ASSUME NEW s \in Stressers
             PROVE  /\ stress'[s].verdict = "broken" => stress'[s].torn
                    /\ IF stress'[s].pc # "sum" THEN stress'[s].sum = 0 ELSE stress'[s].torn
  BY DEF StressVerdictSound, SumSoFar
<1>1. stress'[s] = IF st[s].pc = "sum" THEN [st[s] EXCEPT !.torn = TRUE] ELSE st[s]
  BY DEF TearSums
<1>2. st[s] \in StressState
  OBVIOUS
<1> QED
  BY <1>1, <1>2 DEF StressState

\* The invariant about the money holds when the server starts.
LEMMA InitMoney == Init => MoneyInv
<1> SUFFICES ASSUME Init PROVE MoneyInv
  OBVIOUS
<1>1. \A a \in Accounts : Initial[a] = Initial[a] + SumFunction(Effects(<<>>, a))
  BY EmptyLog, LedgerAssumption
<1>2. Conservation /\ LogExplainsBalances
  BY <1>1, ExplainedBy DEF Init, Conservation
<1>3. StressVerdictSound /\ SumSoFar
  BY DEF Init, NoStress, StressVerdictSound, SumSoFar
<1> QED
  BY <1>2, <1>3 DEF MoneyInv

\* Every step preserves it.
LEMMA MoneyStep == IInv /\ MoneyInv /\ [Next]_vars => MoneyInv'
<1> SUFFICES ASSUME IInv, MoneyInv, [Next]_vars PROVE MoneyInv'
  OBVIOUS
<1> USE DEF MoneyInv
<1>0. TypeOK /\ stress \in [Stressers -> StressState] /\ balance \in [Accounts -> Int]
  BY DEF IInv, TypeOK
<1>1. ASSUME UNCHANGED <<balance, transferLog, totalTransfers, stress>> PROVE MoneyInv'
  BY <1>1 DEF Conservation, LogExplainsBalances, StressVerdictSound, SumSoFar
<1>2. ASSUME NEW t \in Threads, commit(t) PROVE MoneyInv'
  <2>1. stress' = TearSums(stress)
    BY <1>2 DEF commit
  <2>2. StressVerdictSound' /\ SumSoFar'
    BY <1>0, <2>1, TornSums DEF StressVerdictSound, SumSoFar
  <2> QED
    BY <1>2, <2>2, CommitBooks
<1>3. ASSUME NEW s \in Stressers, resetAccounts(s) PROVE MoneyInv'
  <2> DEFINE st == [stress EXCEPT ![s] = [NoStress EXCEPT !.pc = "waiting"]]
  <2>1. balance' = Initial /\ transferLog' = <<>> /\ totalTransfers' = 0 /\ stress' = TearSums(st)
    BY <1>3 DEF resetAccounts
  <2>2. Conservation' /\ LogExplainsBalances'
    BY <2>1, FreshBooks
  <2>3. st \in [Stressers -> StressState]
    BY <1>0, NoStressType, StressFields
  <2>4. \A q \in Stressers : /\ st[q].pc # "sum" => st[q].sum = 0
                             /\ st[q].verdict = "broken" => st[q].torn
    BY <1>0 DEF NoStress, StressVerdictSound, SumSoFar
  <2> HIDE DEF st
  <2>5. StressVerdictSound' /\ SumSoFar'
    BY <2>1, <2>3, <2>4, TornSums
  <2> QED
    BY <2>2, <2>5
<1>4. ASSUME Restart PROVE MoneyInv'
  <2>1. Conservation' /\ LogExplainsBalances'
    BY <1>4, FreshBooks DEF Restart
  <2>2. StressVerdictSound' /\ SumSoFar'
    BY <1>4 DEF Restart, NoStress, StressVerdictSound, SumSoFar
  <2> QED
    BY <2>1, <2>2
<1>5. ASSUME UNCHANGED <<balance, transferLog, totalTransfers>>
      PROVE  Conservation' /\ LogExplainsBalances'
  BY <1>5 DEF Conservation, LogExplainsBalances
<1>6. ASSUME NEW s \in Stressers, awaitFutures(s) PROVE MoneyInv'
  <2>1. stress' = [stress EXCEPT ![s].pc = "sum", ![s].left = Accounts]
        /\ stress[s].pc = "waiting" /\ UNCHANGED <<balance, transferLog, totalTransfers>>
    BY <1>6 DEF awaitFutures
  <2>2. StressVerdictSound'
    BY <1>0, <2>1 DEF StressVerdictSound, StressState
  <2>3. SumFunctionOnSet(balance, {}) = 0 /\ Accounts \ Accounts = {}
    BY SumStep, FS_EmptySet
  <2>4. SumSoFar'
    BY <1>0, <2>1, <2>3 DEF SumSoFar, StressState
  <2> QED
    BY <1>5, <2>1, <2>2, <2>4
<1>7. ASSUME NEW s \in Stressers, NEW a \in Accounts, readAccount(s, a) PROVE MoneyInv'
  <2> DEFINE left == stress[s].left
  <2>1. /\ stress' = [stress EXCEPT ![s].left = @ \ {a}, ![s].sum = @ + balance[a]]
        /\ stress[s].pc = "sum" /\ a \in left
        /\ UNCHANGED <<balance, transferLog, totalTransfers>>
    BY <1>7 DEF readAccount
  <2>2. StressVerdictSound'
    BY <1>0, <2>1 DEF StressVerdictSound, StressState
  <2> DEFINE seen == Accounts \ left
             next == Accounts \ (left \ {a})
  <2>3. next \ {a} = seen /\ a \in next /\ next \subseteq Accounts
    BY <2>1
  <2>4. IsFiniteSet(next)
    BY AccountsFinite, FS_Subset
  <2> HIDE DEF seen, next
  <2>5. \A q \in next : balance[q] \in Int
    BY <1>0, <2>3
  <2>6. SumFunctionOnSet(balance, next) = balance[a] + SumFunctionOnSet(balance, seen)
    BY <2>3, <2>4, <2>5, SumPick
  <2>7. stress[s].torn \/ stress[s].sum = SumFunctionOnSet(balance, seen)
    BY <2>1 DEF SumSoFar, seen
  <2>8. stress'[s].torn \/ stress'[s].sum = SumFunctionOnSet(balance, next)
    BY <1>0, <2>1, <2>6, <2>7, <2>3 DEF StressState
  <2>9. SumSoFar'
    <3>1. stress'[s].pc = "sum" /\ stress'[s].left = left \ {a}
      BY <1>0, <2>1 DEF StressState
    <3>2. \A u \in Stressers \ {s} : stress'[u] = stress[u]
      BY <1>0, <2>1
    <3> QED
      BY <2>1, <2>8, <3>1, <3>2 DEF SumSoFar, next
  <2> QED
    BY <1>5, <2>1, <2>2, <2>9
<1>8. ASSUME NEW s \in Stressers, verdict(s) PROVE MoneyInv'
  <2> DEFINE v == IF stress[s].sum = Total(Initial) THEN "preserved" ELSE "broken"
  <2>1. /\ stress' = [stress EXCEPT ![s].pc = "idle", ![s].sum = 0, ![s].verdict = v]
        /\ stress[s].pc = "sum" /\ stress[s].left = {}
        /\ UNCHANGED <<balance, transferLog, totalTransfers>>
    BY <1>8 DEF verdict
  <2>2. stress[s].torn \/ stress[s].sum = SumFunctionOnSet(balance, Accounts)
    BY <2>1 DEF SumSoFar
  <2>3. SumFunctionOnSet(balance, Accounts) = Total(Initial)
    BY <1>0 DEF Conservation, Total, SumFunction
  <2>4. v = "broken" => stress[s].torn
    BY <2>2, <2>3
  <2> HIDE DEF v
  <2>5. StressVerdictSound'
    BY <1>0, <2>1, <2>4 DEF StressVerdictSound, StressState
  <2>6. SumSoFar'
    <3>1. stress'[s].pc = "idle" /\ stress'[s].sum = 0
      BY <1>0, <2>1 DEF StressState
    <3>2. \A u \in Stressers \ {s} : stress'[u] = stress[u]
      BY <1>0, <2>1
    <3> QED
      BY <2>1, <3>1, <3>2 DEF SumSoFar
  <2> QED
    BY <1>5, <2>1, <2>5, <2>6
<1>9. \/ \E t \in Threads : commit(t)
      \/ \E s \in Stressers : \/ resetAccounts(s) \/ awaitFutures(s) \/ verdict(s)
                             \/ \E a \in Accounts : readAccount(s, a)
      \/ Restart
      \/ UNCHANGED <<balance, transferLog, totalTransfers, stress>>
  BY DEF Next, TxnStep, StressStep, vars, clientTransfer, futureStarts, retry, refuse
<1> QED
  BY <1>1, <1>2, <1>3, <1>4, <1>6, <1>7, <1>8, <1>9

\* IInv and MoneyInv together are inductive.
LEMMA MoneyInvariance == Spec => []MoneyInv
<1>1. Init => IInv /\ MoneyInv
  BY InitIInv, InitMoney
<1>2. IInv /\ MoneyInv /\ [Next]_vars => (IInv /\ MoneyInv)'
  BY InvStep, MoneyStep
<1> QED
  BY <1>1, <1>2, PTL DEF Spec

\* No interleaving of transfers, retries, resets and restarts of the ledger
\* creates or destroys money: the accounts always add up to the initial total.
THEOREM MoneyConserved == Spec => []Conservation
<1>1. MoneyInv => Conservation
  BY DEF MoneyInv
<1> QED
  BY <1>1, MoneyInvariance, PTL

\* transfer-log and total-transfers always account for the balances exactly.
THEOREM LogIsComplete == Spec => []LogExplainsBalances
<1>1. MoneyInv => LogExplainsBalances
  BY DEF MoneyInv
<1> QED
  BY <1>1, MoneyInvariance, PTL

\* run-stress! reports a broken invariant only when its total-balance, which is
\* outside any transaction, was torn by a commit: never because money is missing.
THEOREM BrokenMeansTorn == Spec => []StressVerdictSound
<1>1. MoneyInv => StressVerdictSound
  BY DEF MoneyInv
<1> QED
  BY <1>1, MoneyInvariance, PTL
=============================================================================
