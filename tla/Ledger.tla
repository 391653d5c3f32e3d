------------------------------- MODULE Ledger -------------------------------
(***************************************************************************)
(* ledger-clojure/server.clj: the STM account ledger.                      *)
(*                                                                         *)
(* A dosync block is two steps: it takes a snapshot (its read point) and   *)
(* later commits or refuses.  The Clojure runtime lets a transaction       *)
(* commit only if no ref it alters was committed since its read point;     *)
(* every committing transfer and every reset alters total-transfers, so    *)
(* one stale flag per open transaction records a conflict, and a stale     *)
(* transaction takes a new snapshot.  total-balance derefs the accounts    *)
(* one by one, outside any transaction.                                    *)
(***************************************************************************)
EXTENDS Integers, Sequences, Functions

CONSTANTS
  Ids,          \* the account ids in the order of (keys accounts), a sequence
  Strangers,    \* ids a client may name that are not accounts
  Initial,      \* INITIAL_BALANCES, a function on the accounts
  Amounts,      \* amounts a client may ask for; the route takes any double
  Clients,      \* threads that serve GET /api/clojure/transfer
  Stressers,    \* threads that serve GET /api/clojure/stress
  N,            \* futures of one stress run (10 to 1000 in the code)
  MinAmount,    \* the smallest amount of a future (10.0 in the code)
  MaxLog        \* bound: clients start no transfer when the log is this long

Accounts == Range(Ids)

ASSUME LedgerAssumption ==
  /\ Ids \in Seq(Accounts) /\ Len(Ids) > 0
  /\ Accounts \cap Strangers = {}
  /\ Initial \in [Accounts -> Nat]
  /\ Amounts \subseteq Int
  /\ N \in Nat /\ MinAmount \in Nat /\ MaxLog \in Nat
  /\ Clients \cap (Stressers \X (0..N-1)) = {}

VARIABLES
  balance,         \* the :balance of every account ref
  transferLog,     \* the ref transfer-log
  totalTransfers,  \* the ref total-transfers
  txn,             \* txn[t]: the transfer! call of thread t
  stress           \* stress[s]: the run-stress! call of thread s

vars == <<balance, transferLog, totalTransfers, txn, stress>>

FuturesOf(s) == {s} \X (0..N-1)
Threads == Clients \cup (Stressers \X (0..N-1))

Transfer(from, to, amount) == [from |-> from, to |-> to, amount |-> amount]

\* What the futures of run-stress! transfer: round robin over the accounts.
futureTransfer(i) ==
  Transfer(Ids[(i % Len(Ids)) + 1], Ids[((i + 1) % Len(Ids)) + 1],
           MinAmount + (i % 90))

NoTxn == [pc |-> "idle", what |-> futureTransfer(0), snap |-> Initial, stale |-> FALSE]

NoStress == [pc |-> "idle", left |-> {}, sum |-> 0, verdict |-> "none", torn |-> FALSE]

Init ==
  /\ balance = Initial
  /\ transferLog = <<>>
  /\ totalTransfers = 0
  /\ txn = [t \in Threads |-> NoTxn]
  /\ stress = [s \in Stressers |-> NoStress]

Total(b) == SumFunction(b)

-----------------------------------------------------------------------------
(* transfer!                                                               *)

\* - on the one account, then + on the other; from and to may be the same.
Move(b, x) == [[b EXCEPT ![x.from] = @ - x.amount] EXCEPT ![x.to] = @ + x.amount]

\* Mutant: the balance is not tested.
Covered_NoFunds(b, x) == x.from \in Accounts /\ x.to \in Accounts

\* The when of transfer!: both accounts are known and the money is there.
Covered(b, x) == x.from \in Accounts /\ x.to \in Accounts /\ b[x.from] >= x.amount

\* A commit puts every other open transaction behind the new commit point, and
\* a total-balance that is under way sees some accounts before and some after.
Invalidate(others) ==
  [t \in Threads |-> IF t \in others /\ txn[t].pc = "open"
                     THEN [txn[t] EXCEPT !.stale = TRUE] ELSE txn[t]]

TearSums(st) ==
  [s \in Stressers |-> IF st[s].pc = "sum" THEN [st[s] EXCEPT !.torn = TRUE] ELSE st[s]]

\* dosync begins for the transfer x: the read point.
Begin(t, x) ==
  txn' = [txn EXCEPT ![t] = [pc |-> "open", what |-> x, snap |-> balance, stale |-> FALSE]]

\* GET /api/clojure/transfer: any two ids and any amount, negative ones too.
clientTransfer(c, from, to, amount) ==
  /\ txn[c].pc = "idle"
  /\ Len(transferLog) < MaxLog
  /\ Begin(c, Transfer(from, to, amount))
  /\ UNCHANGED <<balance, transferLog, totalTransfers, stress>>

\* A future of run-stress! starts its transfer!.
futureStarts(t) ==
  /\ txn[t].pc = "ready"
  /\ Begin(t, txn[t].what)
  /\ UNCHANGED <<balance, transferLog, totalTransfers, stress>>

\* The runtime notices the conflict and runs the block again.
retry(t) ==
  /\ txn[t].pc = "open"
  /\ txn[t].stale
  /\ Begin(t, txn[t].what)
  /\ UNCHANGED <<balance, transferLog, totalTransfers, stress>>

\* A client's thread answers and is free again; a future is realised.
Ended(t) == [NoTxn EXCEPT !.pc = IF t \in Clients THEN "idle" ELSE "done"]

\* Mutant: the block commits what it computed from an outdated snapshot.
commit_Stale(t) ==
  LET x == txn[t].what IN
  /\ txn[t].pc = "open"
  /\ Covered(txn[t].snap, x)
  /\ balance' = [a \in Accounts |-> IF a \in {x.from, x.to}
                                    THEN Move(txn[t].snap, x)[a] ELSE balance[a]]
  /\ totalTransfers' = totalTransfers + 1
  /\ transferLog' = Append(transferLog, x)
  /\ txn' = [Invalidate(Threads \ {t}) EXCEPT ![t] = Ended(t)]
  /\ stress' = TearSums(stress)

\* The commit: both alters, the counter and the log, all or nothing.
commit(t) ==
  LET x == txn[t].what IN
  /\ txn[t].pc = "open"
  /\ ~txn[t].stale
  /\ Covered(txn[t].snap, x)
  /\ balance' = [a \in Accounts |-> IF a \in {x.from, x.to}
                                    THEN Move(txn[t].snap, x)[a] ELSE balance[a]]
  /\ totalTransfers' = totalTransfers + 1
  /\ transferLog' = Append(transferLog, x)
  /\ txn' = [Invalidate(Threads \ {t}) EXCEPT ![t] = Ended(t)]
  /\ stress' = TearSums(stress)

\* Mutant: a future whose transfer is refused is never realised.
refuse_Unrealised(t) ==
  /\ txn[t].pc = "open"
  /\ ~Covered(txn[t].snap, txn[t].what)
  /\ txn' = [txn EXCEPT ![t] = NoTxn]
  /\ UNCHANGED <<balance, transferLog, totalTransfers, stress>>

\* The when is false: an unknown account or too small a balance.
refuse(t) ==
  /\ txn[t].pc = "open"
  /\ ~Covered(txn[t].snap, txn[t].what)
  /\ txn' = [txn EXCEPT ![t] = Ended(t)]
  /\ UNCHANGED <<balance, transferLog, totalTransfers, stress>>

-----------------------------------------------------------------------------
(* run-stress!                                                             *)

\* Mutant: the reset forgets the log.
resetAccounts_KeepsLog(s) ==
  /\ stress[s].pc = "idle"
  /\ balance' = Initial
  /\ totalTransfers' = 0
  /\ txn' = [t \in Threads |->
       IF t \in FuturesOf(s)
       THEN [NoTxn EXCEPT !.pc = "ready", !.what = futureTransfer(t[2])]
       ELSE Invalidate(Threads)[t]]
  /\ stress' = TearSums([stress EXCEPT ![s] = [NoStress EXCEPT !.pc = "waiting"]])
  /\ UNCHANGED transferLog

\* reset-accounts! in one dosync, then one future per i is submitted.
resetAccounts(s) ==
  /\ stress[s].pc = "idle"
  /\ balance' = Initial
  /\ transferLog' = <<>>
  /\ totalTransfers' = 0
  /\ txn' = [t \in Threads |->
       IF t \in FuturesOf(s)
       THEN [NoTxn EXCEPT !.pc = "ready", !.what = futureTransfer(t[2])]
       ELSE Invalidate(Threads)[t]]
  /\ stress' = TearSums([stress EXCEPT ![s] = [NoStress EXCEPT !.pc = "waiting"]])

\* Every future has been dereferenced: total-balance begins.
awaitFutures(s) ==
  /\ stress[s].pc = "waiting"
  /\ \A t \in FuturesOf(s) : txn[t].pc = "done"
  /\ stress' = [stress EXCEPT ![s].pc = "sum", ![s].left = Accounts]
  /\ UNCHANGED <<balance, transferLog, totalTransfers, txn>>

\* One deref of total-balance.
readAccount(s, a) ==
  /\ stress[s].pc = "sum"
  /\ a \in stress[s].left
  /\ stress' = [stress EXCEPT ![s].left = @ \ {a}, ![s].sum = @ + balance[a]]
  /\ UNCHANGED <<balance, transferLog, totalTransfers, txn>>

\* invariant-preserved compares the sum with the literal total.
verdict(s) ==
  /\ stress[s].pc = "sum"
  /\ stress[s].left = {}
  /\ stress' = [stress EXCEPT ![s].pc = "idle", ![s].sum = 0,
                  ![s].verdict = IF stress[s].sum = Total(Initial)
                                 THEN "preserved" ELSE "broken"]
  /\ txn' = [t \in Threads |-> IF t \in FuturesOf(s) THEN NoTxn ELSE txn[t]]
  /\ UNCHANGED <<balance, transferLog, totalTransfers>>

-----------------------------------------------------------------------------
\* The process is killed and started again (chaos.sh): the refs live in memory
\* only, so the balances are the initial ones and every thread is gone.
Restart ==
  /\ balance' = Initial
  /\ transferLog' = <<>>
  /\ totalTransfers' = 0
  /\ txn' = [t \in Threads |-> NoTxn]
  /\ stress' = [s \in Stressers |-> NoStress]

TxnStep(t) == futureStarts(t) \/ retry(t) \/ commit(t) \/ refuse(t)

StressStep(s) == \/ awaitFutures(s) \/ verdict(s)
                 \/ \E a \in Accounts : readAccount(s, a)

Next ==
  \/ \E c \in Clients, amount \in Amounts,
        from \in Accounts \cup Strangers, to \in Accounts \cup Strangers :
        clientTransfer(c, from, to, amount)
  \/ \E t \in Threads : TxnStep(t)
  \/ \E s \in Stressers : resetAccounts(s) \/ StressStep(s)
  \/ Restart

Spec == Init /\ [][Next]_vars

\* Threads run; a transaction that keeps meeting conflicts commits in the end,
\* because Clojure's STM lets the older transaction barge.
Fairness ==
  /\ \A t \in Threads : WF_vars(TxnStep(t)) /\ SF_vars(commit(t) \/ refuse(t))
  /\ \A s \in Stressers : WF_vars(StressStep(s))

FairSpec == Spec /\ Fairness

-----------------------------------------------------------------------------
Names == Accounts \cup Strangers

Requests == [from : Names, to : Names, amount : Int]

TxnState == [pc : {"idle", "ready", "open", "done"}, what : Requests,
             snap : [Accounts -> Int], stale : BOOLEAN]

StressState == [pc : {"idle", "waiting", "sum"}, left : SUBSET Accounts, sum : Int,
                verdict : {"none", "preserved", "broken"}, torn : BOOLEAN]

\* Type invariant.
TypeOK ==
  /\ balance \in [Accounts -> Int]
  /\ transferLog \in Seq([from : Accounts, to : Accounts, amount : Int])
  /\ totalTransfers \in Nat
  /\ txn \in [Threads -> TxnState]
  /\ stress \in [Stressers -> StressState]

\* No interleaving of transfers, retries and resets creates or destroys money.
Conservation == Total(balance) = Total(Initial)

\* The refs move together: the balances are what the log says they should be
\* and total-transfers counts the log, also when a reset meets open transfers.
LogExplainsBalances ==
  /\ totalTransfers = Len(transferLog)
  /\ \A a \in Accounts :
       balance[a] = Initial[a]
         + SumFunction([i \in DOMAIN transferLog |->
             (IF transferLog[i].to = a THEN transferLog[i].amount ELSE 0)
             - (IF transferLog[i].from = a THEN transferLog[i].amount ELSE 0)])

\* The balance check inside dosync is never stale: as long as nobody transferred
\* a negative amount, no account is overdrawn, however many transfers race.
NoOverdraft ==
  (\A i \in DOMAIN transferLog : transferLog[i].amount >= 0)
    => \A a \in Accounts : balance[a] >= 0

\* A step changes the balances back to the initial ones or by one whole, covered
\* transfer that somebody asked for and that ends with it: never by half of one,
\* never from a stale snapshot, never twice for one request.
WholeTransfers ==
  [][\/ balance' = Initial
     \/ \E t \in Threads :
          /\ txn[t].pc = "open"
          /\ Covered(balance, txn[t].what)
          /\ balance' = Move(balance, txn[t].what)
          /\ txn'[t].pc # "open"]_balance

\* The stress endpoint reports a broken invariant only when some transaction
\* committed while it was adding up the accounts outside a transaction.
StressVerdictSound ==
  \A s \in Stressers : stress[s].verdict = "broken" => stress[s].torn

\* Retries do not go on for ever: a stress run gives its verdict.
StressTerminates ==
  \A s \in Stressers : stress[s].pc = "waiting" ~> stress[s].pc = "idle"

-----------------------------------------------------------------------------
(* The inductive invariant behind NoOverdraft and WholeTransfers.          *)

\* An open transaction without a conflict works on the current balances.
FreshSnapshot ==
  \A t \in Threads : txn[t].pc = "open" /\ ~txn[t].stale => txn[t].snap = balance

IInv == TypeOK /\ FreshSnapshot /\ NoOverdraft /\ totalTransfers = Len(transferLog)

\* A total-balance that no commit has torn holds the sum of the accounts it has
\* read, and the next one starts from 0.
SumSoFar ==
  \A s \in Stressers :
    IF stress[s].pc # "sum" THEN stress[s].sum = 0
    ELSE stress[s].torn \/ stress[s].sum = SumFunctionOnSet(balance, Accounts \ stress[s].left)

\* What is invariant about the money, on top of IInv.
MoneyInv == Conservation /\ LogExplainsBalances /\ StressVerdictSound /\ SumSoFar
=============================================================================
