------------------------------ MODULE PrizePool -------------------------------
(***************************************************************************)
(* The prize pool of a season.  Contributions and distributions are        *)
(* transactions with read-committed isolation that read the pool, compute  *)
(* its new balance and save it, without a lock.  Saving reads the row      *)
(* again, and writes the columns in which the copy differs from it; from   *)
(* that write to the commit the row is locked, so that these are one step. *)
(*                                                                         *)
(* Amounts are numbers of the smallest unit, of which a column keeps whole *)
(* ones; contributions are whole numbers of it, and all amounts are small  *)
(* enough for a double.  Distribution rules are given by what they hand    *)
(* out to the first place, the first two, and so on, in percent: a share   *)
(* that is not positive is skipped, and nothing makes the last of them 100 *)
(* or less.  Rules whose places are not numbers are not modelled.          *)
(***************************************************************************)
EXTENDS Naturals, Sequences, FiniteSets

CONSTANTS
    Transactions,       \* requests that are served at the same time
    FundAmounts,        \* amounts contributed
    Rules,              \* rules that administrators set
    FinisherCounts,     \* how many finishers a distribution may have
    MaxTransactions     \* bound on the transactions ever begun

ASSUME PoolAssumption ==
    /\ FundAmounts \subseteq Nat \ {0} /\ FinisherCounts \subseteq Nat \ {0}
    /\ MaxTransactions \in Nat
    /\ Rules \subseteq Seq(Nat)
    /\ \A r \in Rules : \A i, j \in 1 .. Len(r) : i <= j => r[i] <= r[j]

(* 50, 30 and 20 percent. *)
DefaultRules == <<50, 80, 100>>

VARIABLES
    pool,           \* the row of the season
    tx,             \* the transactions under way
    begun,          \* number of transactions begun
    audit,          \* audit trail: what its records add up to
    overlapped      \* history: two transactions have been under way at once

poolVars == <<pool, tx, begun, audit, overlapped>>

NoPool == [exists |-> FALSE, balance |-> 0, totalFunded |-> 0, totalDistributed |-> 0,
           isDistributed |-> FALSE, rules |-> DefaultRules]

(* The sums of the FUND and of the DISTRIBUTE records, the number of the   *)
(* latter, and how many finishers they were computed for.                  *)
NoEntry == [funded |-> 0, paid |-> 0, records |-> 0, finishers |-> 0]
NoTx    == [stage |-> "none", copy |-> NoPool, dirty |-> {}, entry |-> NoEntry]

PoolInit ==
    /\ pool = NoPool
    /\ tx = [t \in Transactions |-> NoTx]
    /\ begun = 0 /\ audit = NoEntry
    /\ overlapped = FALSE

-----------------------------------------------------------------------------

(* What the first n places get in all, if there are as many: resolveShares *)
(* cuts the rules to the number of finishers.                              *)
HandedOut(rules, n) ==
    LET k == IF n < Len(rules) THEN n ELSE Len(rules)
    IN  IF k = 0 THEN 0 ELSE rules[k]

PaidPlaces(rules, n) ==
    {i \in 1 .. Len(rules) : i <= n /\ rules[i] > HandedOut(rules, i - 1)}

(* What n amounts may add up to that are hundredths in all, when each of   *)
(* them is rounded by itself (toFixed, whichever way it decides ties).     *)
Rounded(hundredths, n) ==
    {k \in 0 .. (hundredths \div 100) + n :
        100 * k <= hundredths + 50 * n /\ hundredths <= 100 * k + 50 * n}

(* What a distribution leaves, in hundredths: rules may hand out more than *)
(* there is.                                                               *)
Left(balance, handed) == IF handed < 100 * balance THEN 100 * balance - handed ELSE 0

Begin(t, copy, entry) ==
    /\ tx[t].stage = "none"
    /\ begun < MaxTransactions
    /\ begun' = begun + 1
    /\ tx' = [tx EXCEPT ![t] = [stage |-> "save", copy |-> copy, dirty |-> {}, entry |-> entry]]
    /\ overlapped' = (overlapped \/ \E s \in Transactions : tx[s].stage # "none")
    /\ UNCHANGED <<pool, audit>>

(* fundPool, as far as the new balance is computed. *)
FundPool(t, amount) ==
    /\ ~pool.isDistributed
    /\ Begin(t, [pool EXCEPT !.balance = @ + amount, !.totalFunded = @ + amount],
                [NoEntry EXCEPT !.funded = amount])

(* distributePool to n finishers.  The payouts are part of the transaction,*)
(* and each is rounded in its own record, the totals on the pool once.     *)
DistributePool(t, n) ==
    LET handed  == pool.balance * HandedOut(pool.rules, n)
        records == Cardinality(PaidPlaces(pool.rules, n))
    IN  /\ pool.exists /\ ~pool.isDistributed
        /\ pool.balance > 0
        /\ \E paid \in Rounded(handed, records),
              total \in Rounded(100 * pool.totalDistributed + handed, 1),
              left \in Rounded(Left(pool.balance, handed), 1) :
              Begin(t, [pool EXCEPT !.totalDistributed = total, !.balance = left,
                                    !.isDistributed = TRUE],
                       [funded |-> 0, paid |-> paid, records |-> records, finishers |-> n])

(* setDistributionRules stores whatever rules it is given; its transaction *)
(* is that of the save alone.                                              *)
SetDistributionRules(t, rules) ==
    /\ pool.exists /\ ~pool.isDistributed
    /\ Begin(t, [pool EXCEPT !.rules = rules], NoEntry)

(* The row is read again to see what has to be written; a pool that was    *)
(* not there when the request read it is inserted instead.                 *)
CompareRow(t) ==
    /\ tx[t].stage = "save" /\ tx[t].copy.exists
    /\ tx' = [tx EXCEPT ![t] = [tx[t] EXCEPT !.stage = "write",
                                             !.dirty = {c \in DOMAIN pool : tx[t].copy[c] # pool[c]}]]
    /\ UNCHANGED <<pool, begun, audit, overlapped>>

Logged(t) ==
    /\ audit' = [f \in DOMAIN NoEntry |-> audit[f] + tx[t].entry[f]]
    /\ tx' = [tx EXCEPT ![t] = NoTx]
    /\ UNCHANGED <<begun, overlapped>>

(* The pool of a season is unique: a second insertion fails. *)
InsertPool(t) ==
    /\ tx[t].stage = "save" /\ ~tx[t].copy.exists
    /\ ~pool.exists
    /\ pool' = [tx[t].copy EXCEPT !.exists = TRUE]
    /\ Logged(t)

(* A slip: the audit record is written outside the transaction, and lost. *)
WriteRowUnlogged(t) ==
    /\ tx[t].stage = "write"
    /\ pool' = [c \in DOMAIN pool |-> IF c \in tx[t].dirty THEN tx[t].copy[c] ELSE pool[c]]
    /\ tx' = [tx EXCEPT ![t] = NoTx]
    /\ UNCHANGED <<audit, begun, overlapped>>

WriteRow(t) ==
    /\ tx[t].stage = "write"
    /\ pool' = [c \in DOMAIN pool |-> IF c \in tx[t].dirty THEN tx[t].copy[c] ELSE pool[c]]
    /\ Logged(t)

(* A statement fails, or the insertion finds another pool of the season. *)
Abort(t) ==
    /\ tx[t].stage # "none"
    /\ tx' = [tx EXCEPT ![t] = NoTx]
    /\ UNCHANGED <<pool, begun, audit, overlapped>>

-----------------------------------------------------------------------------

PoolNext ==
    \E t \in Transactions :
        \/ \E amount \in FundAmounts : FundPool(t, amount)
        \/ \E n \in FinisherCounts : DistributePool(t, n)
        \/ \E rules \in Rules : SetDistributionRules(t, rules)
        \/ CompareRow(t) \/ InsertPool(t) \/ WriteRow(t)
        \/ Abort(t)

PoolSpec == PoolInit /\ [][PoolNext]_poolVars

-----------------------------------------------------------------------------
(* Properties. *)

PoolRow == [exists : BOOLEAN, balance : Nat, totalFunded : Nat, totalDistributed : Nat,
            isDistributed : BOOLEAN, rules : Rules \cup {DefaultRules}]
Entry   == [funded : Nat, paid : Nat, records : Nat, finishers : Nat]

PoolTypeOK ==
    /\ pool \in PoolRow
    /\ \A t \in Transactions :
          /\ tx[t].stage \in {"none", "save", "write"} /\ tx[t].copy \in PoolRow
          /\ tx[t].dirty \subseteq DOMAIN NoPool /\ tx[t].entry \in Entry
    /\ begun \in 0 .. MaxTransactions
    /\ audit \in Entry /\ overlapped \in BOOLEAN

(* The pool never shows money that the audit trail does not, but for what  *)
(* the rounding of the payouts explains, at most one unit for each of      *)
(* them: overlapping transactions can lose a contribution or a payout from *)
(* the totals, never invent one.  As long as no two have overlapped the    *)
(* books agree: all contributions are in the total, there was at most one  *)
(* distribution, it paid the places that its finishers reached under the   *)
(* rules of the pool their shares of all that was funded, and the pool     *)
(* keeps the rest, or nothing if those shares exceed the whole.            *)
PoolIsBacked ==
    /\ pool.totalFunded <= audit.funded
    /\ pool.totalDistributed <= audit.paid + audit.records
    /\ pool.balance <= audit.funded
    /\ ~overlapped =>
          LET handed == audit.funded * HandedOut(pool.rules, audit.finishers)
          IN  /\ pool.totalFunded = audit.funded
              /\ pool.isDistributed <=> audit.finishers > 0
              /\ audit.records = Cardinality(PaidPlaces(pool.rules, audit.finishers))
              /\ audit.paid \in Rounded(handed, audit.records)
              /\ pool.totalDistributed \in Rounded(handed, 1)
              /\ pool.balance \in Rounded(Left(audit.funded, handed), 1)
=============================================================================
