---------------------------- MODULE AccountFunds ----------------------------
(***************************************************************************)
(* The row of one trading account, and what its withdrawals reserve.       *)
(*                                                                         *)
(* Two programs move the money of an account: the matching engine, which   *)
(* opens and closes positions (market_commit in engine.rs, close_exclusive *)
(* in engine_trade.rs), and the gateway, which books deposits, debits,     *)
(* credits and the reservations of withdrawal requests                     *)
(* (FinancialService in financial.service.ts).  Each of them runs one      *)
(* database transaction that begins with SELECT ... FOR UPDATE on the row  *)
(* of the account, reads everything it decides on after that, and writes   *)
(* before it commits: each is one action here.  FinancialService.adjust    *)
(* also looks for its externalRef before the lock; it looks again under    *)
(* the lock and answers the same, so the first look is not a step.         *)
(*                                                                         *)
(* Amounts are whole units.  The positions of the account are kept as what *)
(* the checks read of them: the margin they lock and their floating result *)
(* (profit, swap and commission).                                          *)
(***************************************************************************)
EXTENDS Integers

CONSTANTS Requests,     \* withdrawal requests of the account
          Amount,       \* Amount[r]: what request r asks for
          InitBalance,  \* the balance at the start
          InitCredit,   \* the credit (bonus) at the start
          MaxBalance,   \* bound: the balance
          MaxDebt,      \* bound: how far below zero losses and charges take the balance
          MaxCredit,    \* bound: the credit
          MaxMargin,    \* bound: the margin the positions lock
          MaxFloating,  \* bound: the floating result, either way
          Charges       \* the commissions an open may charge (a rebate is below zero)

ASSUME AmountAssumption == Amount \in [Requests -> Nat \ {0}]
ASSUME AccountAssumption ==
  /\ MaxBalance \in Nat /\ MaxDebt \in Nat /\ MaxCredit \in Nat /\ MaxMargin \in Nat /\ MaxFloating \in Nat
  /\ InitBalance \in 0 .. MaxBalance /\ InitCredit \in 0 .. MaxCredit
  /\ Charges \subseteq Int

VARIABLES balance,   \* accounts.balance
          credit,    \* accounts.credit
          margin,    \* sum of marginUsed over the OPEN positions
          floating,  \* sum of profit + swap + commission over the OPEN positions
          reserved,  \* accounts.reservedWithdraw
          hold,      \* withdraw_reservations.status of request r, "NONE" without a row
          debits     \* how many times the payout of request r was taken from the balance

fundVars == <<balance, credit, margin, floating, reserved, hold, debits>>

HoldStates == {"NONE", "RESERVED", "RELEASED", "FINALIZED"}
Balances == -MaxDebt .. MaxBalance
Floats == -MaxFloating .. MaxFloating

FundsInit ==
  /\ balance = InitBalance /\ credit = InitCredit
  /\ margin = 0 /\ floating = 0 /\ reserved = 0
  /\ hold = [r \in Requests |-> "NONE"]
  /\ debits = [r \in Requests |-> 0]

Lesser(a, b) == IF a <= b THEN a ELSE b
NotNegative(a) == IF a >= 0 THEN a ELSE 0

\* aggregatesUnderLock, compute_aggregates.
FreeMargin == balance + credit + floating - margin

\* Credit cannot be cashed and locked margin cannot be withdrawn.
Withdrawable == Lesser(balance, FreeMargin)

-----------------------------------------------------------------------------
(* The gateway: reservations and money movements                           *)

\* What is left to reserve or to debit when `others` is held for other requests.
AvailableBeside(others) == NotNegative(Withdrawable - NotNegative(others))

\* A repeated reference changes nothing, whatever happened to the reservation since.
ReserveReply(r) ==
  IF hold[r] # "NONE" \/ Amount[r] <= AvailableBeside(reserved) THEN "ok" ELSE "refused"

ReserveWithdrawal(r) ==
  /\ IF hold[r] = "NONE" /\ ReserveReply(r) = "ok"
     THEN /\ hold' = [hold EXCEPT ![r] = "RESERVED"]
          /\ reserved' = reserved + Amount[r]
     ELSE UNCHANGED <<hold, reserved>>
  /\ UNCHANGED <<balance, credit, margin, floating, debits>>

\* The state the caller is told: RELEASED too when it was released by this very call.
ReleaseReply(r) == IF hold[r] = "RESERVED" THEN "RELEASED" ELSE hold[r]

\* Mutant: a repeated release gives the amount back again.
ReleaseWithdrawalTwice(r) ==
  /\ IF hold[r] \in {"RESERVED", "RELEASED"}
     THEN /\ hold' = [hold EXCEPT ![r] = "RELEASED"]
          /\ reserved' = reserved - Amount[r]
     ELSE UNCHANGED <<hold, reserved>>
  /\ UNCHANGED <<balance, credit, margin, floating, debits>>

\* Mutant: the row is marked but the total on the account is left as it was.
ReleaseWithdrawalRowOnly(r) ==
  /\ hold' = IF hold[r] = "RESERVED" THEN [hold EXCEPT ![r] = "RELEASED"] ELSE hold
  /\ UNCHANGED <<balance, credit, margin, floating, reserved, debits>>

ReleaseWithdrawal(r) ==
  /\ IF hold[r] = "RESERVED"
     THEN /\ hold' = [hold EXCEPT ![r] = "RELEASED"]
          /\ reserved' = NotNegative(reserved - Amount[r])
     ELSE UNCHANGED <<hold, reserved>>
  /\ UNCHANGED <<balance, credit, margin, floating, debits>>

\* Mutant: the reservation is not looked at, the payout comes from the free funds.
PayoutPaysIgnoringState(r) ==
  debits[r] = 0 /\ Amount[r] <= AvailableBeside(reserved)

\* adjust(WITHDRAWAL) with a reservationRef, beyond the externalRef already booked: a released
\* reservation is refused; a reserved one is not counted against itself; a request without one,
\* made before reservations existed, is paid from the free funds.
PayoutPays(r) ==
  LET own == IF hold[r] = "RESERVED" THEN Amount[r] ELSE 0
  IN  debits[r] = 0 /\ hold[r] # "RELEASED" /\ Amount[r] <= AvailableBeside(reserved - own)

PayoutReply(r) == IF debits[r] > 0 \/ PayoutPays(r) THEN "ok" ELSE "refused"

Payout(r) ==
  /\ IF PayoutPays(r)
     THEN /\ balance' = balance - Amount[r]
          /\ debits' = [debits EXCEPT ![r] = @ + 1]
          /\ IF hold[r] = "RESERVED"
             THEN /\ hold' = [hold EXCEPT ![r] = "FINALIZED"]
                  /\ reserved' = NotNegative(reserved - Amount[r])
             ELSE UNCHANGED <<hold, reserved>>
     ELSE UNCHANGED <<balance, reserved, hold, debits>>
  /\ UNCHANGED <<credit, margin, floating>>

\* Mutant: the debit looks at the free margin and the holds, not at the cash.
OtherDebitOfMargin(a) ==
  /\ a <= FreeMargin - reserved
  /\ balance' = balance - a /\ balance' \in Balances
  /\ UNCHANGED <<credit, margin, floating, reserved, hold, debits>>

\* adjust(WITHDRAWAL) without a reservationRef: a transfer or a debit by an administrator.
OtherDebit(a) ==
  /\ a <= AvailableBeside(reserved)
  /\ balance' = balance - a
  /\ UNCHANGED <<credit, margin, floating, reserved, hold, debits>>

\* adjust(DEPOSIT) and the other types that add to the balance.
Deposit(a) ==
  /\ balance' = balance + a /\ balance' \in Balances
  /\ UNCHANGED <<credit, margin, floating, reserved, hold, debits>>

\* adjust(BONUS), adjust(CREDIT).
Bonus(a) ==
  /\ credit' = credit + a /\ credit' <= MaxCredit
  /\ UNCHANGED <<balance, margin, floating, reserved, hold, debits>>

-----------------------------------------------------------------------------
(* The matching engine                                                     *)

\* Mutant: the holds are forgotten in the funds check of an open.
OpenFundsUnreserved(m, charge) == FreeMargin >= m + NotNegative(charge)

\* free_margin_for_new_trades and open_funds_required.
OpenFunds(m, charge) == FreeMargin - NotNegative(reserved) >= m + NotNegative(charge)

\* market_commit: the position locks margin m and its commission is taken from the balance.  The
\* floating result is written as the quotes have it: with the new position valued at the opposite
\* quote, which the check has not counted, and the others where they are by now.
OpenPosition(m, charge) ==
  /\ OpenFunds(m, charge)
  /\ margin' = margin + m /\ margin' <= MaxMargin
  /\ balance' = balance - charge /\ balance' \in Balances
  /\ floating' \in Floats
  /\ UNCHANGED <<credit, reserved, hold, debits>>

\* flush_profits writes the results of the open positions as prices move.
PricesMove ==
  /\ margin > 0
  /\ floating' \in Floats \ {floating}
  /\ UNCHANGED <<balance, credit, margin, reserved, hold, debits>>

\* close_exclusive, for a position or a part of it: margin is freed and the result at the close
\* price moves the balance.  A stop-out does not take the balance below zero.
ClosePosition(freed, result, stopOut) ==
  /\ freed \in 1 .. margin
  /\ margin' = margin - freed
  /\ floating' \in IF margin' = 0 THEN {0} ELSE Floats
  /\ balance' = IF stopOut /\ balance + result < 0 THEN 0 ELSE balance + result
  /\ balance' \in Balances
  /\ UNCHANGED <<credit, reserved, hold, debits>>

Market ==
  \/ \E m \in 1 .. MaxMargin, charge \in Charges : OpenPosition(m, charge)
  \/ PricesMove
  \/ \E freed \in 1 .. MaxMargin, result \in Floats, stopOut \in BOOLEAN :
       ClosePosition(freed, result, stopOut)

Money ==
  \/ \E a \in 1 .. MaxBalance : OtherDebit(a) \/ Deposit(a)
  \/ \E a \in 1 .. MaxCredit : Bonus(a)

FundsTypeOK ==
  /\ balance \in Balances /\ credit \in 0 .. MaxCredit
  /\ margin \in 0 .. MaxMargin /\ floating \in Floats
  /\ reserved \in Nat
  /\ hold \in [Requests -> HoldStates]
  /\ debits \in [Requests -> Nat]
=============================================================================
