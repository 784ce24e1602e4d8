----------------------------- MODULE Transfers ------------------------------
(***************************************************************************)
(* Internal transfers of one user of the CRM, between trading accounts,    *)
(* the wallet and the commissions earned as an introducing broker.         *)
(*                                                                         *)
(* A handler locks the row of the transfer and of the user, moves the      *)
(* money at both ends and commits the record.  The wallet and the records  *)
(* are the CRM's and roll back with its transaction; a trading account is  *)
(* moved by a call to the gateway, which no rollback takes back: it is     *)
(* reversed by a call of its own.  The gateway carries out a call once for *)
(* its reference and answers a repeated one without moving money.          *)
(*                                                                         *)
(* The balances of trading accounts are left out: the gateway refuses a    *)
(* debit or not (what it looks at is in AccountFunds).                     *)
(***************************************************************************)
EXTENDS Integers, FiniteSets, FiniteSetsExt

CONSTANTS
  TransferIds, Handlers, NoTransfer,
  Trading,              \* the user's trading accounts
  Wallet, IbWallet,
  From, To, Amount,     \* of a transfer
  Deposited,            \* in the wallet at the start
  Withdrawing,          \* of it, asked for by withdrawals that are pending
  IbCredit,             \* commissions credited, less those withdrawn
  MaxAsked, MaxFaults, MaxCrashes, MaxSwitches  \* bounds: transfers asked for; calls and
                        \* commits that fail; crashes; accounts switched on or off

ASSUME TransfersAssumption ==
  /\ IsFiniteSet(TransferIds)
  /\ From \in [TransferIds -> Trading \cup {Wallet, IbWallet}]
  /\ To \in [TransferIds -> Trading \cup {Wallet}]
  /\ \A t \in TransferIds : From[t] # To[t]
  /\ Amount \in [TransferIds -> Nat \ {0}]
  /\ NoTransfer \notin TransferIds
  /\ Wallet # IbWallet /\ Wallet \notin Trading /\ IbWallet \notin Trading
  /\ Deposited \in Nat /\ Withdrawing \in Nat /\ IbCredit \in Nat
  /\ MaxAsked \in Nat /\ MaxFaults \in Nat /\ MaxCrashes \in Nat /\ MaxSwitches \in Nat

VARIABLES
  status,    \* InternalTransfer.status; ASKED: its reference is taken and it has no row
  wallet,    \* User.wallet_balance
  booked,    \* transfers with rows in BalanceLedger
  active,    \* trading accounts whose status is ACTIVE
  refs,      \* balance_adjustments.externalRef: the calls the gateway has carried out
  late,      \* calls whose caller gave up and that may still be served
  handler,   \* the requests being handled
  awaiting,  \* _awaiting_record: moves whose record is not saved yet
  faults, crashes, switches,
  odd        \* history: the transfers that went astray

crm     == <<status, wallet, booked>>
gateway == <<refs, late>>
spent   == <<faults, crashes, switches>>
vars == <<crm, active, gateway, handler, awaiting, spent, odd>>

Idle == [at |-> "idle", t |-> NoTransfer, accts |-> {}, undo |-> {}]

\* The moves that a transfer makes at the gateway, and the reversal of each.
Reverse(k) == IF k = "out" THEN "out back" ELSE "in back"
Moves(t) == (IF From[t] \in Trading THEN {"out"} ELSE {})
              \cup (IF To[t] \in Trading THEN {"in"} ELSE {})
Calls == {"out", "in", "out back", "in back"}

Fault == faults < MaxFaults /\ faults' = faults + 1

Init ==
  /\ status = [t \in TransferIds |-> "NONE"]
  /\ wallet = Deposited /\ booked = {}
  /\ active \in SUBSET Trading
  /\ refs = [t \in TransferIds |-> {}] /\ late = {}
  /\ handler = [h \in Handlers |-> Idle]
  /\ awaiting = [t \in TransferIds |-> {}]
  /\ faults = 0 /\ crashes = 0 /\ switches = 0
  /\ odd = {}

-----------------------------------------------------------------------------
(* The rows and their locks                                                *)

HasRows(h) == handler[h].at \in {"debit", "credit", "save", "reverse"}

\* Mutant: the user's row is not locked.
UserFreeAlways == TRUE

UserFree == \A h \in Handlers : ~HasRows(h)
RowFree(t) == \A h \in Handlers : ~(HasRows(h) /\ handler[h].t = t)

Becomes(h, at, accts, undo) ==
  handler' = [handler EXCEPT ![h] =
                [at |-> at, t |-> handler[h].t, accts |-> accts, undo |-> undo]]
Goto(h, at) == Becomes(h, at, handler[h].accts, handler[h].undo)
Begins(h, at, t) ==
  handler' = [handler EXCEPT ![h] = [at |-> at, t |-> t, accts |-> {}, undo |-> {}]]
Done(h) == handler' = [handler EXCEPT ![h] = Idle]

Pending(from) == {t \in TransferIds : From[t] = from /\ status[t] = "PENDING"}
Total(ts) == MapThenSumSet(LAMBDA t : Amount[t], ts)

\* An administrator switches an account on or off; an account that is ACTIVE is locked by a
\* transfer under way.
SwitchAccount(a) ==
  /\ switches < MaxSwitches /\ switches' = switches + 1
  /\ \/ a \notin active /\ active' = active \cup {a}
     \/ /\ a \in active /\ \A h \in Handlers : a \notin handler[h].accts
        /\ active' = active \ {a}
  /\ UNCHANGED <<crm, gateway, handler, awaiting, faults, crashes, odd>>

-----------------------------------------------------------------------------
(* The requests                                                            *)

Asked(t) ==
  /\ status[t] = "NONE"
  /\ Cardinality({u \in TransferIds : status[u] # "NONE"}) < MaxAsked

\* With approval by hand: a PENDING row.  A reference is good for one request.
Submit(t) ==
  /\ Asked(t) /\ UserFree
  /\ status' = [status EXCEPT ![t] = "PENDING"]
  /\ UNCHANGED <<wallet, booked, active, gateway, handler, awaiting, spent, odd>>

\* Without: the handler takes the reference, and moves the money before there is a row.
Instant(h, t) ==
  /\ Asked(t) /\ handler[h] = Idle
  /\ status' = [status EXCEPT ![t] = "ASKED"]
  /\ Begins(h, "instant", t)
  /\ UNCHANGED <<wallet, booked, active, gateway, awaiting, spent, odd>>

\* transfers_admin reads the row without a lock.
Decide(h, t) ==
  /\ status[t] = "PENDING" /\ handler[h] = Idle
  /\ Begins(h, "approve", t) \/ Begins(h, "reject", t)
  /\ UNCHANGED <<crm, active, gateway, awaiting, spent, odd>>

\* The UPDATE waits for the row and overwrites whatever it says.
Reject(h) ==
  LET t == handler[h].t IN
  /\ handler[h].at = "reject" /\ RowFree(t)
  /\ status' = [status EXCEPT ![t] = "REJECTED"]
  /\ odd' = IF status[t] = "APPROVED" THEN odd \cup {t} ELSE odd
  /\ Done(h)
  /\ UNCHANGED <<wallet, booked, active, gateway, awaiting, spent>>

\* The rows are locked, and with them the accounts that are ACTIVE now; an approval looks at
\* the status again.
Lock(h) ==
  /\ handler[h].at \in {"approve", "instant"} /\ UserFree
  /\ IF handler[h].at = "approve" /\ status[handler[h].t] # "PENDING" THEN Done(h)
     ELSE Becomes(h, "debit", active, {})
  /\ UNCHANGED <<crm, active, gateway, awaiting, spent, odd>>

-----------------------------------------------------------------------------
(* The calls to the gateway                                                *)

\* The gateway has the reference already: it answers "duplicate" and moves nothing.
Serve(t, k) ==
  /\ refs' = [refs EXCEPT ![t] = @ \cup {k}]
  /\ odd' = IF k \in refs[t] THEN odd \cup {t} ELSE odd
  /\ UNCHANGED <<late, faults>>

\* The caller has an error instead of an answer; the call may be served later, or never.
TimeOut(t, k) ==
  /\ Fault /\ late' = late \cup {<<t, k>>}
  /\ UNCHANGED <<refs, odd>>

\* A debit that the account's funds do not cover.
Refuse(t, k) ==
  /\ k \in {"out", "in back"} /\ k \notin refs[t]
  /\ UNCHANGED <<gateway, faults, odd>>

ServeLate(t, k) ==
  /\ <<t, k>> \in late
  /\ late' = late \ {<<t, k>>}
  /\ refs' = [refs EXCEPT ![t] = @ \cup {k}]
  /\ odd' = IF k \in refs[t] THEN odd ELSE odd \cup {t}
  /\ UNCHANGED <<crm, active, handler, awaiting, spent>>

-----------------------------------------------------------------------------
(* apply_internal_transfer_balances                                        *)

\* Mutant: the balance as it was at the start.
WalletCoveredOnce(t) == Deposited - Withdrawing - Total(Pending(Wallet)) >= Amount[t]

\* Mutant: what others have asked for is not held.
WalletCoversAlone(t) == wallet - Withdrawing >= Amount[t]

\* What withdrawals and PENDING transfers, this one too, have asked for is held.
WalletCovers(t) == wallet - Withdrawing - Total(Pending(Wallet)) >= Amount[t]

\* Commissions are spent by APPROVED rows; nothing is written here.
IbSpent == Total({t \in TransferIds : From[t] = IbWallet /\ status[t] = "APPROVED"})
IbCovers(t) == IbCredit - IbSpent >= Amount[t]

\* Something was refused or failed: put back what was moved, then roll back.
GivesUp(h) == Goto(h, "reverse")

DebitInCrm(h) ==
  LET t == handler[h].t IN
  /\ handler[h].at = "debit"
  /\ \/ From[t] = Wallet /\ IF WalletCovers(t) THEN Goto(h, "credit") ELSE GivesUp(h)
     \/ From[t] = IbWallet /\ IF IbCovers(t) THEN Goto(h, "credit") ELSE GivesUp(h)
     \/ From[t] \in Trading \ handler[h].accts /\ GivesUp(h)
  /\ UNCHANGED <<crm, active, gateway, awaiting, spent, odd>>

DebitAccount(h) ==
  LET t == handler[h].t IN
  /\ handler[h].at = "debit" /\ From[t] \in handler[h].accts
  /\ \/ /\ Serve(t, "out")
        /\ Becomes(h, "credit", handler[h].accts, {"out"})
     \/ (TimeOut(t, "out") \/ Refuse(t, "out")) /\ GivesUp(h)
  /\ UNCHANGED <<crm, active, awaiting, crashes, switches>>

\* The moves are kept until the record is saved.
Applied(h, moves) ==
  /\ Becomes(h, "save", handler[h].accts, {})
  /\ awaiting' = IF moves = {} THEN awaiting
                 ELSE [awaiting EXCEPT ![handler[h].t] = moves]

CreditInCrm(h) ==
  LET t == handler[h].t IN
  /\ handler[h].at = "credit"
  /\ \/ To[t] = Wallet /\ Applied(h, handler[h].undo)
     \/ To[t] \in Trading \ handler[h].accts /\ GivesUp(h) /\ UNCHANGED awaiting
  /\ UNCHANGED <<crm, active, gateway, spent, odd>>

CreditAccount(h) ==
  LET t == handler[h].t IN
  /\ handler[h].at = "credit" /\ To[t] \in handler[h].accts
  /\ \/ Serve(t, "in") /\ Applied(h, handler[h].undo \cup {"in"})
     \/ TimeOut(t, "in") /\ GivesUp(h) /\ UNCHANGED awaiting
  /\ UNCHANGED <<crm, active, crashes, switches>>

\* A refusal or an error of the CRM's own after the debit.
CreditBreaks(h) ==
  /\ handler[h].at = "credit" /\ Fault /\ GivesUp(h)
  /\ UNCHANGED <<crm, active, gateway, awaiting, crashes, switches, odd>>

\* _undo_external_moves: the newest first; an error is logged and the next one tried.
Newest(undo) == IF "in" \in undo THEN "in" ELSE "out"


\* It cannot be put back: the funds are gone, or the call fails.
PutBackFails(t, k) ==
  /\ odd' = odd \cup {t} /\ UNCHANGED refs
  /\ \/ k = "in back" /\ k \notin refs[t] /\ UNCHANGED <<late, faults>>
     \/ Fault /\ late' = late \cup {<<t, k>>}

PutsBack(h, left) ==
  LET t == handler[h].t
      k == Reverse(Newest(handler[h].undo))
  IN
  /\ handler[h].at \in {"reverse", "reverse late"} /\ handler[h].undo # {}
  /\ Becomes(h, handler[h].at, handler[h].accts, left)
  /\ Serve(t, k) \/ PutBackFails(t, k)
  /\ UNCHANGED <<crm, active, awaiting, crashes, switches>>

\* Mutant: only the newest move is put back.
PutBackOne(h) == PutsBack(h, {})

PutBack(h) == PutsBack(h, handler[h].undo \ {Newest(handler[h].undo)})

\* Everything was tried: the transaction is rolled back, if it is still open.
PutBackEnds(h) ==
  /\ handler[h].at \in {"reverse", "reverse late"} /\ handler[h].undo = {} /\ Done(h)
  /\ UNCHANGED <<crm, active, gateway, awaiting, spent, odd>>

-----------------------------------------------------------------------------
(* The commit of the record                                                *)

Record(t) ==
  /\ status' = [status EXCEPT ![t] = "APPROVED"]
  /\ wallet' = wallet + (IF To[t] = Wallet THEN Amount[t] ELSE 0)
                      - (IF From[t] = Wallet THEN Amount[t] ELSE 0)
  /\ booked' = IF Wallet \in {From[t], To[t]} THEN booked \cup {t} ELSE booked

Save(h) ==
  /\ handler[h].at = "save" /\ Record(handler[h].t) /\ Becomes(h, "settle", {}, {})
  /\ UNCHANGED <<active, gateway, awaiting, spent, odd>>

SaveFails(h) ==
  /\ handler[h].at = "save" /\ Fault /\ Becomes(h, "failed", {}, {})
  /\ UNCHANGED <<crm, active, gateway, awaiting, crashes, switches, odd>>

\* The commit was carried out and its answer lost.
SaveUnheard(h) ==
  /\ handler[h].at = "save" /\ Fault /\ Record(handler[h].t) /\ Becomes(h, "failed", {}, {})
  /\ odd' = odd \cup {handler[h].t}
  /\ UNCHANGED <<active, gateway, awaiting, crashes, switches>>

\* settle_internal_transfer_moves
Settle(h) ==
  /\ handler[h].at = "settle" /\ Done(h)
  /\ awaiting' = [awaiting EXCEPT ![handler[h].t] = {}]
  /\ UNCHANGED <<crm, active, gateway, spent, odd>>

\* undo_internal_transfer_moves, after the locks are gone
TakeMoves(h) ==
  LET t == handler[h].t IN
  /\ handler[h].at = "failed"
  /\ Becomes(h, "reverse late", {}, awaiting[t])
  /\ awaiting' = [awaiting EXCEPT ![t] = {}]
  /\ UNCHANGED <<crm, active, gateway, spent, odd>>

\* What a handler has moved and not accounted for yet.
Owes(h) ==
  IF handler[h].at \in {"save", "failed"} THEN awaiting[handler[h].t] ELSE handler[h].undo

\* The handler's process has the entry for t, if there is one.
Keeps(h, t) == handler[h].t = t /\ handler[h].at \in {"save", "failed", "settle"}

\* A process of the CRM stops: its transactions roll back, its memory is gone.  A call it had
\* made was served before, or timed out before.
Crash ==
  /\ crashes < MaxCrashes /\ crashes' = crashes + 1
  /\ \E dead \in SUBSET Handlers :
       /\ handler' = [h \in Handlers |-> IF h \in dead THEN Idle ELSE handler[h]]
       /\ awaiting' = [t \in TransferIds |->
                         IF \E h \in dead : Keeps(h, t) THEN {} ELSE awaiting[t]]
       /\ odd' = odd \cup {t \in TransferIds : \E h \in dead :
                             handler[h].t = t /\ Owes(h) # {}}
  /\ UNCHANGED <<crm, active, gateway, faults, switches>>

-----------------------------------------------------------------------------

ApplyStep(h) ==
  DebitInCrm(h) \/ DebitAccount(h) \/ CreditInCrm(h) \/ CreditAccount(h) \/ CreditBreaks(h)
UndoStep(h) == TakeMoves(h) \/ PutBack(h) \/ PutBackEnds(h)
SaveStep(h) == Save(h) \/ SaveFails(h) \/ SaveUnheard(h) \/ Settle(h)

Next ==
  \/ \E t \in TransferIds : Submit(t) \/ \E h \in Handlers : Instant(h, t) \/ Decide(h, t)
  \/ \E h \in Handlers : Reject(h) \/ Lock(h) \/ ApplyStep(h) \/ UndoStep(h) \/ SaveStep(h)
  \/ \E t \in TransferIds, k \in Calls : ServeLate(t, k)
  \/ \E a \in Trading : SwitchAccount(a)
  \/ Crash

Spec == Init /\ [][Next]_vars

-----------------------------------------------------------------------------
(* Properties                                                              *)

Ats == {"idle", "instant", "approve", "reject", "debit", "credit", "save", "reverse",
        "reverse late", "settle", "failed"}

Records == [at : Ats, t : TransferIds \cup {NoTransfer}, accts : SUBSET Trading,
            undo : SUBSET {"out", "in"}]

HandlerType ==
  /\ handler \in [Handlers -> Records]
  /\ \A h \in Handlers : handler[h].at = "idle" <=> handler[h].t = NoTransfer

RecordsType ==
  /\ status \in [TransferIds -> {"NONE", "ASKED", "PENDING", "APPROVED", "REJECTED"}]
  /\ booked \subseteq TransferIds /\ active \subseteq Trading
  /\ refs \in [TransferIds -> SUBSET Calls] /\ late \subseteq TransferIds \X Calls
  /\ HandlerType
  /\ awaiting \in [TransferIds -> SUBSET {"out", "in"}]
  /\ faults \in 0..MaxFaults /\ crashes \in 0..MaxCrashes /\ switches \in 0..MaxSwitches
  /\ odd \subseteq TransferIds

\* Every variable keeps its type; the wallet is never overdrawn.
TypeOK == RecordsType /\ wallet \in Nat

\* What the gateway has moved and not moved back.
Live(t) == {k \in {"out", "in"} : k \in refs[t] /\ Reverse(k) \notin refs[t]}

\* What of a transfer has moved; nothing, as long as a handler is about to put it back or to
\* save its record.
MovedOf(t) ==
  IF (\E h \in Handlers : handler[h].t = t /\ Owes(h) # {}) \/ (Live(t) = {} /\ t \notin booked)
    THEN "nothing"
  ELSE IF Live(t) = Moves(t) /\ (Wallet \in {From[t], To[t]} => t \in booked)
    THEN "whole"
  ELSE "half"

Promise ==
  INSTANCE TransferPromise WITH Transfers <- TransferIds, status <- status,
    moved <- [t \in TransferIds |-> MovedOf(t)], astray <- odd

\* The handlers, with their calls, reversals, lost commits, crashes and the accounts that are
\* switched on and off under them, implement the promise: a transfer moves as a whole in the step
\* that approves it, or not at all.
KeepsPromise == Promise!Spec

\* Commissions are not transferred twice: transfers that run at the same time, of which neither
\* has an APPROVED row yet, do not both count on the same balance.
IbNotOverspent ==
  Total({t \in TransferIds \ odd : From[t] = IbWallet /\ MovedOf(t) = "whole"}) <= IbCredit

PendingTotal == Total(Pending(Wallet))

\* Whatever is transferred out of the wallet leaves what pending withdrawals and the transfers
\* that stay PENDING have asked for.
PendingStaysCovered == [][wallet' < wallet => wallet' >= Withdrawing + PendingTotal']_vars

\* What the comment of apply_internal_transfer_balances says: the money is put back, "so nothing
\* is half done".  When the transfer is approved again, the gateway knows its references.
NothingHalfDone == \A t \in TransferIds : MovedOf(t) # "half"
=============================================================================
