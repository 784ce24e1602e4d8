# Verification of the B-Trader trading core and the money paths of its CRM

TLA+ models, TLC runs and TLAPS proofs for the repository beside this directory: a
multi-tenant trading platform (`src/btrader`) and the CRM of a broker that runs on it
(`src/Burjex-Prime-Crm-main`). Paths below are relative to `src/`; `core/` stands for
`btrader/apps/trading-core-rs/src/`, `gw/` for `btrader/apps/gateway-api/src/modules/`,
`worker/` for `btrader/apps/trading-engine/src/`, `crm/` for `Burjex-Prime-Crm-main/`.

## 1. The system

| part | state it keeps | what it does | with whom |
|---|---|---|---|
| matching engine, `core/` (Rust, tokio) | the books in memory (positions, pending orders, claims, in-flight fills), an account queue in memory; tables `orders`, `positions`, `deals`, `accounts` | opens, closes, modifies; places, edits, cancels, triggers and fills pending orders; SL/TP, stop-out | HTTP from the gateway; ticks from Redis; row locks on `accounts` shared with the gateway |
| gateway, `gw/` (NestJS) | `accounts.balance/credit/reservedWithdraw`, `withdraw_reservations`, `financial_transactions` | deposits, debits, bonuses, reservations; accounts; the CRM's and the bridge's API | HTTP from the CRM, the apps, the bridge |
| worker, `worker/` (Node) | `crm_sync_outbox`, `hedge_orders`, swap deals | drains the outbox to the CRM, charges swaps overnight, hedges the broker's net exposure | timers; database; HTTP to the CRM |
| MT5 bridge, `btrader/bridges/` | covers it is executing, in memory | polls covers, executes them on MT5, reports, from a loop that it starts with each session; feeds prices | HTTP to the gateway |
| CRM, `crm/` (Django) | `Transaction`, wallets, transfers, IB commissions | withdrawal requests and their approval, transfers, Match2Pay deposits, commissions | HTTP to the gateway; webhooks in |
| market-data, ws-gateway, clients | caches | candles, streams, screens | Redis |

What is hard in it: nothing holds a lock over a pending order from the look at its status to
the fill; four kinds of actor touch it, and a restart rebuilds the book from the table. The
money of an account moves in two programs that meet only in `SELECT ... FOR UPDATE`. The CRM
holds its own transaction open across an HTTP call whose answer can be lost, late, or never
have reached anyone; it treats every exception alike, and what it retries may have been done.
The worker's timers do not wait for the previous run. The bridge executes real trades and
reports them over a connection that fails, and does not wait for the loop of a session that is
over when it starts the next one.

What makes each part correct:

* pending orders: one position per order; a cancelled or expired order is not filled; an order
  is not forgotten over a restart; the book triggers what the table says; a triggered order
  does not hang;
* funds: what is reserved for a withdrawal is not traded away, not withdrawn by another and not
  counted twice; the total is the sum of its rows;
* withdrawals: funds held before the request exists; paid at most once; rejected means not paid;
* closing and stop-out: a position is closed once and for its own volume; a level fires where it
  stands; an account below its level is closed out; the book shows what the table has;
* swaps: one charge per position and day, and all of it reaches the deals;
* hedging: a cover is executed once, and a threshold crossed once is hedged once;
* transfers: the money moves as a whole with the approval, or not at all, and is not spent twice;
* outbox: a close is heard of and its commission paid, once; the CRM ends up with the account as
  it is.

`PROJECT.json` lists every component with its status and every hazard with its line.

## 2. The modules

### PendingOrders: a resting order in the engine

One action per statement that the handlers, the tick loop and the fill task execute between two
awaits (`core/engine_trade.rs`, `core/engine_tick.rs`).

| state | code |
|---|---|
| `row` | the order's row in `orders`: status, stopTriggered (`armed`), terms, positionId (`linked`) |
| `book` | `PendingBook` (`core/books.rs`), `inflight` its `pending_inflight` set |
| `opened`, `filledWith` | positions committed for an order, and on what terms |
| `task` | the tokio tasks of `start_pending_fill`, with the statement of `fill_pending` they are at |
| `tick` | the copy of the book that `trigger_pending` walks, and where it is |
| `place`, `editor`, `dropping` | the handlers `place_pending`, `modify_order`, `cancel_order` between two statements |
| `faults` | how many crashes, ignored errors (`let _ =`) and errors passed up (`?`) have happened |
| `orphans`, `raced` | history: commits whose FILLED row was never written; edits that crossed another handler |
| `unsaid` | history: per order, what a statement wrote in its row and the book was not told |

Terms (price, volume, stops) are one value. Whether a quote fires an order is a choice among the
answers that `pending_fires` can give for it; sessions, slippage and delays are waiting, and a
task may stand still between any two of its steps. `Crash` empties memory; `Hydrate` rebuilds
the book from the rows it selects, or serves on with an empty book when it fails, as `main`
does. The book and in-flight updates that no await separates are one step with the statement
they follow or precede.

A statement that ends in `.await?` can be carried out and its answer lost, and axum drops the handler
of a client that goes away at the await it has come to: the row is written and what follows is not done.
`PlaceUnheard`, `CancelUnheard`, `EditUnheard` and `TickUnheard` are these ends of the INSERT of an
order, of its UPDATE to CANCELLED, of new terms, of the armed flag and of PARTIAL; an IOC or FOK order
whose kill fails stays PENDING in the same way.

`raced`, `orphans` and `unsaid` let the properties name their exact exceptions, which all happen: without
them the properties fail. `BookHasTheTerms` holds except when two handlers were writing the same
book row, or the last edit was not heard; `FilledAsOrdered` except when an edit was written after
the order had triggered; `ArmingAgrees` except when the arming was not heard. An order whose handler ended
before the book had it is watched by nobody, and one whose PARTIAL was not heard is PENDING in the book:
`NoOrderForgotten` and the liveness properties say what is kept beside these two. A restart mends all
of them, since hydrate reads the rows, and a later edit that is heard mends the terms.

### AccountFunds: the row of an account

`FinancialService` (`gw/financial/financial.service.ts`) and the engine's `market_commit` and
`close_exclusive` each lock the row of the account, read, decide and write before they commit,
so each is one action. Positions are kept as what the checks read of them: the margin they lock
and their floating result. Amounts are whole units. The stored aggregates that are refreshed
without the lock, the deal rows and the snapshots are left out: no check reads them.
`FinancialService.adjust` also compares the requested amount with the reserved one; `Amount` is
a constant per request here, so that comparison never fails.

### Withdrawals: from the request to the payout

EXTENDS AccountFunds and adds the CRM: `_create_trading_withdraw` with `_release_quietly`
(`crm/api/services/treasury_service.py`), `approve` and `reject`
(`crm/transactions/trading_withdraw.py`) and the command that reserves for older requests.

| state | code |
|---|---|
| `tx` | `Transaction.status`; NONE before it is asked for, GONE asked for and not saved |
| `does`, `reply` | the handler that has the row of the request, and what its HTTP call returned |
| `late` | calls whose caller timed out and that the gateway may serve at any later time |
| `listed`, `sweeps` | the list the command has read, and its runs |

A handler keeps `select_for_update` on its row, so one handler at a time has a request; a
creation and an approval also hold the trading account's row and exclude each other. A call is
served in time (`Serve`), its answer is lost or it never arrives (`LoseReply`), or its caller
gives up and it is served later, or never (`TimeOut`, `ServeLate`). A crash of the CRM rolls its
open transactions back; a call it had made counts as served before, or as timed out before. The
command works through its list in any order. `Legacy` are the requests made before reservations
existed.

### WithdrawalPromise: what the caller is promised

Six steps over the request, its hold and its payouts: Hold, Release, Submit, Pay, Approve,
Reject, with Abandon for attempts that end without a request. The refinement mapping is the
identity on `tx`, `hold` and `debits`. For legacy requests, which have no hold, only what can
be said without one is promised: they can be rejected after a payout whose answer was lost. That is a
named exception in `Reject` and in `Pay`.

### Hedging: the broker's own covers

One symbol and one enabled rule. The worker's sweep (`worker/auto-hedge.ts`) is four steps, one
for each query; `manualHedge` and `closeHedge` (`gw/book/book.controller.ts`) write rows of the
same table; the bridge (`hedge_loop`, `dealer_send` and `dealer_close` in `mt5_bridge.py`) reads
two lists through `pendingHedges`, works through them and reports to `fillHedge`, `rejectHedge`
and `closedHedge` (`gw/bridge/bridge.controller.ts`), which write by id whatever the row says.
`run` starts a `hedge_loop` with each session with MT5 and waits for no earlier one, so that several
loops work through lists of their own.

| state | code |
|---|---|
| `net` | the open client volume that is not covered one by one, signed |
| `status`, `lots` | `hedge_orders.status`; its side and volume as one signed number |
| `sent`, `shut` | what MT5 did: how often it opened and closed the position of a cover |
| `sweep` | the runs of `autoHedgeSymbol`, with what they have read |
| `desk` | `closeHedge` requests that have found their row FILLED and not written yet |
| `session`, `bridge` | the session of the bridge; of each session, the lists of a pass of its `hedge_loop`, the cover it is at and what it will report |
| `late` | reports the bridge took for failed and that may still be written |
| `again` | history: how often a cover was there to be sent once more: left by a loop with its row still PENDING, or listed while another loop had it before it |

A report can be written and its answer lost, never be written, or be written at any later time.
A fill that fails to be reported is then reported as a reject, because the call stands inside the
`try` whose `except` posts the reject; a reject that fails ends the pass; a close that fails is
logged and tried again. `SendUnconfirmed` is a cover that MT5 executes while `dealer_send`
raises. A crash of the bridge forgets its lists. `Reconnect` ends a session and starts the next one;
the loop of the old one looks at `stop` after its pass only (`LoopStops`, `Between`), and what it
sends meanwhile is refused or, when the call was under way, executed (`Raises`, `Send`). The desk's
covers have any volume (`DeskVolumes`), the sweep's at most that of the rule's greatest clip. MT5 itself is no part of the repository: it
executes or refuses, and closes only a position that is there.

Left out: covers of client positions (CLIENT_COVER), which the sweep does not count, with their
partial closes; several symbols and providers, which share nothing; rules switched on and off;
lots that are not whole steps.

### Closing: open positions

Everything that ends or changes an open position (`core/engine_trade.rs`, `core/engine_tick.rs`) and
the overnight swap that the worker charges (`worker/swap-accrual.ts`); one action per statement
between two awaits.

| state | code |
|---|---|
| `row` | the position's row: volume (OPEN while not zero), covered volume, swap, claim kind, level |
| `closed`, `realised`, `accrued`, `marks` | what its CLOSE, PARTIAL_CLOSE and SWAP deals add up to |
| `engine`, `book`, `claims`, `delayed` | the process, `PositionBook`, `MemoryClaims` and the deadlines of the claims |
| `call` | one `close_position` or `close_all` of each caller: a request, the task of a claim, the two loops |
| `tick`, `stopper`, `under` | the copy that `check_protective` walks, the account `enforce_stop_out` is at, the accounts below their level |
| `placing`, `editor`, `coverer` | `cover_open`, `modify_position` and `cover_more` between two statements |
| `run`, `today` | the runs of `applySwaps` with the list they read, and the day |
| `lost`, `stale`, `crossed`, `mixed` | history: the named exceptions |

A close waits for the mutex of its account (`with_account`), does its work in one transaction under the
locks of the rows (`Commit`) and tells the book in a step of its own (`Tell`). A request whose client goes
away is dropped where it waits (`HangsUp`). A statement may be carried out and its answer lost, or its
handler dropped before it hears of it: the commit of a close (`CommitUnheard`), the claim of the tick
loop (`TickUnheard`) and the level of an edit (`EditUnheard`). The editors, `cover_more` and the worker know no mutex. Volumes
are lot steps, and the SL and TP of a position are one level; whether a quote is beyond it is
chosen freely.

The properties name their exceptions, and each of them happens: a commit whose answer was lost
or a hydrate that failed (`BookFollowsRow`); a `cover_more` that writes on an old read
(`CoveredWithinVolume`); an edit made while the pass walks its copy or being written, and a level of the
book that is not the table's, because two edits of the position overlapped: `modify_position` writes the row
and then the book without a lock, and the book keeps the overwritten level until the next edit or
restart; or because the last edit was written and its handler did not get as far as the book
(`FiresOnItsLevel`, `mixed`); a
partial close, which drops the claim's record in memory and leaves its kind in the book, and a restart,
after which a claim has its kind and not its level (`ClosesAsClaimed`).

### Transfers and TransferPromise: internal transfers of the CRM

Submission and instant processing (`crm/api/views/internal_transfer.py`), approval and
rejection (`transfers_admin` in `crm/admin_panel/views.py`) and the moves with their reversal
(`crm/transactions/internal_transfer_execution.py`), between trading accounts, the wallet
and the commissions of a broker.

| state | code |
|---|---|
| `status`, `wallet`, `booked` | `InternalTransfer.status` (ASKED: a reference is taken and there is no row), the user's wallet, the rows of its ledger |
| `active` | the trading accounts that are ACTIVE |
| `refs`, `late` | the references the gateway has carried out, and calls that it may still serve |
| `handler` | the requests being handled, with the accounts they locked and the moves to undo |
| `awaiting` | `_awaiting_record`: moves of a process whose record is not saved yet |
| `odd` | history: the transfers of which nothing is promised any more |

What the CRM writes rolls back with its transaction; what the gateway did is put back by a call of its
own, the newest first. `TransferPromise` says that the money moves as a whole, in the step that
approves the transfer, or not at all; the refinement mapping counts what has moved and what a
handler is about to put back as nothing. A transfer goes astray (`odd`) when a call is served after its caller
gave up, a reversal is refused or fails, the CRM stops or does not hear of its commit while money
is moved and unaccounted for, a reversed transfer is approved again with the references of its
first attempt, or a rejection, which takes no lock, overwrites an approval. A manual approval of a
transfer out of the wallet counts the transfer's own PENDING row as well, so it needs twice the amount; the
model does as the code does.

Left out: MT5 accounts, whose calls carry no references; the limits; the balances of trading
accounts (the gateway refuses or not; why is in AccountFunds).

### Outbox: what the CRM hears

Events are inserted into `crm_sync_outbox` after the commit of the move they tell of, by the engine
(`publish_after_fill_with`, `crm_outbox`) and by the gateway (`FinancialService.adjust`); the worker's
`drainCrmOutbox` posts them; `btrader_webhook` (`crm/btrader_integration/`) persists the account and pays
the commission of a close (`crm/ib/btrader_rebates.py`).

| state | code |
|---|---|
| `done` | the committed moves: opens, closes, fills of pending orders, adjustments |
| `teller` | between a commit and its last event: the next event, and the account as it is told |
| `row`, `outbox` | the rows, and the order they were created in |
| `drain` | the drains that run, each with its copy of the rows, and the step the CRM's handler is at |
| `copy` | the CRM's copy of an account; an account is the set of its moves |
| `processed`, `paid` | `ProcessedBTraderDeal`, and payouts per deal |
| `missed` | history: moves whose event was not inserted, given up, skipped, or whose payout failed unheard |

A drain starts every two seconds whether the last one has ended or not. The post and its
handling are one thread of control, since the drain waits for the answer: a post whose answer is lost is `Fails` at
"ok", after everything was done. The periodic sync (`Sync`) reads and
writes in one step; the pause between the two is in `Fetch` and `Persist`, which are the same functions
called from the webhook. `docs/01` says that the outbox "guarantees at-least-once" and that an
outage of the CRM loses no data; `missed` names the four ways in which the code does not: an INSERT that fails or is never reached,
FAILED after ten attempts, an event type that is switched off (marked SENT), and a payout whose error
`btrader_webhook` swallows. `docs/03` and `docs/11` let the receiver tell repeated events by their id; the
CRM does not look at it, and the unique deal id is what keeps a commission from being paid twice.

### MC modules

`MCPendingOrders`, `MCClosing` and `MCTransfers` define the symmetry of tasks, edits and terms, of the
worker's runs and of the editors, and of the handlers (no liveness property is checked with it); `MCWithdrawals`,
`MCClosing`, `MCTransfers` and `MCOutbox` give the functions that a cfg cannot write: amounts,
owners, routes, kinds. Hedging needs none.

## 3. The runs

| run | question | size |
|---|---|---|
| `pending_safety` | all safety properties of one order: two fill tasks, two concurrent edits, a cancel, the tick loop, and two of: a crash, an ignored error, an error passed up or an answer lost, in every interleaving | 2.00 M states |
| `pending_live` | does a triggered or due order end, across two crashes and two errors or lost answers | 0.07 M states |
| `pending_refill` | "one fill per order", violated | |
| `withdraw_safety` | a new and a legacy request on one account that trades; lost answers, a late call, crashes, the command | 0.79 M states |
| `hedge_safety` | covers and MT5 agree, and the exposure ends covered: one sweep, covers and two closes by the desk, two sessions of the bridge, an execution refused, a report not heard or a crash | 0.38 M states |
| `hedge_overlap` | "it only fires when no broker hedge is already in flight", violated | |
| `closing_safety` | one position: a request, its level, the stop-out, two edits, `cover_more`, two swap runs over two days, a crash, one error: any statement refused, or carried out and not heard, or a client gone | 1.96 M states |
| `closing_live` | does a claimed position end closed, and an account below its level, over a crash and an error | 0.09 M states |
| `closing_stop_out` | "stop-out levels are enforced on every tick", violated | |
| `transfer` | two of six routes at a time: does a transfer move whole or not at all, over a failure, a crash and an account switched | 1.13 M states |
| `transfer_again` | "nothing is half done", violated | |
| `outbox` | a close and a deposit, two drains, two troubles of any kind: is the commission paid once, and at last; does the copy catch up | 0.49 M states |

**Bounds.** Orders do not share state except the walk of the tick loop, so one order is enough
for the interleavings of its own actors; two tasks are what a duplicate fill needs (a task left
over while another starts), two editors what two crossed edits need, two terms what a mixed-up
edit needs. One crash is enough to lose any one step and to find what hydrate makes of it; the
liveness run allows two. One ignored error and one of `Transient` are enough for each statement to fail
once or be carried out unheard; `MaxFaults` lets two of the three kinds meet. The number
of positions is not bounded by hand: it follows from these. For withdrawals, two requests let one
hold compete with another and with a legacy payout; amounts 2 and 1 against a balance of 3 make
both fit, or one, or neither; one unit of margin, floating result and commission moves
the free margin across each of those limits; one timed-out call lets any call be served at any
later moment, and the command's single run overlaps every handler. For hedging, an exposure of 0
or 2 with threshold 1 and clips of 1 to 2 asks for a cover and for taking it back; four rows let a
sweep cover, the desk add and close, and the sweep answer; the desk adds a volume of 3, above the greatest
clip; two requests of the desk can close the same cover twice, two sessions are two loops that
overlap, and one report that is not heard puts the row and MT5 apart in each of the ways
there are. `MaxEvents` lets three of these happen in one behaviour, in any order. For closing, one position is what all writers meet at; two lots make a close partial or
whole, one covered lot makes the cover follow or stay, two days and two runs overlap on the same
day and on different ones, two editors let an edit be overwritten in the table and kept in the
book (one editor hides that), and two operations with one crash and one error put any two writers
against each other with a failure in between. Stop-out by rank needs two accounts and `PerTick` 1
for the code's 4. For transfers, the six routes are all kinds there are, asked for two at a time;
the amounts let the wallet serve one and not both, and one failed call, one crash and one switch
of an account break any step of either. For the outbox, a close (engine, two events) and a deposit
(gateway, one event) give three rows in any order; two drains of two rows overlap, two attempts
are one retry and then FAILED, and two troubles let one failure follow another. The theorems of
section 4 have none of these bounds except the ranges of the account's amounts, which are parameters.

`CHECK_DEADLOCK FALSE` is set where the system rests when all orders or requests have ended and
the bounds are used up; the outbox never rests, its timers go on.

**Fairness** (`FairSpec`) is used by `pending_live`, `closing_live`, `closing_stop_out`, `hedge_safety`
and `outbox`. In PendingOrders it is weak
fairness on what the tokio runtime keeps running: handlers that have begun, fill tasks, the tick loop (the feed schedules
it for every dirty symbol, and quotes keep coming), and on the restart of the process by its
supervisor. Nothing is assumed of customers, of crashes or of errors, which are bounded; no
choice of `pending_fires` is forced, so an order that never fires may rest for ever, and only
triggered and due ones that the book knows as such must end. The errors being bounded, nothing is said of an
order behind one whose statement fails in every pass. In Hedging it is weak fairness on the sweeps, which
`setInterval` keeps starting, on each loop of the bridge (`while not stop.is_set()`), and on a
`closeHedge` that has begun; refusals, lost reports, new sessions and crashes are bounded and never
fair, and a report written late is not forced. `Converges` holds under a premise, `Undisturbed`: each
row says what MT5 has of its cover, or a loop is about to report on it, and the rows that bound the
model are not used up. Covers in flight, refusals, reports that are made again, sessions that end and
restarts are all within it. Not within it is what leaves a row wrong: a cover that was executed and
whose report was not heard reads REJECTED, and is never counted; one that two loops sent is counted
once; and one that two requests of the desk close is closed once, its row, CLOSE_PENDING again, stays
in flight for ever and stops the sweep. In Closing it is weak fairness on calls and tasks that have
begun, on time (deadlines of claims), on the two loops, which go round while quotes come, and on
the restart; clients, errors and crashes are not fair, and edits, covers and swaps need not be. A
hydrate that failed (`blind`) is excepted, since nothing repeats it. In Outbox it is weak fairness on what tells
the events, on the drains (a timer starts them, an HTTP call ends), on the backoffs, and
on the CRM's periodic sync; moves, troubles and crashes are not.

**What the runs show.** The passing properties are the comments in the modules. Four statements of
the repository are not kept, and a run shows each:

1. *One fill per order* (`core/engine_tick.rs:229`). The position is committed before the FILLED
   row is written and that UPDATE's error is dropped; a crash in between and the next hydrate
   fill the order again. `OneFillPerRecordedOrder` says that this is the only way.
2. *It only fires when no broker hedge is already in flight* (`btrader/infra/DEPLOY-NET-HEDGE.md:51`).
   The count and the new cover are statements of their own and sweeps overlap: both hedge.
3. *Stop-out levels are enforced by the engine on every tick* (`btrader/docs/09-security.md:28`).
   `check_stop_out` takes the first four accounts of the book before it asks which of them were looked at
   just now: an account behind them waits for ever. `StopOutEnforced` holds for the first ones.
4. *Nothing is half done* (`crm/transactions/internal_transfer_execution.py:361`). A transfer whose
   credit was refused is reversed and stays PENDING; approved again, its debit is answered as a
   duplicate and its credit is made.

Others are stated as passing properties that name the exception: a cancelled order may be filled
by a task past its second look at the status (`SettledForGood`); a commission is taken from cash
that a reservation holds, though never from its free margin, and the value a new position has at
the opposite quote (`btrader/apps/trading-core-rs/src/engine.rs:736`) is in no check of the open, so
the free margin may end below the holds by that much (`OpenKeepsHolds`); a cover that was executed
and whose report was not heard is not counted as hedged, nor is one whose fill the loop of a session
that is over overwrites with its reject, although every report was heard (`NoUnbookedPosition`); a cover
that two loops of the bridge have is executed by both (`SentOncePerOffer`); the
hold of a request that the CRM stopped in the middle of remains without a request and, against
`btrader/infra/DEPLOY-WITHDRAW-RESERVE.md:56`, without a log line (`KeepsPromise` lets a hold stay, never a
payout); an event of the outbox may be missed in four ways (`EveryClosePays`).

## 4. The proofs

Checked by tlapm with SMT, Zenon and LS4, for every value of the constants, from the named
assumptions of the modules (bounds are naturals, `Legacy \subseteq Requests`, amounts are
positive integers, charges are integers, the initial balance and credit are in range; the requests and
the transfers are finite sets, since they are rows of a table and the models add them up).

`SumProofs` is about sums over finite sets (`MapThenSumSet`), which three of the modules below need:
the recursive function behind the sum exists, the sum does not depend on the order of the terms, one
element more or less adds or takes its own term, and the sum of a part of naturals is not above that of the whole. There is no induction with a property as
a parameter; each statement about every finite set is proved by contradiction, from a smallest set for which
it fails.

`PendingOrdersProofs`:

* `TypeCorrect`: `Spec => []TypeOK`. TypeOK is not inductive: a task that is at a statement has an
  order, a paused tick has one, and so has an editor that is writing; `TypeInv` adds these.
* `OneFill`: `Spec => []OneFillPerRecordedOrder`. The invariant is `NewInv` (an order whose
  handler has not inserted it is unknown to every other actor, so that its ID cannot be in
  flight) and `FillInv`: a task's order is in flight, two tasks never have the same order, an
  order linked to a position is in an ended state, a task past its first look has an order
  without a recorded position, and the positions of an order are those recorded, lost or about
  to be recorded. The counting argument rests on the in-flight set being left only at the end of
  a task, after the FILLED row.
* `EndedStaysEnded`, `SettledStaysSettled`: `NeverReopened` and `SettledForGood`, from the same
  invariant and the guards on the statuses the statements name.

`PendingBookProofs` relates the book to the table, on top of `Inv`. Its first half says once, for
each piece of the state, which steps can change it and how (`RowChanges`, `BookChanges`, `TickChanges`,
`TaskChanges` and so on); the parts of `BookInv` are then preserved by the few steps that matter:

* `ArmingIsKept`: `ArmingAgrees`. An order that its handler has not put in the book, or never will, is in
  no tick's copy, so that nothing arms it before the handler writes an unarmed row (`NotYet`), and a process that
  is down has nothing in memory that hydrate could leave behind (`Down`).
* `BookTermsAreTheRows`: `BookHasTheTerms`. Unless edits of the order have crossed, an editor between its two
  writes holds the terms of the row and is the only one there, and a handler that is about to put
  its order in the book holds them too (`TermsInv`). An edit that is not heard meets neither of them, or has
  crossed it.
* `FillsOnItsTerms`: `FilledAsOrdered`. Whoever calls an order triggered is right (`TriggerInv`), hence an
  edit written from then on is seen as a crossing; the terms go from the row to the task, from
  the task to the position and stay those of the row (`FilledInv`).
* `NothingIsForgotten`: `NoOrderForgotten`. Whoever is about to take an order out of the book has ended it,
  unless the failure of a statement was ignored (`DropInv`); an order no book was told of is in no
  tick's copy and no task's hands (`NotYet`), and what is unsaid stays so until the book is told
  (`UnsaidChanges`).

`WithdrawalsProofs`:

* `TypeCorrect`: with `late <= timeouts`, which makes a late call countable.
* `OpensCover`, `DebitsCover`: `OpenKeepsHolds` and `DebitKeepsHolds`, from the types alone,
  since each action reads what it needs under the lock. The first says what the check of an open
  promises: margin and commission leave the holds covered; what the floating result moves with the
  open comes on top and is unchecked.
* `RequestsKeptRight`: `Spec => []Inv`, where for each request `RequestInv` says: a handler has
  the row it started with; nobody releases or pays a request before it is saved, except its
  undo (this is where a late release must be excluded); late payouts belong to saved requests;
  a saved request was held; a payout, the FINALIZED state and the payment count agree; an ended
  request ended rightly; and an answer still in a handler's hands is still true of the account.
  The last part is the reason the CRM may act on an answer after arbitrary other steps.
* `HoldsAddUp`: `ReservedIsSum`. Every action that moves a hold moves the total by the same
  amount in the same step; the proof is that of sums, one changed term at a time.
* `HeldIsPaid`: `PaidWhenCovered`. With the total equal to its rows, a hold is part of it, so that
  a payout, which looks at the funds beside the other holds, is covered whenever all holds are.
* `ImplementsPromise`: `Spec => KeepsPromise`. Every step of the workflow is a step of
  `WithdrawalPromise` or leaves its variables alone, case by case from `Inv`.

`HedgingProofs`, for any number of rows, sweeps, requests of the desk, sessions of the bridge and
unheard reports:

* `TypeCorrect`: what a sweep adds up over rows that others write meanwhile is a number, and a cover
  is no larger than the greatest clip unless the desk asked for it (`Volumes`).
* `SendsCounted`, `FillsAreReal`, `PositionsAreBooked`: the three safety invariants of Hedging, from
  one inductive invariant. `LoopOK` and `Known` say that a loop is at one cover of its list at a time
  and that whoever holds an id read it from a row; `Alone` that two loops have a cover only when that
  was counted; `Counted` that the times a cover was sent, the loops that are still to send it
  (`Waiting`) and the next poll that may list it (`ToCome`) stay together within the bound, which is
  what makes the bound on `sent` inductive when loops overlap; `Truth`, with `Known`, that every report
  made, on its way or late, has happened on MT5: handlers that overwrite any status can set a row back
  to something that was true, and never to something that was not; `Heard` that without a lost report
  and a second loop the one on its way says all there is.

`ClosingProofs`, for any number of positions, accounts, callers, editors and runs:

* `TypeCorrect`, where the covered lots that a partial close rounds stay in range.
* `ClosesForItsVolume`, `ChargesOnceADay`, `SwapReachesTheDeals`, `CoversWithinVolume`: each commit
  reads under the row's lock what it writes, so the sums of the deals and the row agree step by step; what has
  to be carried along is that a run or a `cover_more` still holds what it read.
* `BookShowsTheTable`: `BookFollowsRow`. One call at a time is inside the queue of an account,
  and it is between its commit and its word to the book or nobody is; an open row of
  an engine that knows its book is in the book.
* `TriggersOnItsLevel`: `FiresOnItsLevel`. The level of a book row is that of the table, but for the named
  exceptions, when no edit of the position is between its two writes (`BookHasLevel`), and the copy that a pass walks has
  the level it found, unless the position was edited since (`CopyHasLevel`). The edit that is between its writes is the only one of
  its position and has the level of the table, or the position is `mixed`: its last edits overlapped, or the
  last one was not heard (`OneEdit`). The exception was found
  on the way: without it the invariant is not inductive, and TLC gave the behaviour with two editors.
* `ClaimsAreKept`: `ClosesAsClaimed`. A claim in the book is recorded in memory with its level, or the record was
  lost in one of the two named ways (`ClaimsRecorded`, `ClaimsKnown`); a claim that the loop
  is writing is in memory already (`ClaimBeingWritten`); a close on a claim has waited for its deadline, or sleeps until
  it, and knows its level (`CallsAsClaimed`).

`TransfersProofs`, for any number of transfers, handlers and accounts:

* `KeptRight`: `Spec => []Inv`. `Rows` says that one handler has the user's rows, knows the status it
  found and is alone with its transfer; `Straight` that of a transfer that has not gone astray the
  gateway has moved what the record says, or what exactly one handler owes (`undo` or
  `awaiting`).
* `ImplementsPromise`: `Spec => KeepsPromise`, action by action from `Inv`: every action is a step
  of `TransferPromise`, leaves its variables alone, or sends its transfer astray.
* `TypeCorrect`, and `IbKept`: `IbNotOverspent`. What a handler has seen to be covered when it debited the wallet
  or the commissions stays so until it saves (`Covered`, on top of `Inv`), because it holds the user's rows and
  no other handler of the user gets that far.
* `PendingKept`: `PendingStaysCovered`, from the same invariant: the save takes what the check left beside
  pending withdrawals and transfers.

`OutboxProofs`, for any number of moves, drains, attempts and troubles:

* `DealPaidOnce`, `SentRowIsPaid`: a drain that is about to credit was told by the rules that the
  close earns, and one that was answered 204 for such a close has it paid or missed. That the
  check of `credit_btrader_close` may be outrun by another drain is why the first half needs the
  unique mark, and why the invariant says nothing of what a drain saw.
* `TypeCorrect`: a row that will be read again has an attempt left, though each drain counts from the copy it
  read, and a drain that runs has a row in hand. The list a drain reads is defined by positions (the
  n-th due row is the one with n due rows up to it) and not by a recursive selection, which
  the provers cannot expand; that there is such a row is `NthMember`.

With these every safety property that a passing run checks, invariant or action property, is a theorem, and so are
both refinements. Only model-checked: the liveness properties (fairness and ENABLED are beyond these
provers), which are `TriggeredOrderEnds`, `DueOrderEnds`, `TriggerCloses`, `StopOutEnforced`, `Converges`, `EveryClosePays` and
`CopyCatchesUp`.

## 5. Not modelled

* Prices, sessions, routing, risk guards and execution policies are floating-point functions whose
  answers the models choose freely.
* `market_commit` is in AccountFunds as its effect on the account; `clientOrderId`, the rate limit and
  the timeout of the account's queue are not. A fill of a pending order takes the same transaction
  without the queue; PendingOrders has its steps, AccountFunds its funds.
* The lease of the instance lock (`core/feed.rs`): PendingOrders and Closing have one engine at a time, which may
  stop and be started again.
* The unlocked refresh of the stored aggregates; the deal rows beyond what Closing adds up.
* Covers of client positions as rows of `hedge_orders` (their lots on the position are in Closing).
* Match2Pay deposits; wallet withdrawals, OTP and limits; MT5 accounts of the CRM; the portals, PAMM,
  copier, marketing and live chat, which are forms over single rows.
* Market data, streaming, clients and deployment scripts decide nothing about money. The compiled
  portals (`web/`) are generated.
* A hydrate that fails is in the models as a database fault, and `NoOrderForgotten` speaks only of
  runs without one. The IOC/FOK order whose kill fails and which hydrate revives is modelled
  (`PlaceUnheard`) but has no property yet.

## 6. The plan

Done: PendingOrders, AccountFunds, Withdrawals with its promise, Hedging, Closing (with the swaps),
Transfers with its promise, Outbox, each with its proofs. Left, in this order:

1. **MarketOpen** (`core/engine.rs`): `clientOrderId`, the queue's timeout and `enforce_risk`, composed
   with PendingOrders' fill, which passes by all three.
2. **Match2Pay** (`crm/transactions/services/match2pay_webhook_processor.py`): repeated and concurrent
   webhooks against the row lock and the external reference.
3. **Lease** (`core/main.rs`): two instances around the expiry of the lock.
4. Candle batching; pure operators against reference definitions: lot snapping, splitting
   charges over partial closes.

Runs stay small enough for a laptop: one actor of each kind plus one more of the kind that
races with itself, one crash, one lost call.
