------------------------------ MODULE Closing -------------------------------
(***************************************************************************)
(* Open positions and everything that ends or changes them: requests to    *)
(* close, the protective levels the tick loop watches, the stop-out loop,  *)
(* edits of the level, lots covered by the desk, and the overnight swap    *)
(* that a process of its own (the worker) charges.                         *)
(*                                                                         *)
(* close_position queues for the account's mutex; close_exclusive then     *)
(* does its work in one transaction that locks the account's and the       *)
(* position's row, and after the commit, in a step of its own, drops the   *)
(* memory claim and updates the book.  The other writers know no mutex.    *)
(*                                                                         *)
(* Volumes are counted in lot steps.  A level stands for the SL and TP of  *)
(* a position; whether a quote is beyond it, and whether an account is     *)
(* below its stop-out level, is chosen freely.  Profit is left out: what   *)
(* a close does to the funds is in AccountFunds.                           *)
(***************************************************************************)
EXTENDS Integers, FiniteSets

CONSTANTS
  Positions, Accounts,
  Owner,          \* the account of a position
  Rank,           \* the place of an account in the order the book is walked in
  Lots,           \* lot steps a position is opened with
  Levels,         \* prices a level can be set to
  Requests,       \* close requests that can run at the same time
  Editors, Coverers, Runs, \* the same for modify_position, cover_more, applySwaps
  TickLoop, StopLoop,      \* the fast and the slow loop of the feed
  NoPosition,
  PerTick,        \* accounts check_stop_out looks at per tick; 4 in the code
  Covered,        \* lots of a position counted as covered at its open
  LastDay, MaxOps, MaxCrashes, MaxFaults  \* bounds: days; requests, edits, covers, runs of
                  \* the worker and market moves together; crashes; errors of any statement

Callers == Requests \cup Positions \cup {TickLoop, StopLoop}

ASSUME ClosingAssumption ==
  /\ Owner \in [Positions -> Accounts]
  /\ Rank \in [Accounts -> Nat]
  /\ Lots \in Nat \ {0} /\ Levels \subseteq Nat \ {0} /\ PerTick \in Nat
  /\ Covered \in 0..Lots /\ LastDay \in Nat \ {0}
  /\ MaxOps \in Nat /\ MaxCrashes \in Nat /\ MaxFaults \in Nat
  /\ NoPosition \notin Positions /\ TickLoop # StopLoop
  /\ {TickLoop, StopLoop} \cap (Requests \cup Positions) = {}
  /\ Requests \cap Positions = {}

VARIABLES
  row,      \* the positions table; a row is OPEN while its volume is not zero
  closed,   \* lots on the CLOSE and PARTIAL_CLOSE deals of a position
  realised, \* swap on those deals
  accrued,  \* swap on its SWAP deals
  marks,    \* number of its SWAP deals, per day
  engine,   \* "up", "down", or "blind": up after a hydrate that failed
  book,     \* PositionBook; volume 0: the position is not in it
  claims,   \* MemoryClaims
  delayed,  \* positions whose claim has its deadline ahead
  call,     \* per caller, its close_position (or close_all)
  tick,     \* the pass of check_protective over its copy of the book
  stopper,  \* the account that enforce_stop_out is at
  under,    \* accounts below their stop-out level
  placing,  \* lots a cover_open that is under way was asked to cover
  editor, coverer, run, \* the handlers and runs between two statements
  today, ops, crashes, faults,
  lost,     \* history: how the memory record of a position's claim was lost
  stale,    \* history: positions edited since the pass took its copy
  crossed,  \* history: positions whose covered lots were written on an old read
  mixed     \* history: positions whose last edits overlapped, or the last was not heard

ledger  == <<row, closed, realised, accrued, marks>>
memory  == <<book, claims, delayed>>
loops   == <<tick, stopper>>
desk    == <<editor, coverer, placing>>
worker  == <<run, today>>
spent   == <<ops, crashes, faults>>
history == <<lost, stale, crossed, mixed>>
vars == <<ledger, engine, memory, call, loops, under, desk, worker, spent, history>>

NotInBook == [volume |-> 0, claim |-> FALSE, level |-> 0]
NoClaim   == [on |-> FALSE, level |-> 0]
Idle == [at |-> "idle", list |-> {}, pos |-> NoPosition, want |-> 0, left |-> 0,
         claim |-> FALSE, level |-> 0]
IdleTick    == [at |-> "idle", rows |-> [p \in {} |-> NotInBook], pos |-> NoPosition]
IdleStopper == [acct |-> {}, skip |-> {}]
IdleEditor  == [at |-> "idle", pos |-> NoPosition, level |-> 0]
IdleCoverer == [at |-> "idle", pos |-> NoPosition, volume |-> 0, covered |-> 0, lots |-> 0]
IdleRun     == [at |-> "idle", day |-> 0, todo |-> {}]

Open(p) == row[p].volume > 0
Watched(p) == book[p].volume > 0
Up == engine \in {"up", "blind"}
Held(a) == {p \in Positions : Owner[p] = a /\ Open(p)}

Fault == faults < MaxFaults /\ faults' = faults + 1
Asked == ops < MaxOps /\ ops' = ops + 1

Init ==
  /\ placing = [p \in Positions |-> Covered]
  /\ \E level \in Levels :
       /\ row = [p \in Positions |-> [volume |-> Lots, covered |-> Covered, swap |-> 0,
                                      claim |-> FALSE, level |-> level]]
       /\ book = [p \in Positions |-> [volume |-> Lots, claim |-> FALSE, level |-> level]]
  /\ closed = [p \in Positions |-> 0] /\ realised = [p \in Positions |-> 0]
  /\ accrued = [p \in Positions |-> 0]
  /\ marks = [p \in Positions |-> [d \in 1..LastDay |-> 0]]
  /\ engine = "up"
  /\ claims = [p \in Positions |-> NoClaim] /\ delayed = {}
  /\ call = [x \in Callers |-> Idle]
  /\ tick = IdleTick /\ stopper = IdleStopper /\ under \in SUBSET Accounts
  /\ editor = [e \in Editors |-> IdleEditor]
  /\ coverer = [c \in Coverers |-> IdleCoverer]
  /\ run = [r \in Runs |-> IdleRun]
  /\ today = 1 /\ ops = 0 /\ crashes = 0 /\ faults = 0
  /\ lost = [p \in Positions |-> {}] /\ stale = {} /\ crossed = {} /\ mixed = {}

-----------------------------------------------------------------------------
(* close_position and close_all                                            *)

ClosePosition(x) ==
  /\ Up /\ Asked /\ call[x] = Idle
  /\ \E p \in Positions, v \in 1..Lots :
       /\ Open(p)
       /\ call' = [call EXCEPT ![x] = [Idle EXCEPT !.at = "queued", !.list = {p}, !.want = v]]
  /\ UNCHANGED <<ledger, engine, memory, loops, under, desk, worker, crashes, faults, history>>

\* The positions whose symbol may be traded now; the others are skipped.
CloseAll(x) ==
  /\ Up /\ Asked /\ call[x] = Idle
  /\ \E a \in Accounts, list \in SUBSET Positions :
       /\ list # {} /\ list \subseteq Held(a)
       /\ call' = [call EXCEPT ![x] = [Idle EXCEPT !.at = "queued", !.list = list]]
  /\ UNCHANGED <<ledger, engine, memory, loops, under, desk, worker, crashes, faults, history>>

\* A close of the whole position on a claim, or by the stop-out loop.
Claimed(p, level) == [Idle EXCEPT !.at = "queued", !.list = {p}, !.claim = TRUE, !.level = level]
StopOut(p) == [Idle EXCEPT !.at = "queued", !.list = {p}]

Inside(x) == call[x].at \in {"in", "tell"}
Busy(a) == \E x \in Callers : Inside(x) /\ \E p \in call[x].list : Owner[p] = a

\* with_account: the mutex of the account is free.
Enter(x) ==
  /\ call[x].at = "queued"
  /\ \A p \in call[x].list : ~Busy(Owner[p])
  /\ call' = [call EXCEPT ![x].at = "in"]
  /\ UNCHANGED <<ledger, engine, memory, loops, under, desk, worker, spent, history>>

\* Position p of the call is done with: go on with the next, or leave the mutex.
Past(x, p) ==
  call' = [call EXCEPT ![x] =
             IF call[x].list = {p} THEN Idle
             ELSE [call[x] EXCEPT !.at = "in", !.list = call[x].list \ {p},
                                  !.pos = NoPosition, !.left = 0]]

\* The stop-out loop goes round a position whose close failed.
Skips(x, ps) ==
  stopper' = IF x = StopLoop THEN [stopper EXCEPT !.skip = @ \cup ps] ELSE stopper

\* The queue was too long (RATE_LIMITED).
GivesUp(x) ==
  /\ call[x].at = "queued" /\ Fault
  /\ call' = [call EXCEPT ![x] = Idle]
  /\ Skips(x, call[x].list)
  /\ UNCHANGED <<ledger, engine, memory, tick, under, desk, worker, ops, crashes, history>>

\* The client goes away, and its handler is dropped where it waits: for the mutex, or for
\* the database with the transaction not committed.
HangsUp(x) ==
  /\ call[x].at \in {"queued", "in"} /\ Fault
  /\ call' = [call EXCEPT ![x] = Idle]
  /\ UNCHANGED <<ledger, engine, memory, loops, under, desk, worker, ops, crashes, history>>

\* No row to close; or no price, a closed session, an error of the database.
CloseFails(x, p) ==
  /\ call[x].at = "in" /\ p \in call[x].list
  /\ IF Open(p) THEN Fault ELSE UNCHANGED faults
  /\ Past(x, p) /\ Skips(x, {p})
  /\ UNCHANGED <<ledger, engine, memory, tick, under, desk, worker, ops, crashes, history>>

\* round_lots to whole steps, and the part of the covered lots that a close takes along.
RoundLots(n, d) == (2 * n + d) \div (2 * d)

\* Mutant: what a partial close takes along is rounded down.
CoverToCloseRoundedDown(p, vol) == (row[p].covered * vol) \div (row[p].volume + 1)

CoverToClose(p, vol) ==
  LET share == RoundLots(row[p].covered * vol, row[p].volume)
  IN  IF share < row[p].covered THEN share ELSE row[p].covered

\* split_position_charges
RealisedSwap(p, vol) ==
  IF vol >= row[p].volume THEN row[p].swap ELSE (row[p].swap * vol) \div row[p].volume

\* Mutant: the lots asked for, whatever is left of the position.
CloseVolumeAsked(x, p) == IF call[x].want = 0 THEN Lots ELSE call[x].want

\* What is closed of a position: the lots asked for, 0 for all of it, and never more
\* than the locked row has.
CloseVolume(x, p) ==
  IF call[x].want = 0 \/ call[x].want > row[p].volume THEN row[p].volume ELSE call[x].want

\* Mutant: a partial close leaves the swap on the position.
AfterCloseKeepsSwap(p, vol) ==
  IF vol >= row[p].volume
    THEN [row[p] EXCEPT !.volume = 0, !.covered = 0]
    ELSE [row[p] EXCEPT !.volume = row[p].volume - vol,
                        !.covered = row[p].covered - CoverToClose(p, vol)]

AfterClose(p, vol) ==
  IF vol >= row[p].volume
    THEN [row[p] EXCEPT !.volume = 0, !.covered = 0]
    ELSE [row[p] EXCEPT !.volume = row[p].volume - vol,
                        !.covered = row[p].covered - CoverToClose(p, vol),
                        !.swap = row[p].swap - RealisedSwap(p, vol)]

\* The transaction of close_exclusive.
CloseTx(p, vol) ==
  /\ row' = [row EXCEPT ![p] = AfterClose(p, vol)]
  /\ closed' = [closed EXCEPT ![p] = @ + vol]
  /\ realised' = [realised EXCEPT ![p] = @ + RealisedSwap(p, vol)]
  /\ UNCHANGED <<accrued, marks>>

Commit(x, p) ==
  /\ call[x].at = "in" /\ p \in call[x].list /\ Open(p)
  /\ CloseTx(p, CloseVolume(x, p))
  /\ call' = [call EXCEPT ![x].at = "tell", ![x].pos = p,
                          ![x].left = row[p].volume - CloseVolume(x, p)]
  /\ UNCHANGED <<engine, memory, loops, under, desk, worker, spent, history>>

\* The commit was carried out and its answer lost: for the engine the close has failed.
CommitUnheard(x, p) ==
  /\ call[x].at = "in" /\ p \in call[x].list /\ Open(p) /\ Fault
  /\ CloseTx(p, CloseVolume(x, p))
  /\ Past(x, p) /\ Skips(x, {p})
  /\ lost' = [lost EXCEPT ![p] = @ \cup {"unheard"}]
  /\ UNCHANGED <<engine, memory, tick, under, desk, worker, ops, crashes, stale, crossed,
                 mixed>>

\* Mutant: a position that has closed stays in the book.
TellKeepsRow(x) ==
  LET p == call[x].pos IN
  /\ call[x].at = "tell"
  /\ claims' = [claims EXCEPT ![p] = NoClaim]
  /\ book' = IF Watched(p) /\ call[x].left > 0
             THEN [book EXCEPT ![p].volume = call[x].left] ELSE book
  /\ lost' = IF claims[p].on /\ call[x].left > 0
             THEN [lost EXCEPT ![p] = @ \cup {"partial"}] ELSE lost
  /\ Past(x, p)
  /\ UNCHANGED <<ledger, engine, delayed, loops, under, desk, worker, spent, stale, crossed,
                 mixed>>

\* After the commit: drop the memory claim, and update or remove the book's row.
Tell(x) ==
  LET p == call[x].pos IN
  /\ call[x].at = "tell"
  /\ claims' = [claims EXCEPT ![p] = NoClaim]
  /\ book' = IF Watched(p) THEN [book EXCEPT ![p] =
               IF call[x].left = 0 THEN NotInBook ELSE [@ EXCEPT !.volume = call[x].left]]
             ELSE book
  /\ lost' = IF claims[p].on /\ call[x].left > 0
             THEN [lost EXCEPT ![p] = @ \cup {"partial"}] ELSE lost
  /\ Past(x, p)
  /\ UNCHANGED <<ledger, engine, delayed, loops, under, desk, worker, spent, stale, crossed,
                 mixed>>

-----------------------------------------------------------------------------
(* check_protective: one pass over a copy of the book, in any order         *)

Walking == tick.at = "walk" /\ call[TickLoop] = Idle
Rest(p) == [tick EXCEPT !.at = "walk", !.pos = NoPosition,
                        !.rows = [q \in DOMAIN tick.rows \ {p} |-> tick.rows[q]]]

TickStart ==
  /\ Up /\ tick.at = "idle" /\ \E p \in Positions : Watched(p)
  /\ tick' = [IdleTick EXCEPT !.at = "walk",
                !.rows = [p \in {q \in Positions : Watched(q)} |-> book[p]]]
  /\ stale' = {}
  /\ UNCHANGED <<ledger, engine, memory, call, stopper, under, desk, worker, spent, lost,
                 crossed, mixed>>

IsClaimed(p) == tick.rows[p].claim \/ claims[p].on

\* Mutant: a claim's deadline is not looked at.
MustWaitNever(p) == FALSE

MustWait(p) == claims[p].on /\ p \in delayed

\* A claimed position is closed once the deadline has passed.
TickRetry(p) ==
  /\ Walking /\ p \in DOMAIN tick.rows /\ IsClaimed(p)
  /\ tick' = Rest(p)
  /\ call' = IF MustWait(p) THEN call
             ELSE [call EXCEPT ![TickLoop] = Claimed(p, claims[p].level)]
  /\ UNCHANGED <<ledger, engine, memory, stopper, under, desk, worker, spent, history>>

\* The quote is not beyond the level of the copy, or there is none.
TickQuiet(p) ==
  /\ Walking /\ p \in DOMAIN tick.rows /\ ~IsClaimed(p)
  /\ tick' = Rest(p)
  /\ UNCHANGED <<ledger, engine, memory, call, stopper, under, desk, worker, spent, history>>

\* The level is hit: claim it in memory and in the book, with a delay or without.
TickTrigger(p) ==
  /\ Walking /\ p \in DOMAIN tick.rows /\ ~IsClaimed(p) /\ tick.rows[p].level # 0
  /\ claims' = [claims EXCEPT ![p] = [on |-> TRUE, level |-> tick.rows[p].level]]
  /\ book' = IF Watched(p) THEN [book EXCEPT ![p].claim = TRUE] ELSE book
  /\ delayed' \in {delayed \cup {p}, delayed \ {p}}
  /\ tick' = [tick EXCEPT !.at = "claim", !.pos = p]
  /\ UNCHANGED <<ledger, engine, call, stopper, under, desk, worker, spent, history>>

\* UPDATE positions SET execClaimKind WHERE OPEN AND execClaimedAt IS NULL; then close at
\* once, or leave it to a task that sleeps until the deadline.  The task of p is caller p.
TickWrite ==
  LET p == tick.pos IN
  /\ tick.at = "claim"
  /\ tick' = Rest(p)
  /\ IF Open(p) /\ ~row[p].claim
       THEN /\ row' = [row EXCEPT ![p].claim = TRUE]
            /\ call' = IF p \in delayed
                         THEN [call EXCEPT ![p] = [Claimed(p, tick.rows[p].level)
                                                     EXCEPT !.at = "asleep"]]
                         ELSE [call EXCEPT ![TickLoop] = Claimed(p, tick.rows[p].level)]
            /\ UNCHANGED claims
       ELSE /\ claims' = [claims EXCEPT ![p] = NoClaim]
            /\ UNCHANGED <<row, call>>
  /\ UNCHANGED <<closed, realised, accrued, marks, engine, book, delayed, stopper, under, desk,
                 worker, spent, history>>

\* The claim is in the table and the answer was lost: the pass is over, the record of the
\* claim stays in memory, and a later pass closes on it.
TickUnheard ==
  LET p == tick.pos IN
  /\ tick.at = "claim" /\ Fault
  /\ Open(p) /\ ~row[p].claim
  /\ row' = [row EXCEPT ![p].claim = TRUE]
  /\ tick' = IdleTick
  /\ UNCHANGED <<closed, realised, accrued, marks, engine, memory, call, stopper, under, desk,
                 worker, ops, crashes, history>>

\* An error that ends the pass: reading the group, or writing the claim.
TickAbort ==
  /\ tick.at = "claim" \/ (Walking /\ \E p \in DOMAIN tick.rows : ~IsClaimed(p))
  /\ Fault
  /\ tick' = IdleTick
  /\ UNCHANGED <<ledger, engine, memory, call, stopper, under, desk, worker, ops, crashes,
                 history>>

TickEnd ==
  /\ Walking /\ DOMAIN tick.rows = {}
  /\ tick' = IdleTick
  /\ UNCHANGED <<ledger, engine, memory, call, stopper, under, desk, worker, spent, history>>

DeadlinePasses(p) ==
  /\ p \in delayed
  /\ delayed' = delayed \ {p}
  /\ UNCHANGED <<ledger, engine, book, claims, call, loops, under, desk, worker, spent,
                 history>>

TaskWakes(p) ==
  /\ call[p].at = "asleep" /\ p \notin delayed
  /\ call' = [call EXCEPT ![p].at = "queued"]
  /\ UNCHANGED <<ledger, engine, memory, loops, under, desk, worker, spent, history>>

-----------------------------------------------------------------------------
(* check_stop_out and enforce_stop_out                                     *)

MarketMoves ==
  /\ under' \in SUBSET Accounts /\ under' # under
  /\ Asked
  /\ UNCHANGED <<ledger, engine, memory, call, loops, desk, worker, crashes, faults, history>>

InBook == {Owner[p] : p \in {q \in Positions : Watched(q)}}
FirstOf(accounts) ==
  {a \in accounts : Cardinality({b \in accounts : Rank[b] < Rank[a]}) < PerTick}

\* check_stop_out takes the first accounts of the book.  A visit that finds the level kept
\* changes nothing, and stop_out_checked only puts a visit off: neither is a step.
StopOutVisit(a) ==
  /\ Up /\ stopper = IdleStopper
  /\ a \in FirstOf(InBook) /\ a \in under /\ Held(a) # {}
  /\ stopper' = [acct |-> {a}, skip |-> {}]
  /\ UNCHANGED <<ledger, engine, memory, call, tick, under, desk, worker, spent, history>>

\* One round: the worst position that no close has failed on.
StopOutRound(a) ==
  /\ stopper.acct = {a} /\ call[StopLoop] = Idle /\ a \in under
  /\ \E worst \in Held(a) \ stopper.skip :
       call' = [call EXCEPT ![StopLoop] = StopOut(worst)]
  /\ UNCHANGED <<ledger, engine, memory, loops, under, desk, worker, spent, history>>

\* Mutant: the positions that a close failed on are remembered, and no account is visited.
StopOutEndKeepsSkip(a) ==
  /\ stopper.acct = {a} /\ call[StopLoop] = Idle
  /\ a \notin under \/ Held(a) \subseteq stopper.skip
  /\ stopper' = [stopper EXCEPT !.acct = {}]
  /\ UNCHANGED <<ledger, engine, memory, call, tick, under, desk, worker, spent, history>>

\* The level is kept again, or no position is left to try.
StopOutEnd(a) ==
  /\ stopper.acct = {a} /\ call[StopLoop] = Idle
  /\ a \notin under \/ Held(a) \subseteq stopper.skip
  /\ stopper' = IdleStopper
  /\ UNCHANGED <<ledger, engine, memory, call, tick, under, desk, worker, spent, history>>

\* The account or its positions could not be read.
StopOutAbort ==
  /\ stopper # IdleStopper /\ call[StopLoop] = Idle /\ Fault
  /\ stopper' = IdleStopper
  /\ UNCHANGED <<ledger, engine, memory, call, tick, under, desk, worker, ops, crashes,
                 history>>

-----------------------------------------------------------------------------
(* modify_position and cover_more: no mutex, no row lock                   *)

EditRead(e) ==
  /\ Up /\ Asked /\ editor[e] = IdleEditor
  /\ \E p \in Positions, l \in Levels \cup {0} :
       /\ Open(p)
       /\ editor' = [editor EXCEPT ![e] = [at |-> "write", pos |-> p, level |-> l]]
  /\ UNCHANGED <<ledger, engine, memory, call, loops, under, coverer, placing, worker, crashes,
                 faults, history>>

\* Another edit of the position is between the table and the book.
Crosses(e) ==
  \E f \in Editors \ {e} : editor[f].pos = editor[e].pos /\ editor[f].at = "book"

EditWrite(e) ==
  /\ editor[e].at = "write"
  /\ row' = [row EXCEPT ![editor[e].pos].level = editor[e].level]
  /\ editor' = [editor EXCEPT ![e].at = "book"]
  /\ mixed' = IF Crosses(e) THEN mixed \cup {editor[e].pos} ELSE mixed \ {editor[e].pos}
  /\ UNCHANGED <<closed, realised, accrued, marks, engine, memory, call, loops, under, coverer,
                 placing, worker, spent, lost, stale, crossed>>

\* The request ends at its UPDATE: carried out, with the level in the table and not in the
\* book, or not.
EditUnheard(e) ==
  LET p == editor[e].pos IN
  /\ editor[e].at = "write" /\ Fault
  /\ \/ /\ row' = [row EXCEPT ![p].level = editor[e].level]
        /\ mixed' = mixed \cup {p}
     \/ UNCHANGED <<row, mixed>>
  /\ editor' = [editor EXCEPT ![e] = IdleEditor]
  /\ UNCHANGED <<closed, realised, accrued, marks, engine, memory, call, loops, under, coverer,
                 placing, worker, ops, crashes, lost, stale, crossed>>

\* Mutant: the edit leaves the book to the next restart.
EditBookNot(e) ==
  /\ editor[e].at = "book"
  /\ editor' = [editor EXCEPT ![e] = IdleEditor]
  /\ UNCHANGED <<ledger, engine, memory, call, loops, under, coverer, placing, worker, spent,
                 history>>

EditBook(e) ==
  LET p == editor[e].pos IN
  /\ editor[e].at = "book"
  /\ book' = IF Watched(p) THEN [book EXCEPT ![p].level = editor[e].level] ELSE book
  /\ stale' = IF p \in DOMAIN tick.rows THEN stale \cup {p} ELSE stale
  /\ editor' = [editor EXCEPT ![e] = IdleEditor]
  /\ UNCHANGED <<ledger, engine, claims, delayed, call, loops, under, coverer, placing, worker,
                 spent, lost, crossed, mixed>>

\* Lots to cover, at most what is warehoused.
CoverRead(c) ==
  /\ Up /\ Asked /\ coverer[c] = IdleCoverer
  /\ \E p \in Positions, n \in 1..Lots :
       /\ Open(p) /\ n <= row[p].volume - row[p].covered
       /\ coverer' = [coverer EXCEPT ![c] =
            [at |-> "write", pos |-> p, volume |-> row[p].volume,
             covered |-> row[p].covered, lots |-> n]]
  /\ UNCHANGED <<ledger, engine, memory, call, loops, under, editor, placing, worker, crashes,
                 faults, history>>

CoverWrite(c) ==
  LET k == coverer[c]  p == k.pos IN
  /\ k.at = "write"
  /\ row' = [row EXCEPT ![p].covered = k.covered + k.lots]
  /\ crossed' = IF k.volume = row[p].volume /\ k.covered = row[p].covered
                THEN crossed ELSE crossed \cup {p}
  /\ coverer' = [coverer EXCEPT ![c] = IdleCoverer]
  /\ UNCHANGED <<closed, realised, accrued, marks, engine, memory, call, loops, under, editor,
                 placing, worker, spent, lost, stale, mixed>>

\* Mutant: all of them are taken back, whatever a close has taken along.
CoverOpenUncapped(p) ==
  /\ placing[p] > 0
  /\ \/ UNCHANGED row
     \/ row' = [row EXCEPT ![p].covered = IF ~Open(p) THEN @ ELSE @ - placing[p]]
  /\ placing' = [placing EXCEPT ![p] = 0]
  /\ UNCHANGED <<closed, realised, accrued, marks, engine, memory, call, loops, under, editor,
                 coverer, worker, spent, history>>

\* cover_open, after the open: the cover is placed, or no bridge is there to take it and the
\* lots that were counted as covered are taken back.
CoverOpen(p) ==
  /\ placing[p] > 0
  /\ \/ UNCHANGED row
     \/ row' = [row EXCEPT ![p].covered =
          IF ~Open(p) THEN @ ELSE IF @ > placing[p] THEN @ - placing[p] ELSE 0]
  /\ placing' = [placing EXCEPT ![p] = 0]
  /\ UNCHANGED <<closed, realised, accrued, marks, engine, memory, call, loops, under, editor,
                 coverer, worker, spent, history>>

-----------------------------------------------------------------------------
(* applySwaps, in the worker                                               *)

\* A timer starts a run each minute of the rollover hour, whether the last one has ended
\* or not, on the day it finds (today: the last one looked at): it reads the open positions,
SwapScan(r) ==
  /\ Asked
  /\ run[r] = IdleRun
  /\ today' \in today..LastDay
  /\ run' = [run EXCEPT ![r] = [at |-> "filter", day |-> today',
                                todo |-> {p \in Positions : Open(p)}]]
  /\ UNCHANGED <<ledger, engine, memory, call, loops, under, desk, crashes, faults, history>>

Swapped(p, day) == \E d \in day..LastDay : marks[p][d] > 0

\* then the positions that have a swap deal of this day,
SwapFilter(r) ==
  /\ run[r].at = "filter"
  /\ run' = [run EXCEPT ![r].at = "apply",
                        ![r].todo = {p \in @ : ~Swapped(p, run[r].day)}]
  /\ UNCHANGED <<ledger, engine, memory, call, loops, under, desk, today, spent, history>>

\* Mutant: the positions filtered out beforehand are trusted to be the only ones.
SwapApplyTrusting(r, p) ==
  /\ run[r].at = "apply" /\ p \in run[r].todo
  /\ run' = [run EXCEPT ![r].todo = @ \ {p}]
  /\ IF ~Open(p)
       THEN UNCHANGED ledger
       ELSE /\ row' = [row EXCEPT ![p].swap = @ + row[p].volume]
            /\ accrued' = [accrued EXCEPT ![p] = @ + row[p].volume]
            /\ marks' = [marks EXCEPT ![p][run[r].day] = @ + 1]
            /\ UNCHANGED <<closed, realised>>
  /\ UNCHANGED <<engine, memory, call, loops, under, desk, today, spent, history>>

\* and goes through the rest, one transaction with a row lock for each.
SwapApply(r, p) ==
  /\ run[r].at = "apply" /\ p \in run[r].todo
  /\ run' = [run EXCEPT ![r].todo = @ \ {p}]
  /\ IF Swapped(p, run[r].day) \/ ~Open(p)
       THEN UNCHANGED ledger
       ELSE /\ row' = [row EXCEPT ![p].swap = @ + row[p].volume]
            /\ accrued' = [accrued EXCEPT ![p] = @ + row[p].volume]
            /\ marks' = [marks EXCEPT ![p][run[r].day] = @ + 1]
            /\ UNCHANGED <<closed, realised>>
  /\ UNCHANGED <<engine, memory, call, loops, under, desk, today, spent, history>>

\* The run is over, or an error or a restart of the worker cuts it short.
SwapEnd(r) ==
  /\ run[r] # IdleRun
  /\ IF run[r].at = "apply" /\ run[r].todo = {} THEN UNCHANGED faults ELSE Fault
  /\ run' = [run EXCEPT ![r] = IdleRun]
  /\ UNCHANGED <<ledger, engine, memory, call, loops, under, desk, today, ops, crashes,
                 history>>

-----------------------------------------------------------------------------
(* The process of the engine                                               *)

Crash ==
  /\ Up /\ crashes < MaxCrashes
  /\ crashes' = crashes + 1 /\ engine' = "down"
  /\ book' = [p \in Positions |-> NotInBook] /\ claims' = [p \in Positions |-> NoClaim]
  /\ delayed' = {p \in delayed : row[p].claim}
  /\ call' = [x \in Callers |-> Idle]
  /\ tick' = IdleTick /\ stopper' = IdleStopper
  /\ editor' = [e \in Editors |-> IdleEditor]
  /\ coverer' = [c \in Coverers |-> IdleCoverer]
  /\ placing' = [p \in Positions |-> 0]
  /\ lost' = [p \in Positions |-> IF row[p].claim THEN lost[p] \cup {"restart"} ELSE lost[p]]
  /\ stale' = {} /\ mixed' = {}
  /\ UNCHANGED <<ledger, under, worker, ops, faults, crossed>>

\* Mutant: claims are not restored.
HydrateWithoutClaims ==
  /\ engine = "down"
  /\ engine' = "up"
  /\ book' = [p \in Positions |->
       IF Open(p) THEN [volume |-> row[p].volume, claim |-> FALSE, level |-> row[p].level]
       ELSE NotInBook]
  /\ UNCHANGED <<ledger, claims, delayed, call, loops, under, desk, worker, spent, history>>

\* hydrate; main serves on with an empty book when it fails.
Hydrate ==
  /\ engine = "down"
  /\ \/ /\ engine' = "up"
        /\ book' = [p \in Positions |->
             IF Open(p) THEN [volume |-> row[p].volume, claim |-> row[p].claim,
                              level |-> row[p].level]
             ELSE NotInBook]
        /\ claims' = [p \in Positions |-> [on |-> Open(p) /\ row[p].claim, level |-> 0]]
        /\ UNCHANGED faults
     \/ /\ engine' = "blind" /\ Fault
        /\ UNCHANGED <<book, claims>>
  /\ UNCHANGED <<ledger, delayed, call, loops, under, desk, worker, ops, crashes, history>>

-----------------------------------------------------------------------------

CallProceeds(x) ==
  Enter(x) \/ Tell(x) \/ \E p \in Positions : CloseFails(x, p) \/ Commit(x, p)
CallStep(x) == CallProceeds(x) \/ GivesUp(x) \/ \E p \in Positions : CommitUnheard(x, p)

TickProceeds ==
  \/ TickStart \/ TickWrite \/ TickEnd
  \/ \E p \in Positions : TickRetry(p) \/ TickQuiet(p) \/ TickTrigger(p)
TickStep == TickProceeds \/ TickAbort \/ TickUnheard

StopOutStep ==
  \/ StopOutAbort
  \/ \E a \in Accounts : StopOutVisit(a) \/ StopOutRound(a) \/ StopOutEnd(a)

SwapStep(r) == SwapScan(r) \/ SwapFilter(r) \/ SwapEnd(r) \/ \E p \in Positions : SwapApply(r, p)

Next ==
  \/ \E x \in Callers : CallStep(x)
  \/ \E x \in Requests : ClosePosition(x) \/ CloseAll(x) \/ HangsUp(x)
  \/ TickStep
  \/ \E p \in Positions : DeadlinePasses(p) \/ TaskWakes(p) \/ CoverOpen(p)
  \/ StopOutStep \/ MarketMoves
  \/ \E e \in Editors : EditRead(e) \/ EditWrite(e) \/ EditUnheard(e) \/ EditBook(e)
  \/ \E c \in Coverers : CoverRead(c) \/ CoverWrite(c)
  \/ \E r \in Runs : SwapStep(r)
  \/ Crash \/ Hydrate

Spec == Init /\ [][Next]_vars

\* What goes on by itself: calls and tasks that have begun, the two loops as long as quotes
\* come, time, and the restart of the process.  No error, no crash and no client is fair.
Fairness ==
  /\ \A x \in Callers : WF_vars(CallProceeds(x))
  /\ \A p \in Positions : WF_vars(DeadlinePasses(p) \/ TaskWakes(p))
  /\ WF_vars(TickProceeds)
  /\ \A a \in Accounts : WF_vars(StopOutVisit(a) \/ StopOutRound(a) \/ StopOutEnd(a))
  /\ WF_vars(Hydrate)

FairSpec == Spec /\ Fairness

-----------------------------------------------------------------------------
(* Properties                                                              *)

LevelsOr0 == Levels \cup {0}
BookRows == [volume : 0..Lots, claim : BOOLEAN, level : LevelsOr0]
Claims == [on : BOOLEAN, level : LevelsOr0]

Rows == [volume : 0..Lots, covered : 0..Lots, swap : Int, claim : BOOLEAN, level : LevelsOr0]

LedgerType ==
  /\ row \in [Positions -> Rows]
  /\ closed \in [Positions -> Nat] /\ realised \in [Positions -> Int]
  /\ accrued \in [Positions -> Int] /\ marks \in [Positions -> [1..LastDay -> Nat]]

MemoryType ==
  /\ engine \in {"up", "down", "blind"}
  /\ book \in [Positions -> BookRows]
  /\ claims \in [Positions -> Claims]
  /\ delayed \subseteq Positions

Calls == [at : {"idle", "asleep", "queued", "in", "tell"}, list : SUBSET Positions,
          pos : Positions \cup {NoPosition}, want : 0..Lots, left : 0..Lots,
          claim : BOOLEAN, level : LevelsOr0]
CallType ==
  /\ call \in [Callers -> Calls]
  /\ \A x \in Callers : call[x].at = "tell" => call[x].pos \in call[x].list

LoopsType ==
  /\ tick.at \in {"idle", "walk", "claim"} /\ tick.pos \in Positions \cup {NoPosition}
  /\ tick = [at |-> tick.at, rows |-> tick.rows, pos |-> tick.pos]
  /\ DOMAIN tick.rows \subseteq Positions
  /\ tick.at = "claim" => tick.pos \in DOMAIN tick.rows
  /\ \A p \in DOMAIN tick.rows : tick.rows[p] \in BookRows
  /\ stopper \in [acct : SUBSET Accounts, skip : SUBSET Positions]
  /\ under \subseteq Accounts

Edits == [at : {"idle", "write", "book"}, pos : Positions \cup {NoPosition}, level : LevelsOr0]
Covers == [at : {"idle", "write"}, pos : Positions \cup {NoPosition},
           volume : 0..Lots, covered : 0..Lots, lots : 0..Lots]

\* cover_more never takes more than it found warehoused.
DeskType ==
  /\ editor \in [Editors -> Edits]
  /\ \A e \in Editors : editor[e].at # "idle" => editor[e].pos \in Positions
  /\ coverer \in [Coverers -> Covers]
  /\ \A c \in Coverers : coverer[c].at = "write" => coverer[c].pos \in Positions
  /\ \A c \in Coverers : coverer[c].covered + coverer[c].lots <= coverer[c].volume
  /\ placing \in [Positions -> 0..Lots]

WorkerType ==
  /\ run \in [Runs -> [at : {"idle", "filter", "apply"}, day : 0..LastDay,
                       todo : SUBSET Positions]]
  /\ \A r \in Runs : run[r].at # "idle" => run[r].day # 0
  /\ today \in 1..LastDay

SpentType ==
  /\ ops \in 0..MaxOps /\ crashes \in 0..MaxCrashes /\ faults \in 0..MaxFaults
  /\ lost \in [Positions -> SUBSET {"partial", "restart", "unheard"}]
  /\ stale \subseteq Positions /\ crossed \subseteq Positions /\ mixed \subseteq Positions

\* Every variable keeps its type; the covered lots of a position stay between none and all.
TypeOK ==
  LedgerType /\ MemoryType /\ CallType /\ LoopsType /\ DeskType /\ WorkerType /\ SpentType

\* However many requests, tasks and loops close a position, and however their commits are
\* answered: its deals add up to the lots it was opened with, less those it still has.
ClosedForItsVolume == \A p \in Positions : closed[p] + row[p].volume = Lots

\* Once no close is between its commit and its word to the book, the book shows the lots the
\* table has; unless a commit went unheard, or hydrate failed.
BookFollowsRow ==
  engine = "up" => \A p \in Positions :
    \/ book[p].volume = row[p].volume
    \/ \E x \in Callers : call[x].at = "tell" /\ call[x].pos = p
    \/ "unheard" \in lost[p]

\* A position is charged one night's swap at most once for a day, whichever runs overlap.
ChargedOncePerDay == \A p \in Positions, d \in 1..LastDay : marks[p][d] <= 1

\* The swap charged to a position is on it or on its deals, every part once, although the
\* worker writes it without the engine knowing; and none is left when it has closed.
SwapIsRealised ==
  \A p \in Positions :
    accrued[p] = realised[p] + (IF Open(p) THEN row[p].swap ELSE 0)

\* No more lots are covered than are open, unless cover_more wrote on an old read.
CoveredWithinVolume ==
  \A p \in Positions : Open(p) /\ p \notin crossed => row[p].covered <= row[p].volume

\* A level fires only if the table has it.  The exceptions are edits made during the pass over
\* the copy, or being written; and a position whose last edits overlapped, or whose last edit
\* was written and not heard: its level in the book may be one the table no longer has, until
\* the next edit that comes to the book, or a restart.
FiresOnItsLevel ==
  [][\A p \in Positions : TickTrigger(p) /\ p \notin stale /\ p \notin mixed =>
       \/ tick.rows[p].level = row[p].level
       \/ \E e \in Editors : editor[e].pos = p /\ editor[e].at = "book"]_vars

\* A close on a claim waits for the claim's deadline and knows its level, whoever carries it
\* out: unless a partial close dropped the claim's record, or for the level a restart did.
ClosesAsClaimed ==
  [][\A x \in Callers, p \in Positions :
       Commit(x, p) /\ call[x].claim =>
         \/ "partial" \in lost[p]
         \/ p \notin delayed /\ (call[x].level # 0 \/ "restart" \in lost[p])]_vars

\* A position whose claim is in the table ends closed, over partial closes, failing closes
\* and restarts.
TriggerCloses ==
  \A p \in Positions : row[p].claim ~> (~Open(p) \/ engine = "blind")

Liquidated(a) ==
  (a \in under /\ Held(a) # {}) ~> (a \notin under \/ Held(a) = {} \/ engine = "blind")

\* An account that stays below its level has its positions closed, whatever else closes them and
\* however often a close fails, if it comes early enough in the book to be looked at.
StopOutEnforced == \A a \in FirstOf(Accounts) : Liquidated(a)

\* What docs/09-security.md says of the stop-out level: that the engine enforces it on every tick,
\* for every account.  It is not looked at for an account behind the first ones of the book.
StopOutEveryTick == \A a \in Accounts : Liquidated(a)
=============================================================================
