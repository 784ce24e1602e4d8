--------------------------- MODULE ClosingProofs ----------------------------
(***************************************************************************)
(* Theorems about Closing, for any number of positions, accounts, callers, *)
(* editors, runs of the worker, crashes and errors: the types; what the    *)
(* deals of a position, its swap and its cover add up to; that the book    *)
(* shows the table; the levels that the loop fires on; and the claims that *)
(* closes act on.                                                          *)
(***************************************************************************)
EXTENDS Closing, TLAPS

USE ClosingAssumption

-----------------------------------------------------------------------------
(* Rounding                                                                 *)

\* A quotient of natural numbers is what it says: the whole times d fits in n, one more does not.
LEMMA Quotient ==
  ASSUME NEW n \in Nat, NEW d \in Nat \ {0}
  PROVE  n \div d \in Nat /\ (n \div d) * d <= n /\ n < (n \div d) * d + d
  BY SMTT(30)

\* A number whose multiple fits in n is not above the quotient.
LEMMA QuotientAtLeast ==
  ASSUME NEW n \in Nat, NEW d \in Nat \ {0}, NEW k \in Int, k * d <= n
  PROVE  k <= n \div d
<1> DEFINE q == n \div d
<1>1. q \in Nat /\ n < q * d + d
  BY Quotient
<1>2. SUFFICES ASSUME q + 1 <= k PROVE FALSE
  BY <1>1
<1>3. (q + 1) * d <= k * d
  BY <1>1, <1>2, SMTT(30)
<1> QED
  BY <1>1, <1>3, SMTT(30)

\* Rounding to whole steps gives a number of steps.
LEMMA RoundLotsNat ==
  ASSUME NEW n \in Nat, NEW d \in Nat \ {0}
  PROVE  RoundLots(n, d) \in Nat
  BY Quotient DEF RoundLots

\* Two parts c and v of a whole: half a step is not more than rounding adds.
LEMMA ShareOfParts ==
  ASSUME NEW V \in Nat, NEW c \in 0..V, NEW v \in 0..V
  PROVE  (c + v - V) * (2 * V) <= 2 * (c * v) + V
<1> DEFINE a == V - c  b == V - v
<1>1. a \in Nat /\ b \in Nat /\ c = V - a /\ v = V - b
  OBVIOUS
<1> HIDE DEF a, b
<1>2. a * b \in Nat
  BY <1>1
<1>3. 2 * ((V - a) * (V - b)) = 2 * (V * V) - 2 * (a * V) - 2 * (b * V) + 2 * (a * b)
  BY <1>1, SMTT(30)
<1>4. (V - a - b) * (2 * V) = 2 * (V * V) - 2 * (a * V) - 2 * (b * V)
  BY <1>1, SMTT(30)
<1>5. c + v - V = V - a - b
  BY <1>1
<1> QED
  BY <1>1, <1>2, <1>3, <1>4, <1>5, SMTT(30)

\* The rounded share of c that goes with v leaves no more of c than is left of the whole.
LEMMA ShareKeepsUp ==
  ASSUME NEW V \in Nat \ {0}, NEW c \in 0..V, NEW v \in 0..V
  PROVE  c + v - V <= RoundLots(c * v, V)
<1> DEFINE n == 2 * (c * v) + V  d == 2 * V  k == c + v - V
<1>1. n \in Nat /\ d \in Nat \ {0} /\ k \in Int
  BY SMTT(30)
<1>2. k * d <= n
  BY ShareOfParts
<1> HIDE DEF n, d, k
<1>3. k <= n \div d
  BY <1>1, <1>2, QuotientAtLeast
<1> QED
  BY <1>3 DEF RoundLots, n, d, k

\* The part of the covered lots that a close takes along is at most all of them; and it is enough
\* to keep what is left covered within what is left open.
LEMMA CoverShare ==
  ASSUME LedgerType, NEW p \in Positions, NEW vol \in 1..Lots, Open(p), vol <= row[p].volume
  PROVE  /\ CoverToClose(p, vol) \in 0..row[p].covered
         /\ row[p].covered <= row[p].volume =>
              row[p].covered - CoverToClose(p, vol) <= row[p].volume - vol
<1> DEFINE V == row[p].volume  C == row[p].covered  share == RoundLots(C * vol, V)
<1>1. V \in 1..Lots /\ C \in 0..Lots /\ C * vol \in Nat
  <2>1. row[p] \in Rows
    BY DEF LedgerType
  <2>2. V \in 1..Lots /\ C \in 0..Lots
    BY <2>1 DEF Rows, Open
  <2>3. C \in Nat /\ vol \in Nat
    BY <2>2
  <2> HIDE DEF V, C
  <2>4. C * vol \in Nat
    BY <2>3
  <2> QED
    BY <2>2, <2>4
<1>2. share \in Nat
  <2> DEFINE n == C * vol
  <2>1. n \in Nat /\ V \in Nat \ {0}
    BY <1>1
  <2> HIDE DEF n, V
  <2>2. RoundLots(n, V) \in Nat
    BY <2>1, RoundLotsNat
  <2> QED
    BY <2>2 DEF n, V
<1>3. CoverToClose(p, vol) \in 0..C
  BY <1>1, <1>2 DEF CoverToClose
<1>4. ASSUME C <= V PROVE C - share <= V - vol
  <2>1. V \in Nat \ {0} /\ C \in 0..V /\ vol \in 0..V
    BY <1>1, <1>4
  <2>2. C + vol - V <= share
    BY <2>1, ShareKeepsUp
  <2> QED
    BY <1>1, <1>2, <2>2
<1>5. ASSUME C <= V PROVE C - CoverToClose(p, vol) <= V - vol
  BY <1>1, <1>2, <1>4, <1>5 DEF CoverToClose
<1> QED
  BY <1>3, <1>5

\* What is closed is a number of lots that the position has.
LEMMA CloseVolumeFits ==
  ASSUME LedgerType, CallType, NEW x \in Callers, NEW p \in Positions, Open(p)
  PROVE  CloseVolume(x, p) \in 1..Lots /\ CloseVolume(x, p) <= row[p].volume
BY DEF LedgerType, Rows, CallType, Calls, Open, CloseVolume

\* The swap that a close realises is a number.
LEMMA RealisedSwapInt ==
  ASSUME LedgerType, NEW p \in Positions, NEW vol \in 1..Lots, Open(p)
  PROVE  RealisedSwap(p, vol) \in Int
<1>1. row[p].swap \in Int /\ row[p].volume \in Nat \ {0}
  BY DEF LedgerType, Rows, Open
<1>2. row[p].swap * vol \in Int
  BY <1>1, SMTT(30)
<1>3. (row[p].swap * vol) \div row[p].volume \in Int
  BY <1>1, <1>2, SMTT(30)
<1> QED
  BY <1>1, <1>3 DEF RealisedSwap

-----------------------------------------------------------------------------
(* Types                                                                    *)

\* modify_position has written its level, whether it hears of it or not.
LevelWritten(e) ==
  /\ EditWrite(e) \/ EditUnheard(e)
  /\ editor[e].at = "write"
  /\ row' = [row EXCEPT ![editor[e].pos].level = editor[e].level]
  /\ UNCHANGED <<closed, realised, accrued, marks>>

\* A call ends without a close: the queue was too long, or the client has gone.
Drops(x) ==
  /\ GivesUp(x) \/ HangsUp(x)
  /\ call[x].at \in {"queued", "in"}
  /\ call' = [call EXCEPT ![x] = Idle]

\* The actions that write the tables of positions and deals.
LedgerStep ==
  \/ \E x \in Callers, p \in Positions : Commit(x, p) \/ CommitUnheard(x, p)
  \/ TickWrite \/ TickUnheard
  \/ \E p \in Positions : CoverOpen(p)
  \/ \E e \in Editors : LevelWritten(e)
  \/ \E c \in Coverers : CoverWrite(c)
  \/ \E r \in Runs, p \in Positions : SwapApply(r, p)

\* Who writes the tables.
LEMMA LedgerWriters == [Next]_vars => UNCHANGED ledger \/ LedgerStep
<1> SUFFICES ASSUME [Next]_vars PROVE UNCHANGED ledger \/ LedgerStep
  OBVIOUS
<1>1. ASSUME NEW x \in Callers, CallStep(x)
      PROVE  UNCHANGED ledger \/ LedgerStep
  BY <1>1 DEF CallStep, CallProceeds, LedgerStep, Enter, GivesUp, CloseFails, Tell
<1>2. ASSUME NEW x \in Requests, ClosePosition(x) \/ CloseAll(x) \/ HangsUp(x)
      PROVE  UNCHANGED ledger
  BY <1>2 DEF ClosePosition, CloseAll, HangsUp
<1>3. CASE TickStep
  BY <1>3 DEF TickStep, TickProceeds, LedgerStep, TickStart, TickRetry, TickQuiet, TickTrigger,
      TickAbort, TickUnheard, TickEnd
<1>4. ASSUME NEW p \in Positions, DeadlinePasses(p) \/ TaskWakes(p) \/ CoverOpen(p)
      PROVE  UNCHANGED ledger \/ LedgerStep
  BY <1>4 DEF LedgerStep, DeadlinePasses, TaskWakes
<1>5. CASE StopOutStep \/ MarketMoves
  BY <1>5 DEF StopOutStep, StopOutVisit, StopOutRound, StopOutEnd, StopOutAbort, MarketMoves
<1>6. ASSUME NEW e \in Editors, EditRead(e) \/ EditWrite(e) \/ EditUnheard(e) \/ EditBook(e)
      PROVE  UNCHANGED ledger \/ LedgerStep
  BY <1>6 DEF LedgerStep, LevelWritten, EditRead, EditWrite, EditUnheard, EditBook, ledger
<1>7. ASSUME NEW c \in Coverers, CoverRead(c) \/ CoverWrite(c)
      PROVE  UNCHANGED ledger \/ LedgerStep
  BY <1>7 DEF LedgerStep, CoverRead
<1>8. ASSUME NEW r \in Runs, SwapStep(r)
      PROVE  UNCHANGED ledger \/ LedgerStep
  BY <1>8 DEF SwapStep, LedgerStep, SwapScan, SwapFilter, SwapEnd
<1>9. CASE Crash \/ Hydrate
  BY <1>9 DEF Crash, Hydrate
<1>10. CASE UNCHANGED vars
  BY <1>10 DEF vars
<1> QED
  BY <1>1, <1>2, <1>3, <1>4, <1>5, <1>6, <1>7, <1>8, <1>9, <1>10 DEF Next

\* The actions that write the memory of the engine.
MemoryStep ==
  \/ \E x \in Callers : Tell(x)
  \/ \E p \in Positions : TickTrigger(p) \/ DeadlinePasses(p)
  \/ TickWrite \/ Crash \/ Hydrate
  \/ \E e \in Editors : EditBook(e)

\* Who writes the engine's memory.
LEMMA MemoryWriters == [Next]_vars => UNCHANGED <<engine, memory>> \/ MemoryStep
<1> SUFFICES ASSUME [Next]_vars PROVE UNCHANGED <<engine, memory>> \/ MemoryStep
  OBVIOUS
<1>1. ASSUME NEW x \in Callers, CallStep(x)
      PROVE  UNCHANGED <<engine, memory>> \/ MemoryStep
  BY <1>1 DEF CallStep, CallProceeds, MemoryStep, Enter, GivesUp, CloseFails, Commit,
      CommitUnheard
<1>2. ASSUME NEW x \in Requests, ClosePosition(x) \/ CloseAll(x) \/ HangsUp(x)
      PROVE  UNCHANGED <<engine, memory>>
  BY <1>2 DEF ClosePosition, CloseAll, HangsUp
<1>3. CASE TickStep
  BY <1>3 DEF TickStep, TickProceeds, MemoryStep, TickStart, TickRetry, TickQuiet,
      TickAbort, TickUnheard, TickEnd
<1>4. ASSUME NEW p \in Positions, DeadlinePasses(p) \/ TaskWakes(p) \/ CoverOpen(p)
      PROVE  UNCHANGED <<engine, memory>> \/ MemoryStep
  BY <1>4 DEF MemoryStep, TaskWakes, CoverOpen
<1>5. CASE StopOutStep \/ MarketMoves
  BY <1>5 DEF StopOutStep, StopOutVisit, StopOutRound, StopOutEnd, StopOutAbort, MarketMoves
<1>6. ASSUME NEW e \in Editors, EditRead(e) \/ EditWrite(e) \/ EditUnheard(e) \/ EditBook(e)
      PROVE  UNCHANGED <<engine, memory>> \/ MemoryStep
  BY <1>6 DEF MemoryStep, EditRead, EditWrite, EditUnheard
<1>7. ASSUME NEW c \in Coverers, CoverRead(c) \/ CoverWrite(c)
      PROVE  UNCHANGED <<engine, memory>>
  BY <1>7 DEF CoverRead, CoverWrite
<1>8. ASSUME NEW r \in Runs, SwapStep(r)
      PROVE  UNCHANGED <<engine, memory>>
  BY <1>8 DEF SwapStep, SwapScan, SwapFilter, SwapApply, SwapEnd
<1>9. CASE Crash \/ Hydrate
  BY <1>9 DEF MemoryStep
<1>10. CASE UNCHANGED vars
  BY <1>10 DEF vars
<1> QED
  BY <1>1, <1>2, <1>3, <1>4, <1>5, <1>6, <1>7, <1>8, <1>9, <1>10 DEF Next

\* The actions that begin, move or end a call.
CallChange ==
  \/ \E x \in Requests : ClosePosition(x) \/ CloseAll(x)
  \/ \E x \in Callers : Enter(x) \/ Drops(x) \/ Tell(x)
  \/ \E x \in Callers, p \in Positions : CloseFails(x, p) \/ Commit(x, p) \/ CommitUnheard(x, p)
  \/ \E p \in Positions : TickRetry(p) \/ TaskWakes(p)
  \/ TickWrite \/ Crash
  \/ \E a \in Accounts : StopOutRound(a)

\* Who writes the calls.
LEMMA CallWriters == [Next]_vars => UNCHANGED call \/ CallChange
<1> SUFFICES ASSUME [Next]_vars PROVE UNCHANGED call \/ CallChange
  OBVIOUS
<1>1. ASSUME NEW x \in Callers, CallStep(x)
      PROVE  UNCHANGED call \/ CallChange
  BY <1>1 DEF CallStep, CallProceeds, CallChange, Drops, GivesUp
<1>2. ASSUME NEW x \in Requests, ClosePosition(x) \/ CloseAll(x) \/ HangsUp(x)
      PROVE  UNCHANGED call \/ CallChange
  <2>1. x \in Callers
    BY DEF Callers
  <2> QED
    BY <1>2, <2>1 DEF CallChange, Drops, HangsUp
<1>3. CASE TickStep
  BY <1>3 DEF TickStep, TickProceeds, CallChange, TickStart, TickQuiet, TickTrigger,
      TickAbort, TickUnheard, TickEnd
<1>4. ASSUME NEW p \in Positions, DeadlinePasses(p) \/ TaskWakes(p) \/ CoverOpen(p)
      PROVE  UNCHANGED call \/ CallChange
  BY <1>4 DEF CallChange, DeadlinePasses, CoverOpen
<1>5. CASE StopOutStep \/ MarketMoves
  BY <1>5 DEF StopOutStep, CallChange, StopOutVisit, StopOutEnd, StopOutAbort, MarketMoves
<1>6. ASSUME NEW e \in Editors, EditRead(e) \/ EditWrite(e) \/ EditUnheard(e) \/ EditBook(e)
      PROVE  UNCHANGED call
  BY <1>6 DEF EditRead, EditWrite, EditUnheard, EditBook
<1>7. ASSUME NEW c \in Coverers, CoverRead(c) \/ CoverWrite(c)
      PROVE  UNCHANGED call
  BY <1>7 DEF CoverRead, CoverWrite
<1>8. ASSUME NEW r \in Runs, SwapStep(r)
      PROVE  UNCHANGED call
  BY <1>8 DEF SwapStep, SwapScan, SwapFilter, SwapApply, SwapEnd
<1>9. CASE Crash \/ Hydrate
  BY <1>9 DEF CallChange, Hydrate
<1>10. CASE UNCHANGED vars
  BY <1>10 DEF vars
<1> QED
  BY <1>1, <1>2, <1>3, <1>4, <1>5, <1>6, <1>7, <1>8, <1>9, <1>10 DEF Next

\* The actions of the loops, and the calls that the stop-out loop waits for.
LoopStep ==
  \/ \E x \in Callers : GivesUp(x)
  \/ \E x \in Callers, p \in Positions : CloseFails(x, p) \/ CommitUnheard(x, p)
  \/ TickStart \/ TickWrite \/ TickAbort \/ TickUnheard \/ TickEnd
  \/ StopOutAbort \/ MarketMoves \/ Crash
  \/ \E p \in Positions : TickRetry(p) \/ TickQuiet(p) \/ TickTrigger(p)
  \/ \E a \in Accounts : StopOutVisit(a) \/ StopOutEnd(a)

\* Who writes the two loops.
LEMMA LoopWriters == [Next]_vars => UNCHANGED <<loops, under>> \/ LoopStep
<1> SUFFICES ASSUME [Next]_vars PROVE UNCHANGED <<loops, under>> \/ LoopStep
  OBVIOUS
<1>1. ASSUME NEW x \in Callers, CallStep(x)
      PROVE  UNCHANGED <<loops, under>> \/ LoopStep
  BY <1>1 DEF CallStep, CallProceeds, LoopStep, Enter, Commit, Tell
<1>2. ASSUME NEW x \in Requests, ClosePosition(x) \/ CloseAll(x) \/ HangsUp(x)
      PROVE  UNCHANGED <<loops, under>>
  BY <1>2 DEF ClosePosition, CloseAll, HangsUp
<1>3. CASE TickStep
  BY <1>3 DEF TickStep, TickProceeds, LoopStep
<1>4. ASSUME NEW p \in Positions, DeadlinePasses(p) \/ TaskWakes(p) \/ CoverOpen(p)
      PROVE  UNCHANGED <<loops, under>>
  BY <1>4 DEF DeadlinePasses, TaskWakes, CoverOpen
<1>5. CASE StopOutStep \/ MarketMoves
  BY <1>5 DEF StopOutStep, LoopStep, StopOutRound
<1>6. ASSUME NEW e \in Editors, EditRead(e) \/ EditWrite(e) \/ EditUnheard(e) \/ EditBook(e)
      PROVE  UNCHANGED <<loops, under>>
  BY <1>6 DEF EditRead, EditWrite, EditUnheard, EditBook
<1>7. ASSUME NEW c \in Coverers, CoverRead(c) \/ CoverWrite(c)
      PROVE  UNCHANGED <<loops, under>>
  BY <1>7 DEF CoverRead, CoverWrite
<1>8. ASSUME NEW r \in Runs, SwapStep(r)
      PROVE  UNCHANGED <<loops, under>>
  BY <1>8 DEF SwapStep, SwapScan, SwapFilter, SwapApply, SwapEnd
<1>9. CASE Crash \/ Hydrate
  BY <1>9 DEF LoopStep, Hydrate
<1>10. CASE UNCHANGED vars
  BY <1>10 DEF vars
<1> QED
  BY <1>1, <1>2, <1>3, <1>4, <1>5, <1>6, <1>7, <1>8, <1>9, <1>10 DEF Next

\* The handlers without a mutex.
DeskStep ==
  \/ \E e \in Editors : EditRead(e) \/ EditWrite(e) \/ EditUnheard(e) \/ EditBook(e)
  \/ \E c \in Coverers : CoverRead(c) \/ CoverWrite(c)
  \/ \E p \in Positions : CoverOpen(p)
  \/ Crash

\* Who writes the handlers of the desk.
LEMMA DeskWriters == [Next]_vars => UNCHANGED desk \/ DeskStep
<1> SUFFICES ASSUME [Next]_vars PROVE UNCHANGED desk \/ DeskStep
  OBVIOUS
<1>1. ASSUME NEW x \in Callers, CallStep(x)
      PROVE  UNCHANGED desk
  BY <1>1 DEF CallStep, CallProceeds, Enter, GivesUp, CloseFails, Commit, CommitUnheard, Tell
<1>2. ASSUME NEW x \in Requests, ClosePosition(x) \/ CloseAll(x) \/ HangsUp(x)
      PROVE  UNCHANGED desk
  BY <1>2 DEF ClosePosition, CloseAll, HangsUp
<1>3. CASE TickStep
  BY <1>3 DEF TickStep, TickProceeds, TickStart, TickRetry, TickQuiet, TickTrigger, TickWrite,
      TickAbort, TickUnheard, TickEnd
<1>4. ASSUME NEW p \in Positions, DeadlinePasses(p) \/ TaskWakes(p) \/ CoverOpen(p)
      PROVE  UNCHANGED desk \/ DeskStep
  BY <1>4 DEF DeskStep, DeadlinePasses, TaskWakes
<1>5. CASE StopOutStep \/ MarketMoves
  BY <1>5 DEF StopOutStep, StopOutVisit, StopOutRound, StopOutEnd, StopOutAbort, MarketMoves
<1>6. ASSUME NEW e \in Editors, EditRead(e) \/ EditWrite(e) \/ EditUnheard(e) \/ EditBook(e)
      PROVE  UNCHANGED desk \/ DeskStep
  BY <1>6 DEF DeskStep
<1>7. ASSUME NEW c \in Coverers, CoverRead(c) \/ CoverWrite(c)
      PROVE  UNCHANGED desk \/ DeskStep
  BY <1>7 DEF DeskStep
<1>8. ASSUME NEW r \in Runs, SwapStep(r)
      PROVE  UNCHANGED desk
  BY <1>8 DEF SwapStep, SwapScan, SwapFilter, SwapApply, SwapEnd
<1>9. CASE Crash \/ Hydrate
  BY <1>9 DEF DeskStep, Hydrate
<1>10. CASE UNCHANGED vars
  BY <1>10 DEF vars
<1> QED
  BY <1>1, <1>2, <1>3, <1>4, <1>5, <1>6, <1>7, <1>8, <1>9, <1>10 DEF Next

\* The worker.
WorkerStep ==
  \/ \E r \in Runs : SwapScan(r) \/ SwapFilter(r) \/ SwapEnd(r)
  \/ \E r \in Runs, p \in Positions : SwapApply(r, p)

\* Who writes the runs of the worker.
LEMMA WorkerWriters == [Next]_vars => UNCHANGED worker \/ WorkerStep
<1> SUFFICES ASSUME [Next]_vars PROVE UNCHANGED worker \/ WorkerStep
  OBVIOUS
<1>1. ASSUME NEW x \in Callers, CallStep(x)
      PROVE  UNCHANGED worker
  BY <1>1 DEF CallStep, CallProceeds, Enter, GivesUp, CloseFails, Commit, CommitUnheard, Tell
<1>2. ASSUME NEW x \in Requests, ClosePosition(x) \/ CloseAll(x) \/ HangsUp(x)
      PROVE  UNCHANGED worker
  BY <1>2 DEF ClosePosition, CloseAll, HangsUp
<1>3. CASE TickStep
  BY <1>3 DEF TickStep, TickProceeds, TickStart, TickRetry, TickQuiet, TickTrigger, TickWrite,
      TickAbort, TickUnheard, TickEnd
<1>4. ASSUME NEW p \in Positions, DeadlinePasses(p) \/ TaskWakes(p) \/ CoverOpen(p)
      PROVE  UNCHANGED worker
  BY <1>4 DEF DeadlinePasses, TaskWakes, CoverOpen
<1>5. CASE StopOutStep \/ MarketMoves
  BY <1>5 DEF StopOutStep, StopOutVisit, StopOutRound, StopOutEnd, StopOutAbort, MarketMoves
<1>6. ASSUME NEW e \in Editors, EditRead(e) \/ EditWrite(e) \/ EditUnheard(e) \/ EditBook(e)
      PROVE  UNCHANGED worker
  BY <1>6 DEF EditRead, EditWrite, EditUnheard, EditBook
<1>7. ASSUME NEW c \in Coverers, CoverRead(c) \/ CoverWrite(c)
      PROVE  UNCHANGED worker
  BY <1>7 DEF CoverRead, CoverWrite
<1>8. ASSUME NEW r \in Runs, SwapStep(r)
      PROVE  UNCHANGED worker \/ WorkerStep
  BY <1>8 DEF SwapStep, WorkerStep
<1>9. CASE Crash \/ Hydrate
  BY <1>9 DEF Crash, Hydrate
<1>10. CASE UNCHANGED vars
  BY <1>10 DEF vars
<1> QED
  BY <1>1, <1>2, <1>3, <1>4, <1>5, <1>6, <1>7, <1>8, <1>9, <1>10 DEF Next

\* The sets of records that the types are made of do not change.
LEMMA SetsStay ==
  /\ LevelsOr0' = LevelsOr0 /\ BookRows' = BookRows /\ Rows' = Rows /\ Claims' = Claims
  /\ Calls' = Calls /\ Edits' = Edits /\ Covers' = Covers
BY DEF LevelsOr0, BookRows, Rows, Claims, Calls, Edits, Covers

\* The values that the actions write into the records.
LEMMA RowValues ==
  ASSUME NEW r \in Rows
  PROVE  /\ \A l \in LevelsOr0 : [r EXCEPT !.level = l] \in Rows
         /\ [r EXCEPT !.claim = TRUE] \in Rows
         /\ \A n \in 0..Lots : [r EXCEPT !.covered = n] \in Rows
         /\ \A s \in Int : [r EXCEPT !.swap = s] \in Rows
         /\ \A n \in 0..Lots, k \in 0..Lots : [r EXCEPT !.volume = n, !.covered = k] \in Rows
         /\ \A n \in 0..Lots, k \in 0..Lots, s \in Int :
              [r EXCEPT !.volume = n, !.covered = k, !.swap = s] \in Rows
<1> USE DEF Rows
<1>1. \A l \in LevelsOr0 : [r EXCEPT !.level = l] \in Rows
  OBVIOUS
<1>2. [r EXCEPT !.claim = TRUE] \in Rows
  OBVIOUS
<1>3. \A n \in 0..Lots : [r EXCEPT !.covered = n] \in Rows
  OBVIOUS
<1>4. \A s \in Int : [r EXCEPT !.swap = s] \in Rows
  OBVIOUS
<1>5. \A n \in 0..Lots, k \in 0..Lots : [r EXCEPT !.volume = n, !.covered = k] \in Rows
  OBVIOUS
<1>6. \A n \in 0..Lots, k \in 0..Lots, s \in Int :
        [r EXCEPT !.volume = n, !.covered = k, !.swap = s] \in Rows
  OBVIOUS
<1> QED
  BY <1>1, <1>2, <1>3, <1>4, <1>5, <1>6

\* A row of the table is what its fields say.
LEMMA RowFields ==
  ASSUME NEW r \in Rows
  PROVE  /\ r.volume \in 0..Lots /\ r.covered \in 0..Lots /\ r.swap \in Int
         /\ r.claim \in BOOLEAN /\ r.level \in LevelsOr0
BY DEF Rows

\* The rows that the book is given are rows of the book.
LEMMA BookValues ==
  /\ NotInBook \in BookRows
  /\ \A b \in BookRows : b.level \in LevelsOr0
  /\ \A b \in BookRows : [b EXCEPT !.claim = TRUE] \in BookRows
  /\ \A b \in BookRows, n \in 0..Lots : [b EXCEPT !.volume = n] \in BookRows
  /\ \A b \in BookRows, l \in LevelsOr0 : [b EXCEPT !.level = l] \in BookRows
  /\ \A n \in 0..Lots, c \in BOOLEAN, l \in LevelsOr0 :
       [volume |-> n, claim |-> c, level |-> l] \in BookRows
<1>1. 0 \in LevelsOr0 /\ 0 \in 0..Lots
  BY ClosingAssumption DEF LevelsOr0
<1>2. NotInBook \in BookRows
  BY <1>1 DEF NotInBook, BookRows
<1> QED
  BY <1>2 DEF BookRows

\* The claims that memory is given are claims.
LEMMA ClaimValues ==
  /\ NoClaim \in Claims
  /\ \A c \in BOOLEAN, l \in LevelsOr0 : [on |-> c, level |-> l] \in Claims
  /\ 0 \in LevelsOr0
  /\ \A c \in Claims : c.level \in LevelsOr0 /\ c.on \in BOOLEAN
BY DEF NoClaim, Claims, LevelsOr0

\* The calls that are made are calls.
LEMMA CallValues ==
  /\ Idle \in Calls /\ Idle.at = "idle"
  /\ \A p \in Positions, l \in LevelsOr0 :
       /\ Claimed(p, l) \in Calls /\ Claimed(p, l).at = "queued"
       /\ [Claimed(p, l) EXCEPT !.at = "asleep"] \in Calls
       /\ [Claimed(p, l) EXCEPT !.at = "asleep"].at = "asleep"
  /\ \A p \in Positions : StopOut(p) \in Calls /\ StopOut(p).at = "queued"
  /\ \A list \in SUBSET Positions, v \in 0..Lots :
       /\ [Idle EXCEPT !.at = "queued", !.list = list, !.want = v] \in Calls
       /\ [Idle EXCEPT !.at = "queued", !.list = list, !.want = v].at = "queued"
       /\ [Idle EXCEPT !.at = "queued", !.list = list] \in Calls
       /\ [Idle EXCEPT !.at = "queued", !.list = list].at = "queued"
<1>1. 0 \in LevelsOr0 /\ 0 \in 0..Lots
  BY ClosingAssumption DEF LevelsOr0
<1>2. Idle \in Calls /\ Idle.at = "idle"
  BY <1>1 DEF Idle, Calls
<1>3. ASSUME NEW p \in Positions, NEW l \in LevelsOr0
      PROVE  /\ Claimed(p, l) \in Calls /\ Claimed(p, l).at = "queued"
             /\ [Claimed(p, l) EXCEPT !.at = "asleep"] \in Calls
             /\ [Claimed(p, l) EXCEPT !.at = "asleep"].at = "asleep"
  BY <1>1 DEF Claimed, Idle, Calls
<1>4. ASSUME NEW p \in Positions PROVE StopOut(p) \in Calls /\ StopOut(p).at = "queued"
  BY <1>1 DEF StopOut, Idle, Calls
<1>5. ASSUME NEW list \in SUBSET Positions, NEW v \in 0..Lots
      PROVE  /\ [Idle EXCEPT !.at = "queued", !.list = list, !.want = v] \in Calls
             /\ [Idle EXCEPT !.at = "queued", !.list = list, !.want = v].at = "queued"
             /\ [Idle EXCEPT !.at = "queued", !.list = list] \in Calls
             /\ [Idle EXCEPT !.at = "queued", !.list = list].at = "queued"
  BY <1>1 DEF Idle, Calls
<1> QED
  BY <1>2, <1>3, <1>4, <1>5

\* The transaction of a close keeps the types of the tables.
LEMMA CloseTxType ==
  ASSUME LedgerType, NEW p \in Positions, NEW vol \in 1..Lots, Open(p), vol <= row[p].volume,
         CloseTx(p, vol)
  PROVE  LedgerType'
<1>1. CoverToClose(p, vol) \in 0..row[p].covered /\ RealisedSwap(p, vol) \in Int
  BY CoverShare, RealisedSwapInt
<1>2. row \in [Positions -> Rows] /\ row[p] \in Rows
  BY DEF LedgerType
<1>3. /\ row[p].volume \in 0..Lots /\ row[p].covered \in 0..Lots /\ row[p].swap \in Int
      /\ 0 \in 0..Lots
  BY <1>2, RowFields
<1>4. AfterClose(p, vol) \in Rows
  <2>1. [row[p] EXCEPT !.volume = 0, !.covered = 0] \in Rows
    BY <1>2, <1>3, RowValues
  <2>2. CASE ~(vol >= row[p].volume)
    <3> DEFINE n == row[p].volume - vol  k == row[p].covered - CoverToClose(p, vol)
               s == row[p].swap - RealisedSwap(p, vol)
    <3>1. n \in 0..Lots /\ k \in 0..Lots /\ s \in Int
      BY <1>1, <1>3, <2>2
    <3>2. AfterClose(p, vol) = [row[p] EXCEPT !.volume = n, !.covered = k, !.swap = s]
      <4>1. AfterClose(p, vol) =
              IF vol >= row[p].volume
                THEN [row[p] EXCEPT !.volume = 0, !.covered = 0]
                ELSE [row[p] EXCEPT !.volume = n, !.covered = k, !.swap = s]
        BY Zenon DEF AfterClose
      <4> HIDE DEF n, k, s
      <4> QED
        BY <2>2, <4>1
    <3> HIDE DEF n, k, s
    <3>3. [row[p] EXCEPT !.volume = n, !.covered = k, !.swap = s] \in Rows
      BY <1>2, <3>1, RowValues
    <3> QED
      BY <3>2, <3>3
  <2> QED
    BY <2>1, <2>2 DEF AfterClose
<1>5. closed' \in [Positions -> Nat] /\ realised' \in [Positions -> Int]
  BY <1>1 DEF CloseTx, LedgerType
<1>6. row' \in [Positions -> Rows]
  BY <1>2, <1>4 DEF CloseTx
<1> QED
  BY <1>5, <1>6, SetsStay DEF CloseTx, LedgerType

\* The tables keep their types.
LEMMA LedgerTypeStep == TypeOK /\ [Next]_vars => LedgerType'
<1> SUFFICES ASSUME TypeOK, [Next]_vars PROVE LedgerType'
  OBVIOUS
<1>1. LedgerType /\ CallType /\ LoopsType /\ DeskType /\ WorkerType
  BY DEF TypeOK
<1>2. CASE UNCHANGED ledger
  BY <1>1, <1>2, SetsStay DEF LedgerType, ledger
<1>3. ASSUME NEW x \in Callers, NEW p \in Positions, Commit(x, p) \/ CommitUnheard(x, p)
      PROVE  LedgerType'
  BY <1>1, <1>3, CloseVolumeFits, CloseTxType DEF Commit, CommitUnheard
<1>4. row \in [Positions -> Rows]
  BY <1>1 DEF LedgerType
<1>5. ASSUME row' \in [Positions -> Rows], UNCHANGED <<closed, realised, accrued, marks>>
      PROVE  LedgerType'
  BY <1>1, <1>5, SetsStay DEF LedgerType
<1>6. ASSUME NEW p \in Positions, NEW r \in Rows, row' = [row EXCEPT ![p] = r],
             UNCHANGED <<closed, realised, accrued, marks>>
      PROVE  LedgerType'
  BY <1>4, <1>5, <1>6
<1>7. CASE TickWrite
  <2>1. tick.pos \in Positions
    BY <1>1, <1>7 DEF TickWrite, LoopsType
  <2>2. [row[tick.pos] EXCEPT !.claim = TRUE] \in Rows
    BY <1>4, <2>1, RowValues
  <2>3. \/ UNCHANGED row
        \/ row' = [row EXCEPT ![tick.pos] = [row[tick.pos] EXCEPT !.claim = TRUE]]
    BY <1>7, <1>4, <2>1 DEF TickWrite
  <2>4. UNCHANGED <<closed, realised, accrued, marks>>
    BY <1>7 DEF TickWrite
  <2> QED
    BY <1>4, <1>5, <1>6, <2>1, <2>2, <2>3, <2>4
<1>12. CASE TickUnheard
  <2> DEFINE p == tick.pos
  <2>1. p \in Positions
    BY <1>1, <1>12 DEF TickUnheard, LoopsType
  <2>2. row' = [row EXCEPT ![p] = [row[p] EXCEPT !.claim = TRUE]]
    BY <1>4, <1>12, <2>1 DEF TickUnheard
  <2> HIDE DEF p
  <2>3. [row[p] EXCEPT !.claim = TRUE] \in Rows
    BY <1>4, <2>1, RowValues
  <2>4. UNCHANGED <<closed, realised, accrued, marks>>
    BY <1>12 DEF TickUnheard
  <2> QED
    BY <1>6, <2>1, <2>2, <2>3, <2>4
<1>8. ASSUME NEW p \in Positions, CoverOpen(p) PROVE LedgerType'
  <2> DEFINE k == IF ~Open(p) THEN row[p].covered
                  ELSE IF row[p].covered > placing[p] THEN row[p].covered - placing[p] ELSE 0
  <2>1. k \in 0..Lots
    BY <1>1, <1>4, RowFields, ClosingAssumption DEF DeskType
  <2>2. \/ UNCHANGED row
        \/ row' = [row EXCEPT ![p] = [row[p] EXCEPT !.covered = k]]
    BY <1>4, <1>8 DEF CoverOpen
  <2> HIDE DEF k
  <2>3. [row[p] EXCEPT !.covered = k] \in Rows
    BY <1>4, <2>1, RowValues
  <2>4. UNCHANGED <<closed, realised, accrued, marks>>
    BY <1>8 DEF CoverOpen
  <2> QED
    BY <1>4, <1>5, <1>6, <2>2, <2>3, <2>4
<1>9. ASSUME NEW e \in Editors, LevelWritten(e) PROVE LedgerType'
  <2> DEFINE p == editor[e].pos  l == editor[e].level
  <2>1. p \in Positions /\ l \in LevelsOr0
    BY <1>1, <1>9 DEF LevelWritten, DeskType, Edits
  <2>2. row' = [row EXCEPT ![p] = [row[p] EXCEPT !.level = l]]
    BY <1>4, <1>9, <2>1 DEF LevelWritten
  <2> HIDE DEF p, l
  <2>3. [row[p] EXCEPT !.level = l] \in Rows
    BY <1>4, <2>1, RowValues
  <2>4. UNCHANGED <<closed, realised, accrued, marks>>
    BY <1>9 DEF LevelWritten
  <2> QED
    BY <1>6, <2>1, <2>2, <2>3, <2>4
<1>10. ASSUME NEW c \in Coverers, CoverWrite(c) PROVE LedgerType'
  <2> DEFINE p == coverer[c].pos  k == coverer[c].covered + coverer[c].lots
  <2>1. p \in Positions /\ k \in 0..Lots
    BY <1>1, <1>10 DEF CoverWrite, DeskType, Covers
  <2>2. row' = [row EXCEPT ![p] = [row[p] EXCEPT !.covered = k]]
    BY <1>4, <1>10, <2>1 DEF CoverWrite
  <2> HIDE DEF p, k
  <2>3. [row[p] EXCEPT !.covered = k] \in Rows
    BY <1>4, <2>1, RowValues
  <2>4. UNCHANGED <<closed, realised, accrued, marks>>
    BY <1>10 DEF CoverWrite
  <2> QED
    BY <1>6, <2>1, <2>2, <2>3, <2>4
<1>11. ASSUME NEW r \in Runs, NEW p \in Positions, SwapApply(r, p) PROVE LedgerType'
  <2>1. CASE UNCHANGED ledger
    BY <1>2, <2>1
  <2>2. CASE ~UNCHANGED ledger
    <3>1. /\ row' = [row EXCEPT ![p].swap = @ + row[p].volume]
          /\ accrued' = [accrued EXCEPT ![p] = @ + row[p].volume]
          /\ marks' = [marks EXCEPT ![p][run[r].day] = @ + 1]
          /\ UNCHANGED <<closed, realised>>
      BY <1>11, <2>2 DEF SwapApply
    <3>2. row[p] \in Rows /\ row[p].swap + row[p].volume \in Int /\ row[p].volume \in Int
      BY <1>4, RowFields
    <3>3. row' = [row EXCEPT ![p] = [row[p] EXCEPT !.swap = row[p].swap + row[p].volume]]
      BY <1>4, <3>1
    <3>4. [row[p] EXCEPT !.swap = row[p].swap + row[p].volume] \in Rows
      BY <3>2, RowValues
    <3>5. row' \in [Positions -> Rows]
      BY <1>4, <3>3, <3>4
    <3>6. accrued' \in [Positions -> Int]
      BY <1>1, <3>1, <3>2 DEF LedgerType
    <3>7. marks' \in [Positions -> [1..LastDay -> Nat]]
      <4> DEFINE d == run[r].day
      <4>1. marks \in [Positions -> [1..LastDay -> Nat]]
        BY <1>1 DEF LedgerType
      <4>2. d \in 1..LastDay
        BY <1>1, <1>11 DEF SwapApply, WorkerType
      <4>3. [marks[p] EXCEPT ![d] = marks[p][d] + 1] \in [1..LastDay -> Nat]
        <5>1. marks[p] \in [1..LastDay -> Nat]
          BY <4>1
        <5>2. marks[p][d] + 1 \in Nat
          BY <5>1, <4>2
        <5> QED
          BY <5>1, <5>2
      <4>4. marks' = [marks EXCEPT ![p] = [marks[p] EXCEPT ![d] = marks[p][d] + 1]]
        BY <3>1, <4>1
      <4> QED
        BY <4>1, <4>3, <4>4
    <3> QED
      BY <1>1, <3>1, <3>5, <3>6, <3>7, SetsStay DEF LedgerType
  <2> QED
    BY <2>1, <2>2
<1> QED
  BY <1>2, <1>3, <1>7, <1>8, <1>9, <1>10, <1>11, <1>12, LedgerWriters DEF LedgerStep

\* The engine's memory keeps its types.
LEMMA MemoryTypeStep == TypeOK /\ [Next]_vars => MemoryType'
<1> SUFFICES ASSUME TypeOK, [Next]_vars PROVE MemoryType'
  OBVIOUS
<1>1. LedgerType /\ MemoryType /\ CallType /\ LoopsType /\ DeskType
  BY DEF TypeOK
<1>2. CASE UNCHANGED <<engine, memory>>
  BY <1>1, <1>2, SetsStay DEF MemoryType, memory
<1>3. /\ book \in [Positions -> BookRows] /\ claims \in [Positions -> Claims]
      /\ delayed \subseteq Positions /\ engine \in {"up", "down", "blind"}
  BY <1>1 DEF MemoryType
<1>4. ASSUME book' \in [Positions -> BookRows], claims' \in [Positions -> Claims],
             delayed' \subseteq Positions, engine' \in {"up", "down", "blind"}
      PROVE  MemoryType'
  BY <1>4, SetsStay DEF MemoryType
<1>5. ASSUME NEW x \in Callers, Tell(x) PROVE MemoryType'
  <2> DEFINE p == call[x].pos  n == call[x].left
             b == IF n = 0 THEN NotInBook ELSE [book[p] EXCEPT !.volume = n]
  <2>1. p \in Positions /\ n \in 0..Lots
    BY <1>1, <1>5 DEF Tell, CallType, Calls
  <2>2. b \in BookRows
    BY <1>3, <2>1, BookValues
  <2>3. UNCHANGED book \/ book' = [book EXCEPT ![p] = b]
    BY <1>3, <1>5, <2>1 DEF Tell
  <2>4. claims' = [claims EXCEPT ![p] = NoClaim] /\ UNCHANGED <<engine, delayed>>
    BY <1>5 DEF Tell
  <2> HIDE DEF p, n, b
  <2>5. book' \in [Positions -> BookRows]
    BY <1>3, <2>1, <2>2, <2>3
  <2>6. claims' \in [Positions -> Claims]
    BY <1>3, <2>1, <2>4, ClaimValues
  <2> QED
    BY <1>3, <1>4, <2>4, <2>5, <2>6
<1>6. ASSUME NEW p \in Positions, TickTrigger(p) PROVE MemoryType'
  <2> DEFINE l == tick.rows[p].level  b == [book[p] EXCEPT !.claim = TRUE]
             c == [on |-> TRUE, level |-> l]
  <2>1. l \in LevelsOr0
    BY <1>1, <1>6, BookValues DEF TickTrigger, LoopsType
  <2>2. b \in BookRows /\ c \in Claims
    BY <1>3, <2>1, BookValues, ClaimValues
  <2>3. /\ UNCHANGED book \/ book' = [book EXCEPT ![p] = b]
        /\ claims' = [claims EXCEPT ![p] = c]
        /\ delayed' \subseteq Positions /\ UNCHANGED engine
    BY <1>3, <1>6 DEF TickTrigger
  <2> HIDE DEF b, c
  <2> QED
    BY <1>3, <1>4, <2>2, <2>3
<1>7. CASE TickWrite
  <2>1. claims' \in [Positions -> Claims]
    BY <1>3, <1>7, ClaimValues DEF TickWrite
  <2> QED
    BY <1>3, <1>4, <1>7, <2>1 DEF TickWrite
<1>8. ASSUME NEW p \in Positions, DeadlinePasses(p) PROVE MemoryType'
  BY <1>3, <1>4, <1>8 DEF DeadlinePasses
<1>9. ASSUME NEW e \in Editors, EditBook(e) PROVE MemoryType'
  <2> DEFINE p == editor[e].pos  b == [book[p] EXCEPT !.level = editor[e].level]
  <2>1. p \in Positions /\ editor[e].level \in LevelsOr0
    BY <1>1, <1>9 DEF EditBook, DeskType, Edits
  <2>2. b \in BookRows
    BY <1>3, <2>1, BookValues
  <2>3. UNCHANGED book \/ book' = [book EXCEPT ![p] = b]
    BY <1>3, <1>9, <2>1 DEF EditBook
  <2>4. UNCHANGED <<engine, claims, delayed>>
    BY <1>9 DEF EditBook
  <2> HIDE DEF p, b
  <2> QED
    BY <1>3, <1>4, <2>1, <2>2, <2>3, <2>4
<1>10. CASE Crash
  BY <1>3, <1>4, <1>10, BookValues, ClaimValues DEF Crash
<1>11. CASE Hydrate
  <2>1. \A p \in Positions : /\ row[p].volume \in 0..Lots /\ row[p].claim \in BOOLEAN
                             /\ row[p].level \in LevelsOr0
    BY <1>1, RowFields DEF LedgerType
  <2>2. \A p \in Positions : [volume |-> row[p].volume, claim |-> row[p].claim,
                              level |-> row[p].level] \in BookRows
    BY <2>1, BookValues
  <2>3. \A p \in Positions : [on |-> Open(p) /\ row[p].claim, level |-> 0] \in Claims
    BY <2>1, ClaimValues
  <2>4. \/ UNCHANGED <<book, claims>>
        \/ /\ book' = [p \in Positions |->
                IF Open(p) THEN [volume |-> row[p].volume, claim |-> row[p].claim,
                                 level |-> row[p].level] ELSE NotInBook]
           /\ claims' = [p \in Positions |-> [on |-> Open(p) /\ row[p].claim, level |-> 0]]
    BY <1>11 DEF Hydrate
  <2>5. engine' \in {"up", "down", "blind"} /\ UNCHANGED delayed
    BY <1>11 DEF Hydrate
  <2>6. book' \in [Positions -> BookRows] /\ claims' \in [Positions -> Claims]
    BY <1>3, <2>2, <2>3, <2>4, BookValues
  <2> QED
    BY <1>3, <1>4, <2>5, <2>6
<1> QED
  BY <1>2, <1>5, <1>6, <1>7, <1>8, <1>9, <1>10, <1>11, MemoryWriters DEF MemoryStep

\* The calls keep their types.
LEMMA CallTypeStep == TypeOK /\ [Next]_vars => CallType'
<1> SUFFICES ASSUME TypeOK, [Next]_vars PROVE CallType'
  OBVIOUS
<1>1. LedgerType /\ MemoryType /\ CallType /\ LoopsType
  BY DEF TypeOK
<1>2. CASE UNCHANGED call
  BY <1>1, <1>2, SetsStay DEF CallType
<1>3. /\ call \in [Callers -> Calls]
      /\ \A x \in Callers : call[x].at = "tell" => call[x].pos \in call[x].list
  BY <1>1 DEF CallType
<1>4. ASSUME NEW x \in Callers, NEW c \in Calls, c.at = "tell" => c.pos \in c.list,
             call' = [call EXCEPT ![x] = c]
      PROVE  CallType'
  BY <1>3, <1>4, SetsStay DEF CallType
<1>5. \A c \in Calls : /\ c.list \subseteq Positions
                       /\ [c EXCEPT !.at = "in"] \in Calls /\ [c EXCEPT !.at = "in"].at = "in"
                       /\ [c EXCEPT !.at = "queued"] \in Calls
                       /\ [c EXCEPT !.at = "queued"].at = "queued"
  BY DEF Calls
<1>6. ASSUME NEW x \in Requests, ClosePosition(x) PROVE CallType'
  <2>1. PICK p \in Positions, v \in 1..Lots :
          call' = [call EXCEPT ![x] = [Idle EXCEPT !.at = "queued", !.list = {p}, !.want = v]]
    BY <1>6 DEF ClosePosition
  <2> DEFINE c == [Idle EXCEPT !.at = "queued", !.list = {p}, !.want = v]
  <2>2. {p} \in SUBSET Positions /\ v \in 0..Lots /\ x \in Callers
    BY DEF Callers
  <2>3. c \in Calls /\ c.at = "queued"
    BY <2>2, CallValues
  <2> HIDE DEF c
  <2> QED
    BY <1>4, <2>1, <2>2, <2>3 DEF c
<1>7. ASSUME NEW x \in Requests, CloseAll(x) PROVE CallType'
  <2>1. PICK list \in SUBSET Positions :
          call' = [call EXCEPT ![x] = [Idle EXCEPT !.at = "queued", !.list = list]]
    BY <1>7 DEF CloseAll
  <2> DEFINE c == [Idle EXCEPT !.at = "queued", !.list = list]
  <2>2. c \in Calls /\ c.at = "queued" /\ x \in Callers
    BY CallValues, ClosingAssumption DEF Callers
  <2> HIDE DEF c
  <2> QED
    BY <1>4, <2>1, <2>2 DEF c
<1>8. ASSUME NEW x \in Callers, Enter(x) PROVE CallType'
  <2>1. call' = [call EXCEPT ![x] = [call[x] EXCEPT !.at = "in"]]
    BY <1>3, <1>8 DEF Enter
  <2> QED
    BY <1>3, <1>4, <1>5, <2>1
<1>9. ASSUME NEW x \in Callers, Drops(x) PROVE CallType'
  BY <1>3, <1>4, <1>9, CallValues DEF Drops
<1>10. ASSUME NEW x \in Callers, NEW p, Past(x, p) PROVE CallType'
  <2> DEFINE c == [call[x] EXCEPT !.at = "in", !.list = call[x].list \ {p}, !.pos = NoPosition,
                                  !.left = 0]
  <2>1. call[x] \in Calls /\ 0 \in 0..Lots
    BY <1>3, ClosingAssumption
  <2>2. c \in Calls /\ c.at = "in"
    BY <2>1 DEF Calls
  <2>3. call' = [call EXCEPT ![x] = Idle] \/ call' = [call EXCEPT ![x] = c]
    BY <1>3, <1>10 DEF Past
  <2> HIDE DEF c
  <2> QED
    BY <1>4, <2>2, <2>3, CallValues
<1>11. ASSUME NEW x \in Callers, NEW p \in Positions, CloseFails(x, p) \/ CommitUnheard(x, p)
      PROVE  CallType'
  BY <1>10, <1>11 DEF CloseFails, CommitUnheard
<1>12. ASSUME NEW x \in Callers, Tell(x) PROVE CallType'
  BY <1>10, <1>12 DEF Tell
<1>13. ASSUME NEW x \in Callers, NEW p \in Positions, Commit(x, p) PROVE CallType'
  <2> DEFINE n == row[p].volume - CloseVolume(x, p)
             c == [call[x] EXCEPT !.at = "tell", !.pos = p, !.left = n]
  <2>1. n \in 0..Lots
    <3>1. row[p].volume \in 0..Lots
      BY <1>1, RowFields DEF LedgerType
    <3>2. CloseVolume(x, p) \in 1..Lots /\ CloseVolume(x, p) <= row[p].volume
      BY <1>1, <1>13, CloseVolumeFits DEF Commit
    <3> QED
      BY <3>1, <3>2
  <2>2. call' = [call EXCEPT ![x] = c]
    BY <1>3, <1>13 DEF Commit
  <2>3. p \in call[x].list /\ call[x] \in Calls
    BY <1>3, <1>13 DEF Commit
  <2> HIDE DEF n
  <2>4. c \in Calls /\ c.pos \in c.list
    BY <2>1, <2>3 DEF Calls
  <2> HIDE DEF c
  <2> QED
    BY <1>4, <2>2, <2>4
<1>14. ASSUME NEW p \in Positions, TickRetry(p) PROVE CallType'
  <2> DEFINE c == Claimed(p, claims[p].level)
  <2>1. UNCHANGED call \/ call' = [call EXCEPT ![TickLoop] = c]
    BY <1>14 DEF TickRetry
  <2>2. c \in Calls /\ c.at = "queued"
    BY <1>1, CallValues, ClaimValues DEF MemoryType
  <2> HIDE DEF c
  <2> QED
    BY <1>2, <1>4, <2>1, <2>2 DEF Callers
<1>15. CASE TickWrite
  <2> DEFINE p == tick.pos  c == Claimed(p, tick.rows[p].level)
             d == [Claimed(p, tick.rows[p].level) EXCEPT !.at = "asleep"]
  <2>1. p \in Positions /\ tick.rows[p].level \in LevelsOr0
    BY <1>1, <1>15, BookValues DEF TickWrite, LoopsType
  <2>2. c \in Calls /\ c.at = "queued" /\ d \in Calls /\ d.at = "asleep"
    BY <2>1, CallValues
  <2>3. UNCHANGED call \/ call' = [call EXCEPT ![p] = d] \/ call' = [call EXCEPT ![TickLoop] = c]
    BY <1>15 DEF TickWrite
  <2> HIDE DEF p, c, d
  <2> QED
    BY <1>2, <1>4, <2>1, <2>2, <2>3 DEF Callers
<1>16. ASSUME NEW p \in Positions, TaskWakes(p) PROVE CallType'
  <2>1. p \in Callers
    BY DEF Callers
  <2>2. call' = [call EXCEPT ![p] = [call[p] EXCEPT !.at = "queued"]]
    BY <1>3, <1>16, <2>1 DEF TaskWakes
  <2> QED
    BY <1>3, <1>4, <1>5, <2>1, <2>2
<1>17. ASSUME NEW a \in Accounts, StopOutRound(a) PROVE CallType'
  <2>1. PICK p \in Positions : call' = [call EXCEPT ![StopLoop] = StopOut(p)]
    BY <1>17 DEF StopOutRound, Held
  <2>2. StopOut(p) \in Calls /\ StopOut(p).at = "queued"
    BY CallValues
  <2> QED
    BY <1>4, <2>1, <2>2 DEF Callers
<1>18. CASE Crash
  BY <1>18, CallValues, SetsStay DEF Crash, CallType
<1> QED
  BY <1>2, <1>6, <1>7, <1>8, <1>9, <1>11, <1>12, <1>13, <1>14, <1>15, <1>16, <1>17, <1>18,
  CallWriters DEF CallChange

\* The two loops keep their types.
LEMMA LoopsTypeStep == TypeOK /\ [Next]_vars => LoopsType'
<1> SUFFICES ASSUME TypeOK, [Next]_vars PROVE LoopsType'
  OBVIOUS
<1>1. MemoryType /\ LoopsType /\ CallType
  BY DEF TypeOK
<1>2. CASE UNCHANGED <<loops, under>>
  BY <1>1, <1>2, SetsStay DEF LoopsType, loops
<1>3. ASSUME UNCHANGED tick, stopper' \in [acct : SUBSET Accounts, skip : SUBSET Positions],
             under' \subseteq Accounts
      PROVE  LoopsType'
  BY <1>1, <1>3, SetsStay DEF LoopsType
<1>4. ASSUME NEW at \in {"idle", "walk", "claim"}, NEW rows,
             NEW pos \in Positions \cup {NoPosition},
             tick' = [at |-> at, rows |-> rows, pos |-> pos],
             DOMAIN rows \subseteq Positions, at = "claim" => pos \in DOMAIN rows,
             \A p \in DOMAIN rows : rows[p] \in BookRows,
             UNCHANGED <<stopper, under>>
      PROVE  LoopsType'
  BY <1>1, <1>4, SetsStay DEF LoopsType
<1>5. /\ tick = [at |-> tick.at, rows |-> tick.rows, pos |-> tick.pos]
      /\ DOMAIN tick.rows \subseteq Positions
      /\ \A p \in DOMAIN tick.rows : tick.rows[p] \in BookRows
      /\ stopper \in [acct : SUBSET Accounts, skip : SUBSET Positions] /\ under \subseteq Accounts
  BY <1>1 DEF LoopsType
<1>6. ASSUME tick' = IdleTick, UNCHANGED <<stopper, under>> PROVE LoopsType'
  <2> DEFINE none == [p \in {} |-> NotInBook]
  <2>1. tick' = [at |-> "idle", rows |-> none, pos |-> NoPosition] /\ DOMAIN none = {}
    BY <1>6 DEF IdleTick
  <2> HIDE DEF none
  <2> QED
    BY <1>4, <1>6, <2>1
<1>7. ASSUME NEW p, tick' = Rest(p), UNCHANGED <<stopper, under>> PROVE LoopsType'
  <2> DEFINE left == [q \in DOMAIN tick.rows \ {p} |-> tick.rows[q]]
  <2>1. tick' = [tick EXCEPT !.at = "walk", !.pos = NoPosition, !.rows = left]
    BY <1>7 DEF Rest
  <2>2. DOMAIN left \subseteq Positions /\ \A q \in DOMAIN left : left[q] \in BookRows
    BY <1>5
  <2> HIDE DEF left
  <2>3. tick' = [at |-> "walk", rows |-> left, pos |-> NoPosition]
    BY <1>5, <2>1
  <2> QED
    BY <1>4, <1>7, <2>2, <2>3
<1>8. ASSUME NEW x, NEW ps \in SUBSET Positions, Skips(x, ps)
      PROVE  stopper' \in [acct : SUBSET Accounts, skip : SUBSET Positions]
  BY <1>5, <1>8 DEF Skips
<1>9. ASSUME NEW x \in Callers, GivesUp(x) PROVE LoopsType'
  <2>1. call[x].list \in SUBSET Positions
    BY <1>1 DEF CallType, Calls
  <2> QED
    BY <1>3, <1>5, <1>8, <1>9, <2>1 DEF GivesUp
<1>10. ASSUME NEW x \in Callers, NEW p \in Positions, CloseFails(x, p) \/ CommitUnheard(x, p)
      PROVE  LoopsType'
  <2>1. {p} \in SUBSET Positions
    OBVIOUS
  <2> QED
    BY <1>3, <1>5, <1>8, <1>10, <2>1 DEF CloseFails, CommitUnheard
<1>11. CASE TickStart
  <2> DEFINE rows == [p \in {q \in Positions : Watched(q)} |-> book[p]]
  <2>1. DOMAIN rows \subseteq Positions /\ \A p \in DOMAIN rows : rows[p] \in BookRows
    BY <1>1 DEF MemoryType
  <2>2. tick' = [IdleTick EXCEPT !.at = "walk", !.rows = rows] /\ UNCHANGED <<stopper, under>>
    BY <1>11 DEF TickStart
  <2> HIDE DEF rows
  <2>3. tick' = [at |-> "walk", rows |-> rows, pos |-> NoPosition]
    BY <2>2 DEF IdleTick
  <2> QED
    BY <1>4, <2>1, <2>2, <2>3
<1>12. CASE TickWrite
  BY <1>7, <1>12 DEF TickWrite
<1>13. CASE TickAbort \/ TickUnheard \/ TickEnd
  BY <1>6, <1>13 DEF TickAbort, TickUnheard, TickEnd
<1>14. ASSUME NEW p \in Positions, TickRetry(p) \/ TickQuiet(p) PROVE LoopsType'
  BY <1>7, <1>14 DEF TickRetry, TickQuiet
<1>15. ASSUME NEW p \in Positions, TickTrigger(p) PROVE LoopsType'
  <2>1. tick' = [tick EXCEPT !.at = "claim", !.pos = p] /\ p \in DOMAIN tick.rows
        /\ UNCHANGED <<stopper, under>>
    BY <1>15 DEF TickTrigger
  <2>2. tick' = [at |-> "claim", rows |-> tick.rows, pos |-> p]
    BY <1>5, <2>1
  <2> QED
    BY <1>4, <1>5, <2>1, <2>2
<1>16. CASE StopOutAbort \/ \E a \in Accounts : StopOutEnd(a)
  BY <1>3, <1>5, <1>16 DEF StopOutAbort, StopOutEnd, IdleStopper
<1>17. ASSUME NEW a \in Accounts, StopOutVisit(a) PROVE LoopsType'
  BY <1>3, <1>5, <1>17 DEF StopOutVisit
<1>18. CASE MarketMoves
  BY <1>3, <1>5, <1>18 DEF MarketMoves, loops
<1>19. CASE Crash
  <2> DEFINE none == [p \in {} |-> NotInBook]
  <2>1. tick' = [at |-> "idle", rows |-> none, pos |-> NoPosition] /\ DOMAIN none = {}
    BY <1>19 DEF Crash, IdleTick
  <2>2. stopper' = [acct |-> {}, skip |-> {}] /\ UNCHANGED under
    BY <1>19 DEF Crash, IdleStopper
  <2> HIDE DEF none
  <2> QED
    BY <1>5, <2>1, <2>2, SetsStay DEF LoopsType
<1> QED
  BY <1>2, <1>9, <1>10, <1>11, <1>12, <1>13, <1>14, <1>15, <1>16, <1>17, <1>18, <1>19,
  LoopWriters DEF LoopStep

\* The handlers of the desk keep their types, and cover_more takes no more than it found.
LEMMA DeskTypeStep == TypeOK /\ [Next]_vars => DeskType'
<1> SUFFICES ASSUME TypeOK, [Next]_vars PROVE DeskType'
  OBVIOUS
<1>1. LedgerType /\ DeskType
  BY DEF TypeOK
<1>2. CASE UNCHANGED desk
  BY <1>1, <1>2, SetsStay DEF DeskType, desk
<1>3. 0 \in LevelsOr0 /\ 0 \in 0..Lots
  BY ClosingAssumption DEF LevelsOr0
<1>4. IdleEditor \in Edits /\ IdleEditor.at = "idle"
  BY <1>3 DEF IdleEditor, Edits
<1>5. /\ IdleCoverer \in Covers /\ IdleCoverer.at = "idle"
      /\ IdleCoverer.covered + IdleCoverer.lots <= IdleCoverer.volume
  BY <1>3 DEF IdleCoverer, Covers
<1>6. ASSUME NEW e \in Editors, NEW d \in Edits, d.at # "idle" => d.pos \in Positions,
             editor' = [editor EXCEPT ![e] = d], UNCHANGED <<coverer, placing>>
      PROVE  DeskType'
  BY <1>1, <1>6, SetsStay DEF DeskType
<1>7. ASSUME NEW c \in Coverers, NEW d \in Covers, d.at = "write" => d.pos \in Positions,
             d.covered + d.lots <= d.volume,
             coverer' = [coverer EXCEPT ![c] = d], UNCHANGED <<editor, placing>>
      PROVE  DeskType'
  BY <1>1, <1>7, SetsStay DEF DeskType
<1>8. ASSUME NEW e \in Editors, EditRead(e) PROVE DeskType'
  <2>1. PICK p \in Positions, l \in LevelsOr0 :
          editor' = [editor EXCEPT ![e] = [at |-> "write", pos |-> p, level |-> l]]
    BY <1>8 DEF EditRead, LevelsOr0
  <2>2. [at |-> "write", pos |-> p, level |-> l] \in Edits
    BY DEF Edits
  <2> QED
    BY <1>6, <1>8, <2>1, <2>2 DEF EditRead
<1>9. ASSUME NEW e \in Editors, EditWrite(e) PROVE DeskType'
  <2> DEFINE d == [editor[e] EXCEPT !.at = "book"]
  <2>1. editor[e] \in Edits /\ editor[e].pos \in Positions
    BY <1>1, <1>9 DEF EditWrite, DeskType
  <2>2. d \in Edits /\ d.pos \in Positions
    BY <2>1 DEF Edits
  <2>3. editor' = [editor EXCEPT ![e] = d] /\ UNCHANGED <<coverer, placing>>
    BY <1>1, <1>9 DEF EditWrite, DeskType
  <2> HIDE DEF d
  <2> QED
    BY <1>6, <2>2, <2>3
<1>10. ASSUME NEW e \in Editors, EditUnheard(e) \/ EditBook(e) PROVE DeskType'
  BY <1>4, <1>6, <1>10 DEF EditUnheard, EditBook
<1>11. ASSUME NEW c \in Coverers, CoverRead(c) PROVE DeskType'
  <2>1. PICK p \in Positions, n \in 1..Lots :
          /\ n <= row[p].volume - row[p].covered
          /\ coverer' = [coverer EXCEPT ![c] =
               [at |-> "write", pos |-> p, volume |-> row[p].volume,
                covered |-> row[p].covered, lots |-> n]]
    BY <1>11 DEF CoverRead
  <2> DEFINE d == [at |-> "write", pos |-> p, volume |-> row[p].volume,
                   covered |-> row[p].covered, lots |-> n]
  <2>2. row[p].volume \in 0..Lots /\ row[p].covered \in 0..Lots
    BY <1>1, RowFields DEF LedgerType
  <2>3. d \in Covers
    BY <2>2 DEF Covers
  <2>4. d.pos \in Positions /\ d.covered + d.lots <= d.volume
    BY <2>1, <2>2
  <2>5. UNCHANGED <<editor, placing>>
    BY <1>11 DEF CoverRead
  <2>6. coverer' = [coverer EXCEPT ![c] = d]
    BY <2>1
  <2> HIDE DEF d
  <2> QED
    BY <1>7, <2>3, <2>4, <2>5, <2>6
<1>12. ASSUME NEW c \in Coverers, CoverWrite(c) PROVE DeskType'
  BY <1>5, <1>7, <1>12 DEF CoverWrite
<1>13. ASSUME NEW p \in Positions, CoverOpen(p) PROVE DeskType'
  BY <1>1, <1>3, <1>13, SetsStay DEF CoverOpen, DeskType
<1>14. CASE Crash
  BY <1>3, <1>4, <1>5, <1>14, SetsStay DEF Crash, DeskType
<1> QED
  BY <1>2, <1>8, <1>9, <1>10, <1>11, <1>12, <1>13, <1>14, DeskWriters DEF DeskStep

\* The runs of the worker keep their types.
LEMMA WorkerTypeStep == TypeOK /\ [Next]_vars => WorkerType'
<1> SUFFICES ASSUME TypeOK, [Next]_vars PROVE WorkerType'
  OBVIOUS
<1>1. WorkerType
  BY DEF TypeOK
<1>2. CASE UNCHANGED worker
  BY <1>1, <1>2 DEF WorkerType, worker
<1>3. ASSUME NEW r \in Runs, SwapScan(r) PROVE WorkerType'
  <2> DEFINE todo == {p \in Positions : Open(p)}
  <2>1. /\ today \in 1..LastDay /\ today' \in today..LastDay
        /\ run' = [run EXCEPT ![r] = [at |-> "filter", day |-> today', todo |-> todo]]
    BY <1>1, <1>3 DEF SwapScan, WorkerType
  <2>2. today' \in 1..LastDay /\ today' \in 0..LastDay /\ today' # 0
    BY <2>1, ClosingAssumption
  <2> DEFINE set == [at : {"idle", "filter", "apply"}, day : 0..LastDay, todo : SUBSET Positions]
             c == [at |-> "filter", day |-> today', todo |-> todo]
  <2>3. c \in set /\ c.day # 0 /\ set' = set
    BY <2>2
  <2>4. run \in [Runs -> set] /\ run' = [run EXCEPT ![r] = c]
    BY <1>1, <2>1 DEF WorkerType
  <2> HIDE DEF c, set
  <2>5. run' \in [Runs -> set] /\ \A t \in Runs : run'[t] = run[t] \/ run'[t] = c
    BY <2>3, <2>4
  <2>6. \A t \in Runs : run'[t].at # "idle" => run'[t].day # 0
    BY <1>1, <2>3, <2>5 DEF WorkerType
  <2> QED
    BY <2>2, <2>5, <2>6 DEF WorkerType, set
<1>4. ASSUME NEW r \in Runs, SwapFilter(r) PROVE WorkerType'
  <2> DEFINE set == [at : {"idle", "filter", "apply"}, day : 0..LastDay, todo : SUBSET Positions]
             todo == {p \in run[r].todo : ~Swapped(p, run[r].day)}
             c == [run[r] EXCEPT !.at = "apply", !.todo = todo]
  <2>1. run \in [Runs -> set] /\ run' = [run EXCEPT ![r] = c] /\ run[r].day # 0
        /\ UNCHANGED today
    BY <1>1, <1>4 DEF SwapFilter, WorkerType
  <2>2. run[r] \in set /\ todo \in SUBSET Positions
    BY <2>1
  <2> HIDE DEF todo
  <2>3. c \in set /\ c.day # 0 /\ set' = set
    BY <2>1, <2>2
  <2> HIDE DEF c, set
  <2>4. run' \in [Runs -> set] /\ \A t \in Runs : run'[t] = run[t] \/ run'[t] = c
    BY <2>1, <2>3
  <2>5. \A t \in Runs : run'[t].at # "idle" => run'[t].day # 0
    BY <1>1, <2>3, <2>4 DEF WorkerType
  <2> QED
    BY <1>1, <2>1, <2>4, <2>5 DEF WorkerType, set
<1>5. ASSUME NEW r \in Runs, NEW p \in Positions, SwapApply(r, p) PROVE WorkerType'
  BY <1>1, <1>5 DEF SwapApply, WorkerType
<1>6. ASSUME NEW r \in Runs, SwapEnd(r) PROVE WorkerType'
  BY <1>1, <1>6, ClosingAssumption DEF SwapEnd, WorkerType, IdleRun
<1> QED
  BY <1>2, <1>3, <1>4, <1>5, <1>6, WorkerWriters DEF WorkerStep

\* What is counted, and the history.
SpentStep ==
  /\ UNCHANGED ops \/ Asked
  /\ UNCHANGED faults \/ Fault
  /\ UNCHANGED crashes \/ (crashes < MaxCrashes /\ crashes' = crashes + 1)

\* Who uses up the bounds.
LEMMA SpentWriters == [Next]_vars => SpentStep
<1> SUFFICES ASSUME [Next]_vars PROVE SpentStep
  OBVIOUS
<1> USE DEF SpentStep, spent
<1>1. ASSUME NEW x \in Callers, CallStep(x) PROVE SpentStep
  BY <1>1 DEF CallStep, CallProceeds, Enter, GivesUp, CloseFails, Commit, CommitUnheard, Tell
<1>2. ASSUME NEW x \in Requests, ClosePosition(x) \/ CloseAll(x) \/ HangsUp(x) PROVE SpentStep
  BY <1>2 DEF ClosePosition, CloseAll, HangsUp
<1>3. CASE TickStep
  BY <1>3 DEF TickStep, TickProceeds, TickStart, TickRetry, TickQuiet, TickTrigger, TickWrite,
      TickAbort, TickUnheard, TickEnd
<1>4. ASSUME NEW p \in Positions, DeadlinePasses(p) \/ TaskWakes(p) \/ CoverOpen(p)
      PROVE  SpentStep
  BY <1>4 DEF DeadlinePasses, TaskWakes, CoverOpen
<1>5. CASE StopOutStep \/ MarketMoves
  BY <1>5 DEF StopOutStep, StopOutVisit, StopOutRound, StopOutEnd, StopOutAbort, MarketMoves
<1>6. ASSUME NEW e \in Editors, EditRead(e) \/ EditWrite(e) \/ EditUnheard(e) \/ EditBook(e)
      PROVE  SpentStep
  BY <1>6 DEF EditRead, EditWrite, EditUnheard, EditBook
<1>7. ASSUME NEW c \in Coverers, CoverRead(c) \/ CoverWrite(c) PROVE SpentStep
  BY <1>7 DEF CoverRead, CoverWrite
<1>8. ASSUME NEW r \in Runs, SwapStep(r) PROVE SpentStep
  BY <1>8 DEF SwapStep, SwapScan, SwapFilter, SwapApply, SwapEnd
<1>9. CASE Crash \/ Hydrate
  BY <1>9 DEF Crash, Hydrate
<1>10. CASE UNCHANGED vars
  BY <1>10 DEF vars
<1> QED
  BY <1>1, <1>2, <1>3, <1>4, <1>5, <1>6, <1>7, <1>8, <1>9, <1>10 DEF Next

\* The actions that write the history.
HistoryStep ==
  \/ \E x \in Callers : Tell(x)
  \/ \E x \in Callers, p \in Positions : CommitUnheard(x, p)
  \/ TickStart \/ Crash
  \/ \E e \in Editors : EditWrite(e) \/ EditUnheard(e) \/ EditBook(e)
  \/ \E c \in Coverers : CoverWrite(c)

\* Who writes the history.
LEMMA HistoryWriters == [Next]_vars => UNCHANGED history \/ HistoryStep
<1> SUFFICES ASSUME [Next]_vars PROVE UNCHANGED history \/ HistoryStep
  OBVIOUS
<1> USE DEF HistoryStep
<1>1. ASSUME NEW x \in Callers, CallStep(x) PROVE UNCHANGED history \/ HistoryStep
  BY <1>1 DEF CallStep, CallProceeds, Enter, GivesUp, CloseFails, Commit
<1>2. ASSUME NEW x \in Requests, ClosePosition(x) \/ CloseAll(x) \/ HangsUp(x)
      PROVE  UNCHANGED history
  BY <1>2 DEF ClosePosition, CloseAll, HangsUp
<1>3. CASE TickStep
  BY <1>3 DEF TickStep, TickProceeds, TickRetry, TickQuiet, TickTrigger, TickWrite,
      TickAbort, TickUnheard, TickEnd
<1>4. ASSUME NEW p \in Positions, DeadlinePasses(p) \/ TaskWakes(p) \/ CoverOpen(p)
      PROVE  UNCHANGED history
  BY <1>4 DEF DeadlinePasses, TaskWakes, CoverOpen
<1>5. CASE StopOutStep \/ MarketMoves
  BY <1>5 DEF StopOutStep, StopOutVisit, StopOutRound, StopOutEnd, StopOutAbort, MarketMoves
<1>6. ASSUME NEW e \in Editors, EditRead(e) \/ EditWrite(e) \/ EditUnheard(e) \/ EditBook(e)
      PROVE  UNCHANGED history \/ HistoryStep
  BY <1>6 DEF EditRead
<1>7. ASSUME NEW c \in Coverers, CoverRead(c) \/ CoverWrite(c)
      PROVE  UNCHANGED history \/ HistoryStep
  BY <1>7 DEF CoverRead
<1>8. ASSUME NEW r \in Runs, SwapStep(r) PROVE UNCHANGED history
  BY <1>8 DEF SwapStep, SwapScan, SwapFilter, SwapApply, SwapEnd
<1>9. CASE Crash \/ Hydrate
  BY <1>9 DEF Hydrate
<1>10. CASE UNCHANGED vars
  BY <1>10 DEF vars
<1> QED
  BY <1>1, <1>2, <1>3, <1>4, <1>5, <1>6, <1>7, <1>8, <1>9, <1>10 DEF Next

\* The bounds hold and the history keeps its types.
LEMMA SpentTypeStep == TypeOK /\ [Next]_vars => SpentType'
<1> SUFFICES ASSUME TypeOK, [Next]_vars PROVE SpentType'
  OBVIOUS
<1>1. SpentType /\ DeskType /\ CallType
  BY DEF TypeOK
<1>2. ops' \in 0..MaxOps /\ crashes' \in 0..MaxCrashes /\ faults' \in 0..MaxFaults
  BY <1>1, SpentWriters, ClosingAssumption DEF SpentType, SpentStep, Asked, Fault
<1> DEFINE Kept == /\ lost \in [Positions -> SUBSET {"partial", "restart", "unheard"}]
                   /\ stale \subseteq Positions /\ crossed \subseteq Positions
                   /\ mixed \subseteq Positions
<1>3. Kept
  BY <1>1 DEF SpentType
<1>4. ASSUME UNCHANGED history PROVE Kept'
  BY <1>3, <1>4 DEF history
<1>5. ASSUME NEW x \in Callers, Tell(x) PROVE Kept'
  BY <1>3, <1>5 DEF Tell
<1>6. ASSUME NEW x \in Callers, NEW p \in Positions, CommitUnheard(x, p) PROVE Kept'
  BY <1>3, <1>6 DEF CommitUnheard
<1>7. ASSUME TickStart PROVE Kept'
  BY <1>3, <1>7 DEF TickStart
<1>8. ASSUME Crash PROVE Kept'
  BY <1>3, <1>8 DEF Crash
<1>9. ASSUME NEW e \in Editors, EditWrite(e) \/ EditUnheard(e) \/ EditBook(e) PROVE Kept'
  BY <1>1, <1>3, <1>9 DEF EditWrite, EditUnheard, EditBook, DeskType
<1>10. ASSUME NEW c \in Coverers, CoverWrite(c) PROVE Kept'
  BY <1>1, <1>3, <1>10 DEF CoverWrite, DeskType
<1>11. Kept'
  BY <1>4, <1>5, <1>6, <1>7, <1>8, <1>9, <1>10, HistoryWriters DEF HistoryStep
<1> QED
  BY <1>2, <1>11 DEF SpentType

\* The initial states have the types.
LEMMA InitType == Init => TypeOK
<1> SUFFICES ASSUME Init PROVE TypeOK
  OBVIOUS
<1>1. 0 \in LevelsOr0 /\ 0 \in 0..Lots /\ Lots \in 0..Lots /\ Covered \in 0..Lots
  BY ClosingAssumption DEF LevelsOr0
<1>2. PICK level \in Levels :
        /\ row = [p \in Positions |-> [volume |-> Lots, covered |-> Covered, swap |-> 0,
                                       claim |-> FALSE, level |-> level]]
        /\ book = [p \in Positions |-> [volume |-> Lots, claim |-> FALSE, level |-> level]]
  BY DEF Init
<1>3. level \in LevelsOr0
  BY DEF LevelsOr0
<1>4. LedgerType
  <2>1. row \in [Positions -> Rows]
    BY <1>1, <1>2, <1>3 DEF Rows
  <2>2. marks = [p \in Positions |-> [d \in 1..LastDay |-> 0]]
    BY DEF Init
  <2>3. marks \in [Positions -> [1..LastDay -> Nat]]
    BY <2>2
  <2>4. /\ closed \in [Positions -> Nat] /\ realised \in [Positions -> Int]
        /\ accrued \in [Positions -> Int]
    BY DEF Init
  <2> QED
    BY <2>1, <2>3, <2>4 DEF LedgerType
<1>5. MemoryType
  <2>1. book \in [Positions -> BookRows]
    BY <1>1, <1>2, <1>3 DEF BookRows
  <2> QED
    BY <2>1, ClaimValues DEF Init, MemoryType
<1>6. CallType
  BY CallValues DEF Init, CallType
<1>7. LoopsType
  <2> DEFINE none == [p \in {} |-> NotInBook]
  <2>1. tick = [at |-> "idle", rows |-> none, pos |-> NoPosition] /\ DOMAIN none = {}
    BY DEF Init, IdleTick
  <2>2. stopper = [acct |-> {}, skip |-> {}] /\ under \subseteq Accounts
    BY DEF Init, IdleStopper
  <2> HIDE DEF none
  <2> QED
    BY <2>1, <2>2 DEF LoopsType
<1>8. DeskType
  <2>1. IdleEditor \in Edits /\ IdleEditor.at = "idle"
    BY <1>1 DEF IdleEditor, Edits
  <2>2. /\ IdleCoverer \in Covers /\ IdleCoverer.at = "idle"
        /\ IdleCoverer.covered + IdleCoverer.lots <= IdleCoverer.volume
    BY <1>1 DEF IdleCoverer, Covers
  <2> QED
    BY <1>1, <2>1, <2>2 DEF Init, DeskType
<1>9. WorkerType
  BY ClosingAssumption DEF Init, WorkerType, IdleRun
<1>10. SpentType
  BY ClosingAssumption DEF Init, SpentType
<1> QED
  BY <1>4, <1>5, <1>6, <1>7, <1>8, <1>9, <1>10 DEF TypeOK

\* Whatever the requests, loops, handlers and runs do, every variable keeps its type.
THEOREM TypeCorrect == Spec => []TypeOK
<1>1. TypeOK /\ [Next]_vars => TypeOK'
  BY LedgerTypeStep, MemoryTypeStep, CallTypeStep, LoopsTypeStep, DeskTypeStep, WorkerTypeStep,
     SpentTypeStep DEF TypeOK
<1> QED
  BY InitType, <1>1, PTL DEF Spec

-----------------------------------------------------------------------------
(* The tables                                                               *)

\* A step commits a close of one position, charges its swap, or leaves every volume, every
\* swap and every deal alone.
Closes(p, vol) == p \in Positions /\ vol \in 1..Lots /\ Open(p) /\ vol <= row[p].volume
                  /\ CloseTx(p, vol)
CommitsAs(x, p) == /\ Commit(x, p) \/ CommitUnheard(x, p)
                   /\ Closes(p, CloseVolume(x, p)) /\ CloseVolume(x, p) \in 1..Lots
Charges(r, p) == /\ SwapApply(r, p) /\ Open(p) /\ ~Swapped(p, run[r].day)
                 /\ run[r].day \in 1..LastDay
KeepsMoney ==
  /\ \A p \in Positions : row'[p].volume = row[p].volume /\ row'[p].swap = row[p].swap
  /\ UNCHANGED <<closed, realised, accrued, marks>>

\* The steps that change what is open, closed, charged or realised of a position.
LEMMA MoneyStepBy ==
  ASSUME TypeOK, [Next]_vars
  PROVE  \/ \E x \in Callers, p \in Positions : CommitsAs(x, p)
         \/ \E r \in Runs, p \in Positions : Charges(r, p)
         \/ KeepsMoney
<1> DEFINE Goal == \/ \E x \in Callers, p \in Positions : CommitsAs(x, p)
                   \/ \E r \in Runs, p \in Positions : Charges(r, p)
                   \/ KeepsMoney
<1>1. LedgerType /\ CallType /\ LoopsType /\ DeskType /\ WorkerType
  BY DEF TypeOK
<1>2. row \in [Positions -> Rows]
  BY <1>1 DEF LedgerType
<1>3. CASE UNCHANGED ledger
  BY <1>3 DEF ledger, KeepsMoney
<1>4. ASSUME NEW x \in Callers, NEW p \in Positions, Commit(x, p) \/ CommitUnheard(x, p)
      PROVE  Goal
  <2>1. CommitsAs(x, p)
    BY <1>1, <1>4, CloseVolumeFits DEF CommitsAs, Commit, CommitUnheard, Closes
  <2> QED
    BY <2>1
<1>5. ASSUME NEW p \in Positions, NEW r, row' = [row EXCEPT ![p] = r],
             r.volume = row[p].volume, r.swap = row[p].swap,
             UNCHANGED <<closed, realised, accrued, marks>>
      PROVE  KeepsMoney
  BY <1>2, <1>5 DEF KeepsMoney
<1>6. \A r \in Rows : /\ \A l : [r EXCEPT !.level = l].volume = r.volume
                                /\ [r EXCEPT !.level = l].swap = r.swap
                      /\ \A c : [r EXCEPT !.claim = c].volume = r.volume
                                /\ [r EXCEPT !.claim = c].swap = r.swap
                      /\ \A n : [r EXCEPT !.covered = n].volume = r.volume
                                /\ [r EXCEPT !.covered = n].swap = r.swap
  BY DEF Rows
<1>7. CASE TickWrite \/ TickUnheard
  <2> DEFINE p == tick.pos  r == [row[p] EXCEPT !.claim = TRUE]
  <2>1. p \in Positions
    BY <1>1, <1>7 DEF TickWrite, TickUnheard, LoopsType
  <2>2. /\ UNCHANGED row \/ row' = [row EXCEPT ![p] = r]
        /\ UNCHANGED <<closed, realised, accrued, marks>>
    BY <1>2, <1>7, <2>1 DEF TickWrite, TickUnheard
  <2>3. r.volume = row[p].volume /\ r.swap = row[p].swap
    BY <1>2, <1>6, <2>1
  <2> HIDE DEF p, r
  <2>4. CASE UNCHANGED row
    BY <2>2, <2>4 DEF KeepsMoney
  <2> QED
    BY <1>5, <2>1, <2>2, <2>3, <2>4
<1>8. ASSUME NEW p \in Positions, CoverOpen(p) PROVE KeepsMoney
  <2> DEFINE k == IF ~Open(p) THEN row[p].covered
                  ELSE IF row[p].covered > placing[p] THEN row[p].covered - placing[p] ELSE 0
             r == [row[p] EXCEPT !.covered = k]
  <2>1. /\ UNCHANGED row \/ row' = [row EXCEPT ![p] = r]
        /\ UNCHANGED <<closed, realised, accrued, marks>>
    BY <1>2, <1>8 DEF CoverOpen
  <2> HIDE DEF k
  <2>2. r.volume = row[p].volume /\ r.swap = row[p].swap
    BY <1>2, <1>6
  <2> HIDE DEF r
  <2>3. CASE UNCHANGED row
    BY <2>1, <2>3 DEF KeepsMoney
  <2> QED
    BY <1>5, <2>1, <2>2, <2>3
<1>9. ASSUME NEW e \in Editors, LevelWritten(e) PROVE KeepsMoney
  <2> DEFINE p == editor[e].pos  r == [row[p] EXCEPT !.level = editor[e].level]
  <2>1. p \in Positions
    BY <1>1, <1>9 DEF LevelWritten, DeskType
  <2>2. row' = [row EXCEPT ![p] = r] /\ UNCHANGED <<closed, realised, accrued, marks>>
    BY <1>2, <1>9, <2>1 DEF LevelWritten
  <2>3. r.volume = row[p].volume /\ r.swap = row[p].swap
    BY <1>2, <1>6, <2>1
  <2> HIDE DEF p, r
  <2> QED
    BY <1>5, <2>1, <2>2, <2>3
<1>10. ASSUME NEW c \in Coverers, CoverWrite(c) PROVE KeepsMoney
  <2> DEFINE p == coverer[c].pos
             r == [row[p] EXCEPT !.covered = coverer[c].covered + coverer[c].lots]
  <2>1. p \in Positions
    BY <1>1, <1>10 DEF CoverWrite, DeskType
  <2>2. row' = [row EXCEPT ![p] = r] /\ UNCHANGED <<closed, realised, accrued, marks>>
    BY <1>2, <1>10, <2>1 DEF CoverWrite
  <2>3. r.volume = row[p].volume /\ r.swap = row[p].swap
    BY <1>2, <1>6, <2>1
  <2> HIDE DEF p, r
  <2> QED
    BY <1>5, <2>1, <2>2, <2>3
<1>11. ASSUME NEW r \in Runs, NEW p \in Positions, SwapApply(r, p) PROVE Goal
  <2>1. CASE Swapped(p, run[r].day) \/ ~Open(p)
    BY <1>11, <2>1 DEF SwapApply, ledger, KeepsMoney
  <2>2. CASE ~(Swapped(p, run[r].day) \/ ~Open(p))
    <3>1. run[r].day \in 1..LastDay
      BY <1>1, <1>11 DEF SwapApply, WorkerType
    <3>2. Charges(r, p)
      BY <1>11, <2>2, <3>1 DEF Charges
    <3> QED
      BY <3>2
  <2> QED
    BY <2>1, <2>2
<1> QED
  BY <1>3, <1>4, <1>7, <1>8, <1>9, <1>10, <1>11, LedgerWriters DEF LedgerStep

\* Each step is one of those or leaves these numbers alone.
LEMMA MoneyStep ==
  ASSUME TypeOK, [Next]_vars
  PROVE  \/ \E p \in Positions, vol \in 1..Lots : Closes(p, vol)
         \/ \E r \in Runs, p \in Positions : Charges(r, p)
         \/ KeepsMoney
BY MoneyStepBy DEF CommitsAs

\* What a close does to the numbers of its position, and that it does nothing to the others.
LEMMA CloseEffect ==
  ASSUME LedgerType, NEW p \in Positions, NEW vol \in 1..Lots, Closes(p, vol)
  PROVE  /\ row[p].volume \in 1..Lots /\ row[p].swap \in Int /\ RealisedSwap(p, vol) \in Int
         /\ row'[p].volume = row[p].volume - vol
         /\ closed'[p] = closed[p] + vol
         /\ realised'[p] = realised[p] + RealisedSwap(p, vol)
         /\ vol = row[p].volume => RealisedSwap(p, vol) = row[p].swap
         /\ vol # row[p].volume =>
              /\ row'[p].swap = row[p].swap - RealisedSwap(p, vol)
              /\ row'[p].covered = row[p].covered - CoverToClose(p, vol)
         /\ UNCHANGED <<accrued, marks>>
         /\ \A q \in Positions \ {p} : /\ row'[q] = row[q] /\ closed'[q] = closed[q]
                                       /\ realised'[q] = realised[q]
<1>1. row \in [Positions -> Rows] /\ row[p] \in Rows
  BY DEF LedgerType
<1>2. row[p].volume \in 1..Lots /\ row[p].swap \in Int /\ vol <= row[p].volume
  BY <1>1, RowFields DEF Closes, Open
<1>3. RealisedSwap(p, vol) \in Int
  BY RealisedSwapInt DEF Closes
<1>4. row' = [row EXCEPT ![p] = AfterClose(p, vol)]
  BY DEF Closes, CloseTx
<1>5. row'[p] = AfterClose(p, vol) /\ \A q \in Positions \ {p} : row'[q] = row[q]
  BY <1>1, <1>4
<1>6. CASE vol = row[p].volume
  <2>1. vol >= row[p].volume
    BY <1>2, <1>6
  <2>2. AfterClose(p, vol) = [row[p] EXCEPT !.volume = 0, !.covered = 0]
    BY <2>1, Zenon DEF AfterClose
  <2>3. AfterClose(p, vol).volume = 0
    BY <1>1, <2>2 DEF Rows
  <2>4. RealisedSwap(p, vol) = row[p].swap
    BY <2>1 DEF RealisedSwap
  <2> QED
    BY <1>2, <1>3, <1>5, <1>6, <2>3, <2>4 DEF Closes, CloseTx, LedgerType
<1>7. CASE vol # row[p].volume
  <2> DEFINE n == row[p].volume - vol  k == row[p].covered - CoverToClose(p, vol)
             s == row[p].swap - RealisedSwap(p, vol)
  <2>1. ~(vol >= row[p].volume)
    BY <1>2, <1>7
  <2>2. AfterClose(p, vol) = [row[p] EXCEPT !.volume = n, !.covered = k, !.swap = s]
    <3>1. AfterClose(p, vol) =
            IF vol >= row[p].volume
              THEN [row[p] EXCEPT !.volume = 0, !.covered = 0]
              ELSE [row[p] EXCEPT !.volume = n, !.covered = k, !.swap = s]
      BY Zenon DEF AfterClose
    <3> HIDE DEF n, k, s
    <3> QED
      BY <2>1, <3>1
  <2> HIDE DEF n, k, s
  <2>3. /\ AfterClose(p, vol).volume = n /\ AfterClose(p, vol).covered = k
        /\ AfterClose(p, vol).swap = s
    BY <1>1, <2>2 DEF Rows
  <2>4. row'[p].volume = n /\ row'[p].covered = k /\ row'[p].swap = s
    BY <1>5, <2>3
  <2> QED
    BY <1>2, <1>3, <1>5, <1>7, <2>4 DEF Closes, CloseTx, LedgerType, n, k, s
<1> QED
  BY <1>6, <1>7

\* A charge puts the night's swap on the row and on a deal of its own.
LEMMA ChargeEffect ==
  ASSUME LedgerType, NEW r \in Runs, NEW p \in Positions, Charges(r, p)
  PROVE  /\ row'[p].volume = row[p].volume /\ row'[p].covered = row[p].covered
         /\ row'[p].swap = row[p].swap + row[p].volume
         /\ accrued'[p] = accrued[p] + row[p].volume
         /\ marks'[p][run[r].day] = marks[p][run[r].day] + 1
         /\ \A d \in 1..LastDay \ {run[r].day} : marks'[p][d] = marks[p][d]
         /\ UNCHANGED <<closed, realised>>
         /\ \A q \in Positions \ {p} : /\ row'[q] = row[q] /\ accrued'[q] = accrued[q]
                                       /\ marks'[q] = marks[q]
<1> DEFINE s == row[p].swap + row[p].volume  d == run[r].day
<1>1. row \in [Positions -> Rows] /\ row[p] \in Rows
  BY DEF LedgerType
<1>2. /\ row' = [row EXCEPT ![p] = [row[p] EXCEPT !.swap = s]]
      /\ accrued' = [accrued EXCEPT ![p] = accrued[p] + row[p].volume]
      /\ marks' = [marks EXCEPT ![p] = [marks[p] EXCEPT ![d] = marks[p][d] + 1]]
      /\ UNCHANGED <<closed, realised>>
  BY <1>1 DEF Charges, SwapApply
<1>3. d \in 1..LastDay
  BY DEF Charges
<1> HIDE DEF d
<1>4. row'[p] = [row[p] EXCEPT !.swap = s] /\ \A q \in Positions \ {p} : row'[q] = row[q]
  BY <1>1, <1>2
<1>5. row'[p].volume = row[p].volume /\ row'[p].covered = row[p].covered /\ row'[p].swap = s
  BY <1>1, <1>4 DEF Rows
<1>6. marks \in [Positions -> [1..LastDay -> Nat]] /\ accrued \in [Positions -> Int]
  BY DEF LedgerType
<1>7. /\ marks'[p] = [marks[p] EXCEPT ![d] = marks[p][d] + 1]
      /\ \A q \in Positions \ {p} : marks'[q] = marks[q]
  BY <1>2, <1>6
<1>8. marks'[p][d] = marks[p][d] + 1 /\ \A e \in 1..LastDay \ {d} : marks'[p][e] = marks[p][e]
  BY <1>3, <1>6, <1>7
<1> QED
  BY <1>2, <1>4, <1>5, <1>6, <1>7, <1>8 DEF d

\* At the start nothing is closed and nothing charged.
LEMMA InitTables == Init => /\ ClosedForItsVolume /\ ChargedOncePerDay /\ SwapIsRealised
                            /\ CoveredWithinVolume
<1> SUFFICES ASSUME Init
             PROVE  ClosedForItsVolume /\ ChargedOncePerDay /\ SwapIsRealised
                    /\ CoveredWithinVolume
  OBVIOUS
<1>1. \A p \in Positions : row[p].volume = Lots /\ row[p].covered = Covered /\ row[p].swap = 0
  BY DEF Init
<1>2. \A p \in Positions : closed[p] = 0 /\ realised[p] = 0 /\ accrued[p] = 0
  BY DEF Init
<1>3. \A p \in Positions, d \in 1..LastDay : marks[p][d] = 0
  BY DEF Init
<1> QED
  BY <1>1, <1>2, <1>3, ClosingAssumption
  DEF ClosedForItsVolume, ChargedOncePerDay, SwapIsRealised, CoveredWithinVolume

\* The deals of a position add up to the lots it has lost, over every interleaving of requests,
\* tasks, loops, crashes and lost answers.
THEOREM ClosesForItsVolume == Spec => []ClosedForItsVolume
<1>1. TypeOK /\ ClosedForItsVolume /\ [Next]_vars => ClosedForItsVolume'
  <2> SUFFICES ASSUME TypeOK, ClosedForItsVolume, [Next]_vars, NEW q \in Positions
               PROVE  closed'[q] + row'[q].volume = Lots
    BY DEF ClosedForItsVolume
  <2>1. LedgerType /\ closed[q] + row[q].volume = Lots
    BY DEF TypeOK, ClosedForItsVolume
  <2>2. closed[q] \in Nat /\ row[q].volume \in Int /\ Lots \in Nat
    BY <2>1, RowFields, ClosingAssumption DEF LedgerType
  <2>3. ASSUME NEW p \in Positions, NEW vol \in 1..Lots, Closes(p, vol)
        PROVE  closed'[q] + row'[q].volume = Lots
    BY <2>1, <2>2, <2>3, CloseEffect
  <2>4. ASSUME NEW r \in Runs, NEW p \in Positions, Charges(r, p)
        PROVE  closed'[q] + row'[q].volume = Lots
    BY <2>1, <2>4, ChargeEffect
  <2>5. CASE KeepsMoney
    BY <2>1, <2>5 DEF KeepsMoney
  <2> QED
    BY <2>3, <2>4, <2>5, MoneyStep
<1> QED
  BY InitTables, <1>1, TypeCorrect, PTL DEF Spec

\* Overlapping runs of the worker charge a position at most once for a day.
THEOREM ChargesOnceADay == Spec => []ChargedOncePerDay
<1>1. TypeOK /\ ChargedOncePerDay /\ [Next]_vars => ChargedOncePerDay'
  <2> SUFFICES ASSUME TypeOK, ChargedOncePerDay, [Next]_vars,
                      NEW q \in Positions, NEW e \in 1..LastDay
               PROVE  marks'[q][e] <= 1
    BY DEF ChargedOncePerDay
  <2>1. LedgerType /\ marks[q][e] <= 1 /\ marks[q][e] \in Nat
    <3>1. LedgerType /\ marks[q][e] <= 1
      BY DEF TypeOK, ChargedOncePerDay
    <3>2. marks[q] \in [1..LastDay -> Nat]
      BY <3>1 DEF LedgerType
    <3> QED
      BY <3>1, <3>2
  <2>2. ASSUME NEW p \in Positions, NEW vol \in 1..Lots, Closes(p, vol)
        PROVE  marks'[q][e] <= 1
    BY <2>1, <2>2, CloseEffect
  <2>3. ASSUME NEW r \in Runs, NEW p \in Positions, Charges(r, p)
        PROVE  marks'[q][e] <= 1
    <3>1. CASE q = p /\ e = run[r].day
      <4>1. e \in e..LastDay
        OBVIOUS
      <4>2. ~(marks[p][e] > 0)
        BY <2>3, <3>1, <4>1 DEF Charges, Swapped
      <4> QED
        BY <2>1, <2>3, <3>1, <4>2, ChargeEffect
    <3>2. CASE q = p /\ e # run[r].day
      BY <2>1, <2>3, <3>2, ChargeEffect
    <3>3. CASE q # p
      BY <2>1, <2>3, <3>3, ChargeEffect
    <3> QED
      BY <3>1, <3>2, <3>3
  <2>4. CASE KeepsMoney
    BY <2>1, <2>4 DEF KeepsMoney
  <2> QED
    BY <2>2, <2>3, <2>4, MoneyStep
<1> QED
  BY InitTables, <1>1, TypeCorrect, PTL DEF Spec

\* No part of the swap that the worker charges is realised twice or lost by the engine's closes.
THEOREM SwapReachesTheDeals == Spec => []SwapIsRealised
<1>1. TypeOK /\ SwapIsRealised /\ [Next]_vars => SwapIsRealised'
  <2> SUFFICES ASSUME TypeOK, SwapIsRealised, [Next]_vars, NEW q \in Positions
               PROVE  accrued'[q] = realised'[q] + (IF row'[q].volume > 0 THEN row'[q].swap ELSE 0)
    BY DEF SwapIsRealised, Open
  <2>1. LedgerType /\ accrued[q] = realised[q] + (IF row[q].volume > 0 THEN row[q].swap ELSE 0)
    BY DEF TypeOK, SwapIsRealised, Open
  <2>2. /\ accrued[q] \in Int /\ realised[q] \in Int
        /\ row[q].swap \in Int /\ row[q].volume \in Int
    BY <2>1, RowFields DEF LedgerType
  <2>3. ASSUME NEW p \in Positions, NEW vol \in 1..Lots, Closes(p, vol)
        PROVE  accrued'[q] = realised'[q] + (IF row'[q].volume > 0 THEN row'[q].swap ELSE 0)
    <3>1. vol <= row[p].volume
      BY <2>3 DEF Closes
    <3>2. CASE q = p /\ vol = row[p].volume
      BY <2>1, <2>2, <2>3, <3>2, CloseEffect
    <3>3. CASE q = p /\ vol # row[p].volume
      BY <2>1, <2>2, <2>3, <3>1, <3>3, CloseEffect
    <3>4. CASE q # p
      BY <2>1, <2>3, <3>4, CloseEffect
    <3> QED
      BY <3>2, <3>3, <3>4
  <2>4. ASSUME NEW r \in Runs, NEW p \in Positions, Charges(r, p)
        PROVE  accrued'[q] = realised'[q] + (IF row'[q].volume > 0 THEN row'[q].swap ELSE 0)
    <3>1. row[p].volume > 0
      BY <2>4 DEF Charges, Open
    <3>2. CASE q = p
      BY <2>1, <2>2, <2>4, <3>1, <3>2, ChargeEffect
    <3>3. CASE q # p
      BY <2>1, <2>4, <3>3, ChargeEffect
    <3> QED
      BY <3>2, <3>3
  <2>5. CASE KeepsMoney
    BY <2>1, <2>5 DEF KeepsMoney
  <2> QED
    BY <2>3, <2>4, <2>5, MoneyStep
<1> QED
  BY InitTables, <1>1, TypeCorrect, PTL DEF Spec

\* A position written on an old read stays one.
LEMMA CrossedGrows == [Next]_vars => crossed \subseteq crossed'
<1>1. ASSUME \/ \E x \in Callers : Tell(x)
             \/ \E x \in Callers, p \in Positions : CommitUnheard(x, p)
             \/ TickStart \/ Crash \/ UNCHANGED history
             \/ \E e \in Editors : EditWrite(e) \/ EditUnheard(e) \/ EditBook(e)
      PROVE  UNCHANGED crossed
  BY <1>1 DEF history, Tell, CommitUnheard, TickStart, Crash, EditWrite, EditUnheard, EditBook
<1>2. ASSUME NEW c \in Coverers, CoverWrite(c) PROVE crossed \subseteq crossed'
  BY <1>2 DEF CoverWrite
<1> QED
  BY <1>1, <1>2, HistoryWriters DEF HistoryStep

\* The rounding of a partial close and the capped release of a failed cover keep the covered lots
\* within the open ones; only cover_more on an old read can break it.
THEOREM CoversWithinVolume == Spec => []CoveredWithinVolume
<1>1. TypeOK /\ CoveredWithinVolume /\ [Next]_vars => CoveredWithinVolume'
  <2> SUFFICES ASSUME TypeOK, CoveredWithinVolume, [Next]_vars, NEW q \in Positions,
                      row'[q].volume > 0, q \notin crossed'
               PROVE  row'[q].covered <= row'[q].volume
    BY DEF CoveredWithinVolume, Open
  <2>1. LedgerType /\ CallType /\ LoopsType /\ DeskType
    BY DEF TypeOK
  <2>2. row \in [Positions -> Rows]
    BY <2>1 DEF LedgerType
  <2>3. /\ row[q].volume \in 0..Lots /\ row[q].covered \in 0..Lots
        /\ row[q].volume > 0 => row[q].covered <= row[q].volume
    BY <2>2, RowFields, CrossedGrows DEF CoveredWithinVolume, Open
  <2>4. CASE UNCHANGED ledger
    BY <2>3, <2>4 DEF ledger
  <2>5. ASSUME NEW x \in Callers, NEW p \in Positions, Commit(x, p) \/ CommitUnheard(x, p)
        PROVE  row'[q].covered <= row'[q].volume
    <3> DEFINE vol == CloseVolume(x, p)
    <3>1. Closes(p, vol) /\ vol \in 1..Lots
      BY <2>1, <2>5, CloseVolumeFits DEF Commit, CommitUnheard, Closes
    <3> HIDE DEF vol
    <3>2. CASE q # p
      BY <2>1, <2>3, <3>1, <3>2, CloseEffect
    <3>3. CASE q = p
      <4>1. /\ CoverToClose(p, vol) \in 0..row[p].covered
            /\ row[p].covered - CoverToClose(p, vol) <= row[p].volume - vol
        BY <2>1, <2>3, <3>1, <3>3, CoverShare DEF Closes, Open
      <4>2. row'[p].volume = row[p].volume - vol
        BY <2>1, <3>1, CloseEffect
      <4>3. vol # row[p].volume
        BY <2>3, <3>1, <3>3, <4>2
      <4>4. row'[p].covered = row[p].covered - CoverToClose(p, vol)
        BY <2>1, <3>1, <4>3, CloseEffect
      <4> QED
        BY <3>3, <4>1, <4>2, <4>4
    <3> QED
      BY <3>2, <3>3
  <2>6. CASE TickWrite \/ TickUnheard
    <3>1. tick.pos \in Positions
      BY <2>1, <2>6 DEF TickWrite, TickUnheard, LoopsType
    <3>2. UNCHANGED row \/ row' = [row EXCEPT ![tick.pos] = [row[tick.pos] EXCEPT !.claim = TRUE]]
      BY <2>2, <2>6, <3>1 DEF TickWrite, TickUnheard
    <3>3. row'[q].volume = row[q].volume /\ row'[q].covered = row[q].covered
      BY <2>2, <3>1, <3>2 DEF Rows
    <3> QED
      BY <2>3, <3>3
  <2>7. ASSUME NEW p \in Positions, CoverOpen(p) PROVE row'[q].covered <= row'[q].volume
    <3> DEFINE k == IF ~Open(p) THEN row[p].covered
                    ELSE IF row[p].covered > placing[p] THEN row[p].covered - placing[p] ELSE 0
    <3>1. UNCHANGED row \/ row' = [row EXCEPT ![p] = [row[p] EXCEPT !.covered = k]]
      BY <2>2, <2>7 DEF CoverOpen
    <3>2. row[p].covered \in 0..Lots /\ placing[p] \in 0..Lots
      BY <2>1, <2>2, RowFields DEF DeskType
    <3>3. k <= row[p].covered
      BY <3>2
    <3> HIDE DEF k
    <3>4. /\ row'[q].volume = row[q].volume
          /\ row'[q].covered = row[q].covered \/ (q = p /\ row'[q].covered = k)
      BY <2>2, <3>1 DEF Rows
    <3>5. k \in Int
      BY <3>2 DEF k
    <3> QED
      BY <2>3, <3>2, <3>3, <3>4, <3>5
  <2>8. ASSUME NEW e \in Editors, LevelWritten(e) PROVE row'[q].covered <= row'[q].volume
    <3> DEFINE p == editor[e].pos  l == editor[e].level
    <3>1. p \in Positions
      BY <2>1, <2>8 DEF LevelWritten, DeskType
    <3>2. row' = [row EXCEPT ![p] = [row[p] EXCEPT !.level = l]]
      BY <2>2, <2>8, <3>1 DEF LevelWritten
    <3> HIDE DEF p, l
    <3>3. row'[q].volume = row[q].volume /\ row'[q].covered = row[q].covered
      BY <2>2, <3>1, <3>2 DEF Rows
    <3> QED
      BY <2>3, <3>3
  <2>9. ASSUME NEW c \in Coverers, CoverWrite(c) PROVE row'[q].covered <= row'[q].volume
    <3> DEFINE p == coverer[c].pos  k == coverer[c].covered + coverer[c].lots
    <3>1. p \in Positions
      BY <2>1, <2>9 DEF CoverWrite, DeskType
    <3>2. row' = [row EXCEPT ![p] = [row[p] EXCEPT !.covered = k]]
      BY <2>2, <2>9, <3>1 DEF CoverWrite
    <3>3. q = p => k <= row[p].volume
      BY <2>1, <2>9 DEF CoverWrite, DeskType
    <3> HIDE DEF p, k
    <3>4. /\ row'[q].volume = row[q].volume
          /\ IF q = p THEN row'[q].covered = k ELSE row'[q].covered = row[q].covered
      BY <2>2, <3>1, <3>2 DEF Rows
    <3> QED
      BY <2>3, <3>3, <3>4
  <2>10. ASSUME NEW r \in Runs, NEW p \in Positions, SwapApply(r, p)
        PROVE  row'[q].covered <= row'[q].volume
    <3>1. CASE Swapped(p, run[r].day) \/ ~Open(p)
      BY <2>3, <2>10, <3>1 DEF SwapApply, ledger
    <3>2. CASE ~(Swapped(p, run[r].day) \/ ~Open(p))
      <4>1. run[r].day \in 1..LastDay
        BY <2>10 DEF SwapApply, TypeOK, WorkerType
      <4>2. Charges(r, p)
        BY <2>10, <3>2, <4>1 DEF Charges
      <4> QED
        BY <2>1, <2>3, <4>2, ChargeEffect
    <3> QED
      BY <3>1, <3>2
  <2> QED
    BY <2>4, <2>5, <2>6, <2>7, <2>8, <2>9, <2>10, LedgerWriters DEF LedgerStep
<1> QED
  BY InitTables, <1>1, TypeCorrect, PTL DEF Spec

-----------------------------------------------------------------------------
(* The mutex, and the book that a close tells of its commit                 *)

\* Two calls in the mutex have no account in common.
Exclusion ==
  \A x, y \in Callers, p \in Positions, q \in Positions :
    Inside(x) /\ Inside(y) /\ p \in call[x].list /\ q \in call[y].list /\ Owner[p] = Owner[q]
      => x = y

\* A call that has committed knows the lots that are left.
TellKnows == \A x \in Callers : call[x].at = "tell" => call[x].left = row[call[x].pos].volume

\* The task of a position sleeps or runs only after the claim is in the table, and the tick loop
\* closes nothing while it writes one.
TasksClaimed ==
  /\ \A p \in Positions : call[p] # Idle => row[p].claim
  /\ tick.at = "claim" => call[TickLoop] = Idle

\* An engine that has its book has every open position in it.
OpenIsWatched == engine = "up" => \A p \in Positions : Open(p) => Watched(p)

\* A call is put in place of an idle one.
Begins(x, c) == /\ call[x].at # "tell" /\ c \in Calls /\ c.at \in {"queued", "asleep"}
                /\ call' = [call EXCEPT ![x] = c]
\* A call goes on, or ends, without a commit.
GoesOn(x) == /\ call[x].at # "tell"
             /\ \/ call' = [call EXCEPT ![x] = Idle]
                \/ \E c \in Calls : /\ c.at = "in" /\ call[x].at = "in"
                                    /\ c.list \subseteq call[x].list
                                    /\ call' = [call EXCEPT ![x] = c]

\* A call that is past a position is idle or has the rest of its list.
LEMMA PastGoesOn ==
  ASSUME CallType, NEW x \in Callers, NEW p, Past(x, p)
  PROVE  \/ call' = [call EXCEPT ![x] = Idle]
         \/ \E c \in Calls : /\ c.at = "in" /\ c.list \subseteq call[x].list
                             /\ call' = [call EXCEPT ![x] = c]
<1> DEFINE c == [call[x] EXCEPT !.at = "in", !.list = call[x].list \ {p}, !.pos = NoPosition,
                                !.left = 0]
<1>1. call[x] \in Calls /\ 0 \in 0..Lots
  BY ClosingAssumption DEF CallType
<1>2. c \in Calls /\ c.at = "in" /\ c.list \subseteq call[x].list
  BY <1>1 DEF Calls
<1>3. call' = [call EXCEPT ![x] = Idle] \/ call' = [call EXCEPT ![x] = c]
  BY DEF Past, CallType
<1> HIDE DEF c
<1> QED
  BY <1>2, <1>3

\* What a step can do to a call.
LEMMA CallMoves ==
  ASSUME TypeOK, TasksClaimed, [Next]_vars
  PROVE  \/ UNCHANGED call
         \/ \E x \in Callers, c \in Calls : Begins(x, c)
         \/ \E x \in Callers : GoesOn(x) \/ Enter(x) \/ Tell(x)
         \/ \E x \in Callers, p \in Positions : Commit(x, p)
         \/ Crash
<1> DEFINE Goal == \/ UNCHANGED call
                   \/ \E x \in Callers, c \in Calls : Begins(x, c)
                   \/ \E x \in Callers : GoesOn(x) \/ Enter(x) \/ Tell(x)
                   \/ \E x \in Callers, p \in Positions : Commit(x, p)
                   \/ Crash
<1>1. LedgerType /\ MemoryType /\ CallType /\ LoopsType
  BY DEF TypeOK
<1>2. Idle.at = "idle" /\ Requests \subseteq Callers /\ Positions \subseteq Callers
      /\ TickLoop \in Callers /\ StopLoop \in Callers
  BY DEF Idle, Callers
<1>3. ASSUME NEW x \in Requests, ClosePosition(x) PROVE Goal
  <2>1. PICK p \in Positions, v \in 1..Lots :
          call' = [call EXCEPT ![x] = [Idle EXCEPT !.at = "queued", !.list = {p}, !.want = v]]
    BY <1>3 DEF ClosePosition
  <2> DEFINE c == [Idle EXCEPT !.at = "queued", !.list = {p}, !.want = v]
  <2>2. {p} \in SUBSET Positions /\ v \in 0..Lots /\ x \in Callers
    BY <1>2
  <2>3. c \in Calls /\ c.at = "queued"
    BY <2>2, CallValues
  <2>4. call[x].at # "tell" /\ call' = [call EXCEPT ![x] = c]
    BY <1>2, <1>3, <2>1 DEF ClosePosition
  <2> HIDE DEF c
  <2> QED
    BY <2>2, <2>3, <2>4 DEF Begins
<1>4. ASSUME NEW x \in Requests, CloseAll(x) PROVE Goal
  <2>1. PICK list \in SUBSET Positions :
          call' = [call EXCEPT ![x] = [Idle EXCEPT !.at = "queued", !.list = list]]
    BY <1>4 DEF CloseAll
  <2> DEFINE c == [Idle EXCEPT !.at = "queued", !.list = list]
  <2>2. c \in Calls /\ c.at = "queued" /\ x \in Callers
    BY CallValues, ClosingAssumption DEF Callers
  <2>3. call[x].at # "tell" /\ call' = [call EXCEPT ![x] = c]
    BY <1>2, <1>4, <2>1 DEF CloseAll
  <2> HIDE DEF c
  <2> QED
    BY <2>2, <2>3 DEF Begins
<1>5. ASSUME NEW x \in Callers, Drops(x) PROVE GoesOn(x)
  BY <1>5 DEF Drops, GoesOn
<1>6. ASSUME NEW x \in Callers, NEW p \in Positions, CloseFails(x, p) \/ CommitUnheard(x, p)
      PROVE  GoesOn(x)
  BY <1>1, <1>6, PastGoesOn DEF CloseFails, CommitUnheard, GoesOn
<1>7. ASSUME NEW p \in Positions, TickRetry(p) PROVE Goal
  <2> DEFINE c == Claimed(p, claims[p].level)
  <2>1. UNCHANGED call \/ call' = [call EXCEPT ![TickLoop] = c]
    BY <1>7 DEF TickRetry
  <2>2. c \in Calls /\ c.at = "queued"
    BY <1>1, CallValues, ClaimValues DEF MemoryType
  <2>3. call[TickLoop].at # "tell"
    BY <1>2, <1>7 DEF TickRetry, Walking
  <2> HIDE DEF c
  <2> QED
    BY <1>2, <2>1, <2>2, <2>3 DEF Begins
<1>8. CASE TickWrite
  <2> DEFINE p == tick.pos  c == Claimed(p, tick.rows[p].level)
             d == [Claimed(p, tick.rows[p].level) EXCEPT !.at = "asleep"]
  <2>1. p \in Positions /\ tick.rows[p].level \in LevelsOr0
    BY <1>1, <1>8, BookValues DEF TickWrite, LoopsType
  <2>2. c \in Calls /\ c.at = "queued" /\ d \in Calls /\ d.at = "asleep"
    BY <2>1, CallValues
  <2>3. \/ UNCHANGED call
        \/ ~row[p].claim /\ call' = [call EXCEPT ![p] = d]
        \/ call' = [call EXCEPT ![TickLoop] = c]
    BY <1>8 DEF TickWrite
  <2>4. call[TickLoop].at # "tell"
    BY <1>2, <1>8 DEF TickWrite, TasksClaimed
  <2>5. ~row[p].claim => call[p].at # "tell"
    BY <1>2, <2>1 DEF TasksClaimed
  <2> HIDE DEF p, c, d
  <2> QED
    BY <1>2, <2>1, <2>2, <2>3, <2>4, <2>5 DEF Begins
<1>9. ASSUME NEW p \in Positions, TaskWakes(p) PROVE Goal
  <2> DEFINE c == [call[p] EXCEPT !.at = "queued"]
  <2>1. call[p] \in Calls /\ p \in Callers
    BY <1>1, <1>2 DEF CallType
  <2>2. c \in Calls /\ c.at = "queued"
    BY <2>1 DEF Calls
  <2>3. call' = [call EXCEPT ![p] = c] /\ call[p].at # "tell"
    BY <1>9 DEF TaskWakes
  <2> HIDE DEF c
  <2> QED
    BY <2>1, <2>2, <2>3 DEF Begins
<1>10. ASSUME NEW a \in Accounts, StopOutRound(a) PROVE Goal
  <2>1. PICK p \in Positions : call' = [call EXCEPT ![StopLoop] = StopOut(p)]
    BY <1>10 DEF StopOutRound, Held
  <2>2. StopOut(p) \in Calls /\ StopOut(p).at = "queued" /\ call[StopLoop].at # "tell"
    BY <1>2, <1>10, CallValues DEF StopOutRound
  <2> QED
    BY <1>2, <2>1, <2>2 DEF Begins
<1> QED
  BY <1>3, <1>4, <1>5, <1>6, <1>7, <1>8, <1>9, <1>10, CallWriters DEF CallChange

\* Only a commit of its own changes the volume of a position, and it only takes from it.
LEMMA VolumeStep ==
  ASSUME TypeOK, [Next]_vars, NEW q \in Positions
  PROVE  /\ row'[q].volume <= row[q].volume
         /\ row'[q].volume # row[q].volume =>
              \E x \in Callers : Commit(x, q) \/ CommitUnheard(x, q)
<1>1. LedgerType
  BY DEF TypeOK
<1>2. row[q].volume \in 0..Lots
  BY <1>1, RowFields DEF LedgerType
<1>3. ASSUME NEW x \in Callers, NEW p \in Positions, CommitsAs(x, p)
      PROVE  /\ row'[q].volume <= row[q].volume
             /\ row'[q].volume # row[q].volume => Commit(x, q) \/ CommitUnheard(x, q)
  <2> DEFINE vol == CloseVolume(x, p)
  <2>1. Closes(p, vol) /\ vol \in 1..Lots
    BY <1>3 DEF CommitsAs
  <2> HIDE DEF vol
  <2> QED
    BY <1>1, <1>2, <1>3, <2>1, CloseEffect DEF CommitsAs
<1>4. ASSUME NEW r \in Runs, NEW p \in Positions, Charges(r, p)
      PROVE  row'[q].volume = row[q].volume
  BY <1>1, <1>4, ChargeEffect
<1>5. CASE KeepsMoney
  BY <1>2, <1>5 DEF KeepsMoney
<1> QED
  BY <1>2, <1>3, <1>4, <1>5, MoneyStepBy

\* Only the tick loop claims a row, and only modify_position changes its level.
LEMMA RowSteps ==
  ASSUME TypeOK, [Next]_vars, NEW q \in Positions
  PROVE  /\ \/ row'[q].claim = row[q].claim
            \/ (TickWrite \/ TickUnheard) /\ tick.pos = q /\ row'[q].claim
         /\ \/ row'[q].level = row[q].level
            \/ \E e \in Editors : LevelWritten(e) /\ editor[e].pos = q
<1> DEFINE SameClaim == row'[q].claim = row[q].claim
           SameLevel == row'[q].level = row[q].level
<1>1. LedgerType /\ CallType /\ LoopsType /\ DeskType
  BY DEF TypeOK
<1>2. row \in [Positions -> Rows]
  BY <1>1 DEF LedgerType
<1>3. ASSUME NEW p, NEW r, row' = [row EXCEPT ![p] = r],
             p \in Positions => r.claim = row[p].claim /\ r.level = row[p].level
      PROVE  SameClaim /\ SameLevel
  BY <1>2, <1>3
<1>4. ASSUME UNCHANGED ledger PROVE SameClaim /\ SameLevel
  BY <1>4 DEF ledger
<1>5. ASSUME NEW x \in Callers, NEW p \in Positions, Commit(x, p) \/ CommitUnheard(x, p)
      PROVE  SameClaim /\ SameLevel
  <2> DEFINE v == CloseVolume(x, p)
  <2>1. row' = [row EXCEPT ![p] = AfterClose(p, v)]
    BY <1>5 DEF Commit, CommitUnheard, CloseTx
  <2> HIDE DEF v
  <2>2. row[p] \in Rows
    BY <1>2
  <2>3. AfterClose(p, v).claim = row[p].claim /\ AfterClose(p, v).level = row[p].level
    <3> DEFINE n == row[p].volume - v  k == row[p].covered - CoverToClose(p, v)
               s == row[p].swap - RealisedSwap(p, v)
    <3>1. AfterClose(p, v) =
            IF v >= row[p].volume
              THEN [row[p] EXCEPT !.volume = 0, !.covered = 0]
              ELSE [row[p] EXCEPT !.volume = n, !.covered = k, !.swap = s]
      BY Zenon DEF AfterClose
    <3> HIDE DEF n, k, s
    <3> QED
      BY <2>2, <3>1 DEF Rows
  <2> HIDE DEF SameClaim, SameLevel
  <2> QED
    BY <1>3, <2>1, <2>3
<1>6. CASE TickWrite \/ TickUnheard
  BY <1>2, <1>6 DEF TickWrite, TickUnheard, Rows
<1>7. ASSUME NEW p \in Positions, CoverOpen(p) PROVE SameClaim /\ SameLevel
  BY <1>2, <1>7 DEF CoverOpen, Rows
<1>8. ASSUME NEW e \in Editors, LevelWritten(e)
      PROVE  SameClaim /\ (SameLevel \/ editor[e].pos = q)
  BY <1>2, <1>8 DEF LevelWritten, Rows
<1>9. ASSUME NEW c \in Coverers, CoverWrite(c) PROVE SameClaim /\ SameLevel
  BY <1>2, <1>9 DEF CoverWrite, Rows
<1>10. ASSUME NEW r \in Runs, NEW p \in Positions, SwapApply(r, p) PROVE SameClaim /\ SameLevel
  BY <1>2, <1>10 DEF SwapApply, Rows, ledger
<1> HIDE DEF SameClaim, SameLevel
<1>11. \/ SameClaim /\ SameLevel
       \/ TickWrite \/ TickUnheard
       \/ SameClaim /\ \E e \in Editors : LevelWritten(e) /\ editor[e].pos = q
  BY <1>4, <1>5, <1>7, <1>8, <1>9, <1>10, LedgerWriters DEF LedgerStep
<1> QED
  BY <1>6, <1>11 DEF SameClaim, SameLevel

\* A claim in the table stays.
LEMMA ClaimStays ==
  ASSUME TypeOK, [Next]_vars, NEW q \in Positions, row[q].claim
  PROVE  row'[q].claim
BY RowSteps

\* The task of a position goes with its claim in the table, and a claim is written by an idle loop.
LEMMA TasksClaimedStep ==
  ASSUME TypeOK, TasksClaimed, [Next]_vars
  PROVE  TasksClaimed'
<1>1. CallType /\ LedgerType /\ LoopsType
  BY DEF TypeOK
<1>2. call \in [Callers -> Calls] /\ Idle.at = "idle"
  BY <1>1 DEF CallType, Idle
<1>3. ASSUME NEW p \in Positions, call'[p] # Idle PROVE row'[p].claim
  <2>1. p \in Callers /\ p \notin Requests /\ p # TickLoop /\ p # StopLoop
    BY ClosingAssumption DEF Callers
  <2>2. CASE call[p] # Idle
    BY <2>2, ClaimStays DEF TasksClaimed
  <2>3. CASE call[p] = Idle
    <3>1. call'[p] # call[p]
      BY <1>3, <2>3
    <3>2. ASSUME NEW x \in Requests, ClosePosition(x) \/ CloseAll(x) PROVE FALSE
      BY <1>2, <2>1, <3>1, <3>2 DEF ClosePosition, CloseAll
    <3>3. ASSUME NEW x \in Callers, Enter(x) \/ Drops(x) \/ Tell(x) PROVE FALSE
      BY <1>2, <2>1, <2>3, <3>1, <3>3 DEF Enter, Drops, Tell, Past
    <3>4. ASSUME NEW x \in Callers, NEW q \in Positions,
                 CloseFails(x, q) \/ Commit(x, q) \/ CommitUnheard(x, q)
          PROVE  FALSE
      BY <1>2, <2>1, <2>3, <3>1, <3>4 DEF CloseFails, Commit, CommitUnheard, Past
    <3>5. ASSUME NEW q \in Positions, TickRetry(q) \/ TaskWakes(q) PROVE FALSE
      BY <1>2, <2>1, <2>3, <3>1, <3>5 DEF TickRetry, TaskWakes
    <3>6. CASE TickWrite
      <4>1. p = tick.pos /\ row' = [row EXCEPT ![p].claim = TRUE]
        BY <1>2, <2>1, <3>1, <3>6 DEF TickWrite
      <4> QED
        BY <1>1, <4>1 DEF LedgerType, Rows
    <3>7. ASSUME NEW a \in Accounts, StopOutRound(a) PROVE FALSE
      BY <1>2, <2>1, <3>1, <3>7 DEF StopOutRound
    <3>8. ~Crash
      BY <1>3, <2>1 DEF Crash
    <3> QED
      BY <3>1, <3>2, <3>3, <3>4, <3>5, <3>6, <3>7, <3>8, CallWriters DEF CallChange
  <2> QED
    BY <2>2, <2>3
<1>4. ASSUME tick'.at = "claim" PROVE call'[TickLoop] = Idle
  <2>1. TickLoop \in Callers /\ TickLoop \notin Requests /\ TickLoop # StopLoop
        /\ TickLoop \notin Positions
    BY ClosingAssumption DEF Callers
  <2>2. ~TickWrite /\ ~\E p \in Positions : TickRetry(p)
    BY <1>1, <1>4 DEF TickWrite, TickRetry, Rest, LoopsType
  <2>3. call[TickLoop] = Idle
    <3>1. CASE tick.at = "claim"
      BY <3>1 DEF TasksClaimed
    <3>2. CASE tick.at # "claim"
      <4>1. tick' # tick
        BY <1>4, <3>2
      <4>2. \E p \in Positions : TickTrigger(p)
        <5>1. tick = [at |-> tick.at, rows |-> tick.rows, pos |-> tick.pos]
          BY <1>1 DEF LoopsType
        <5>2. tick' # IdleTick
          BY <1>4 DEF IdleTick
        <5>3. ~TickStart
          BY <1>4 DEF TickStart, IdleTick
        <5>4. ~\E p \in Positions : TickQuiet(p)
          BY <1>4, <5>1 DEF TickQuiet, Rest
        <5>5. ~(TickAbort \/ TickUnheard \/ TickEnd \/ Crash)
          BY <5>2 DEF TickAbort, TickUnheard, TickEnd, Crash
        <5>6. ~(StopOutAbort \/ MarketMoves \/ \E x \in Callers : GivesUp(x))
          BY <4>1 DEF StopOutAbort, MarketMoves, GivesUp, loops
        <5>7. ~\E x \in Callers, p \in Positions : CloseFails(x, p) \/ CommitUnheard(x, p)
          BY <4>1 DEF CloseFails, CommitUnheard
        <5>8. ~\E a \in Accounts : StopOutVisit(a) \/ StopOutEnd(a)
          BY <4>1 DEF StopOutVisit, StopOutEnd
        <5> QED
          BY <2>2, <4>1, <5>3, <5>4, <5>5, <5>6, <5>7, <5>8, LoopWriters DEF LoopStep, loops
      <4> QED
        BY <4>2 DEF TickTrigger, Walking
    <3> QED
      BY <3>1, <3>2
  <2>4. ASSUME call'[TickLoop] # call[TickLoop] PROVE FALSE
    <3>1. ASSUME NEW x \in Requests, ClosePosition(x) \/ CloseAll(x) PROVE FALSE
      BY <1>2, <2>1, <2>4, <3>1 DEF ClosePosition, CloseAll
    <3>2. ASSUME NEW x \in Callers, Enter(x) \/ Drops(x) \/ Tell(x) PROVE FALSE
      BY <1>2, <2>1, <2>3, <2>4, <3>2 DEF Enter, Drops, Tell, Past
    <3>3. ASSUME NEW x \in Callers, NEW q \in Positions,
                 CloseFails(x, q) \/ Commit(x, q) \/ CommitUnheard(x, q)
          PROVE  FALSE
      BY <1>2, <2>1, <2>3, <2>4, <3>3 DEF CloseFails, Commit, CommitUnheard, Past
    <3>4. ASSUME NEW q \in Positions, TaskWakes(q) PROVE FALSE
      BY <1>2, <2>1, <2>4, <3>4 DEF TaskWakes
    <3>5. ASSUME NEW a \in Accounts, StopOutRound(a) PROVE FALSE
      BY <1>2, <2>1, <2>4, <3>5 DEF StopOutRound
    <3>6. ~Crash
      BY <2>1, <2>3, <2>4 DEF Crash
    <3> QED
      BY <2>2, <2>4, <3>1, <3>2, <3>3, <3>4, <3>5, <3>6, CallWriters DEF CallChange
  <2> QED
    BY <2>3, <2>4
<1> QED
  BY <1>3, <1>4 DEF TasksClaimed

\* A call inside was inside before, or has just entered a mutex that was free.
LEMMA InsideStep ==
  ASSUME TypeOK, TasksClaimed, [Next]_vars, NEW x \in Callers, Inside(x)'
  PROVE  /\ call'[x].list \subseteq call[x].list
         /\ Inside(x) \/ Enter(x)
<1>1. CallType
  BY DEF TypeOK
<1>2. call \in [Callers -> Calls] /\ call[x] \in Calls /\ Idle.at = "idle"
  BY <1>1 DEF CallType, Idle
<1>3. CASE UNCHANGED call
  BY <1>3 DEF Inside
<1>4. ASSUME NEW z \in Callers, NEW c \in Calls, Begins(z, c)
      PROVE  call'[x] = call[x]
  BY <1>2, <1>4 DEF Begins, Inside
<1>5. ASSUME NEW z \in Callers, GoesOn(z)
      PROVE  call'[x].list \subseteq call[x].list /\ Inside(x)
  BY <1>2, <1>5 DEF GoesOn, Inside
<1>6. ASSUME NEW z \in Callers, Enter(z)
      PROVE  call'[x].list \subseteq call[x].list /\ (Inside(x) \/ Enter(x))
  <2>1. call' = [call EXCEPT ![z] = [call[z] EXCEPT !.at = "in"]]
    BY <1>6 DEF Enter
  <2>2. CASE x = z
    <3>1. call'[x].list = call[x].list
      BY <1>2, <2>1, <2>2 DEF Calls
    <3> QED
      BY <1>6, <2>2, <3>1
  <2>3. CASE x # z
    BY <1>2, <2>1, <2>3 DEF Inside
  <2> QED
    BY <2>2, <2>3
<1>7. ASSUME NEW z \in Callers, Tell(z)
      PROVE  call'[x].list \subseteq call[x].list /\ Inside(x)
  <2>1. \/ call' = [call EXCEPT ![z] = Idle]
        \/ \E c \in Calls : /\ c.at = "in" /\ c.list \subseteq call[z].list
                            /\ call' = [call EXCEPT ![z] = c]
    BY <1>1, <1>7, PastGoesOn DEF Tell
  <2> QED
    BY <1>2, <1>7, <2>1 DEF Tell, Inside
<1>8. ASSUME NEW z \in Callers, NEW p \in Positions, Commit(z, p)
      PROVE  call'[x].list \subseteq call[x].list /\ Inside(x)
  <2> DEFINE n == row[p].volume - CloseVolume(z, p)
  <2>1. call' = [call EXCEPT ![z] = [call[z] EXCEPT !.at = "tell", !.pos = p, !.left = n]]
    BY <1>2, <1>8 DEF Commit
  <2> HIDE DEF n
  <2>2. call'[x].list = call[x].list /\ (x # z => call'[x] = call[x])
    BY <1>2, <2>1 DEF Calls
  <2> QED
    BY <1>8, <2>2 DEF Commit, Inside
<1>9. ~Crash
  BY <1>2 DEF Crash, Inside
<1> QED
  BY <1>3, <1>4, <1>5, <1>6, <1>7, <1>8, <1>9, CallMoves DEF Inside

\* No two calls are inside the mutex of one account.
LEMMA ExclusionStep ==
  ASSUME TypeOK, TasksClaimed, Exclusion, [Next]_vars
  PROVE  Exclusion'
<1> SUFFICES ASSUME NEW x \in Callers, NEW y \in Callers,
                    NEW p \in Positions, NEW q \in Positions,
                    Inside(x)', Inside(y)', p \in call'[x].list, q \in call'[y].list,
                    Owner[p] = Owner[q], x # y
             PROVE  FALSE
  BY DEF Exclusion
<1>1. p \in call[x].list /\ q \in call[y].list
  BY InsideStep
<1>2. CallType
  BY DEF TypeOK
<1>3. ~(Inside(x) /\ Inside(y))
  BY <1>1 DEF Exclusion
<1>4. ASSUME NEW z \in Callers, NEW w \in Callers, NEW s \in Positions, NEW t \in Positions,
             z # w, Enter(z), s \in call[z].list, t \in call[w].list, Owner[s] = Owner[t],
             Inside(w)'
      PROVE  FALSE
  <2>1. call'[w] = call[w]
    BY <1>2, <1>4 DEF Enter, CallType
  <2>2. Inside(w)
    BY <1>4, <2>1 DEF Inside
  <2>3. ~Busy(Owner[s])
    BY <1>4 DEF Enter
  <2> QED
    BY <1>4, <2>2, <2>3 DEF Busy
<1>5. Enter(x) \/ Enter(y)
  BY <1>3, InsideStep
<1> QED
  BY <1>1, <1>4, <1>5

\* The volume of a position stays while a call that has committed has to tell of it.
LEMMA TellKeepsVolume ==
  ASSUME TypeOK, Exclusion, [Next]_vars, NEW x \in Callers, call[x].at = "tell"
  PROVE  row'[call[x].pos].volume = row[call[x].pos].volume
<1> DEFINE p == call[x].pos
<1>1. p \in call[x].list /\ p \in Positions
  BY DEF TypeOK, CallType, Calls
<1>2. SUFFICES ASSUME row'[p].volume # row[p].volume PROVE FALSE
  OBVIOUS
<1>3. PICK y \in Callers : Commit(y, p) \/ CommitUnheard(y, p)
  BY <1>1, <1>2, VolumeStep
<1>4. call[y].at = "in" /\ p \in call[y].list
  BY <1>3 DEF Commit, CommitUnheard
<1>5. x = y
  BY <1>1, <1>4 DEF Exclusion, Inside
<1> QED
  BY <1>4, <1>5

\* A call that has committed knows how much is left.
LEMMA TellKnowsStep ==
  ASSUME TypeOK, TasksClaimed, Exclusion, TellKnows, [Next]_vars
  PROVE  TellKnows'
<1> SUFFICES ASSUME NEW x \in Callers, call'[x].at = "tell"
             PROVE  call'[x].left = row'[call'[x].pos].volume
  BY DEF TellKnows
<1>1. CallType /\ LedgerType
  BY DEF TypeOK
<1>2. call \in [Callers -> Calls] /\ call[x] \in Calls /\ Idle.at = "idle"
  BY <1>1 DEF CallType, Idle
<1>3. CASE call'[x] = call[x]
  <2>1. call[x].at = "tell" /\ call[x].left = row[call[x].pos].volume
    BY <1>3 DEF TellKnows
  <2> QED
    BY <1>3, <2>1, TellKeepsVolume
<1>4. ASSUME NEW z \in Callers, NEW c \in Calls, Begins(z, c) PROVE call'[x] = call[x]
  BY <1>2, <1>4 DEF Begins
<1>5. ASSUME NEW z \in Callers, GoesOn(z) PROVE call'[x] = call[x]
  BY <1>2, <1>5 DEF GoesOn
<1>6. ASSUME NEW z \in Callers, Enter(z) PROVE call'[x] = call[x]
  BY <1>2, <1>6 DEF Enter, Calls
<1>7. ASSUME NEW z \in Callers, Tell(z) PROVE call'[x] = call[x]
  <2>1. \/ call' = [call EXCEPT ![z] = Idle]
        \/ \E c \in Calls : /\ c.at = "in" /\ c.list \subseteq call[z].list
                            /\ call' = [call EXCEPT ![z] = c]
    BY <1>1, <1>7, PastGoesOn DEF Tell
  <2> QED
    BY <1>2, <2>1
<1>8. ASSUME NEW z \in Callers, NEW p \in Positions, Commit(z, p), call'[x] # call[x]
      PROVE  call'[x].left = row'[call'[x].pos].volume
  <2> DEFINE v == CloseVolume(z, p)  n == row[p].volume - v
  <2>1. call' = [call EXCEPT ![z] = [call[z] EXCEPT !.at = "tell", !.pos = p, !.left = n]]
    BY <1>2, <1>8 DEF Commit
  <2>2. Closes(p, v) /\ v \in 1..Lots
    BY <1>1, <1>8, CloseVolumeFits DEF Commit, Closes
  <2> HIDE DEF v
  <2>3. row'[p].volume = n
    BY <1>1, <2>2, CloseEffect
  <2> HIDE DEF n
  <2>4. call'[x].pos = p /\ call'[x].left = n
    BY <1>2, <1>8, <2>1 DEF Calls
  <2> QED
    BY <2>3, <2>4
<1>9. ~Crash
  BY <1>2 DEF Crash
<1> QED
  BY <1>3, <1>4, <1>5, <1>6, <1>7, <1>8, <1>9, CallMoves

\* What a step does to the volume of a position in the book.
LEMMA BookStep ==
  ASSUME TypeOK, [Next]_vars, NEW q \in Positions, engine' = "up"
  PROVE  \/ engine = "up" /\ book'[q].volume = book[q].volume
         \/ /\ engine = "up" /\ row' = row
            /\ \E x \in Callers : /\ Tell(x) /\ call[x].pos = q
                                  /\ book'[q].volume = IF Watched(q) THEN call[x].left
                                                       ELSE book[q].volume
         \/ Hydrate /\ book'[q].volume = row[q].volume
<1>1. LedgerType /\ MemoryType /\ CallType /\ LoopsType /\ DeskType
  BY DEF TypeOK
<1>2. book \in [Positions -> BookRows] /\ row \in [Positions -> Rows]
  BY <1>1 DEF MemoryType, LedgerType
<1>3. CASE UNCHANGED <<engine, memory>>
  BY <1>3 DEF memory
<1>4. ASSUME NEW x \in Callers, Tell(x)
      PROVE  \/ engine = "up" /\ book'[q].volume = book[q].volume
             \/ /\ engine = "up" /\ row' = row /\ call[x].pos = q
                /\ book'[q].volume = IF Watched(q) THEN call[x].left ELSE book[q].volume
  <2> DEFINE p == call[x].pos  n == call[x].left
             b == IF n = 0 THEN NotInBook ELSE [book[p] EXCEPT !.volume = n]
  <2>1. p \in Positions /\ n \in 0..Lots
    BY <1>1, <1>4 DEF Tell, CallType, Calls
  <2>2. b.volume = n
    BY <1>2, <2>1 DEF NotInBook, BookRows
  <2>3. IF Watched(p) THEN book' = [book EXCEPT ![p] = b] ELSE UNCHANGED book
    BY <1>2, <1>4, <2>1 DEF Tell
  <2>4. UNCHANGED <<engine, row>>
    BY <1>4 DEF Tell, ledger
  <2> HIDE DEF b
  <2> QED
    BY <1>2, <2>1, <2>2, <2>3, <2>4
<1>5. ASSUME NEW p \in Positions, TickTrigger(p)
      PROVE  engine = "up" /\ book'[q].volume = book[q].volume
  BY <1>2, <1>5 DEF TickTrigger, BookRows
<1>6. ASSUME TickWrite \/ \E p \in Positions : DeadlinePasses(p)
      PROVE  engine = "up" /\ book'[q].volume = book[q].volume
  BY <1>6 DEF TickWrite, DeadlinePasses
<1>7. ~Crash
  BY DEF Crash
<1>8. ASSUME NEW e \in Editors, EditBook(e)
      PROVE  engine = "up" /\ book'[q].volume = book[q].volume
  BY <1>2, <1>8 DEF EditBook, BookRows
<1>9. CASE Hydrate
  <2>1. book'[q].volume = IF Open(q) THEN row[q].volume ELSE 0
    BY <1>9 DEF Hydrate, NotInBook
  <2>2. row[q].volume \in 0..Lots
    BY <1>2, RowFields
  <2> QED
    BY <1>9, <2>1, <2>2 DEF Open
<1> QED
  BY <1>3, <1>4, <1>5, <1>6, <1>7, <1>8, <1>9, MemoryWriters DEF MemoryStep

\* An open position is in the book of an engine that hydrated.
LEMMA OpenIsWatchedStep ==
  ASSUME TypeOK, TellKnows, OpenIsWatched, [Next]_vars
  PROVE  OpenIsWatched'
<1> SUFFICES ASSUME engine' = "up", NEW q \in Positions, row'[q].volume > 0
             PROVE  book'[q].volume > 0
  BY DEF OpenIsWatched, Open, Watched
<1>1. row[q].volume \in 0..Lots /\ row'[q].volume \in 0..Lots
  BY LedgerTypeStep, RowFields, SetsStay DEF TypeOK, LedgerType, Rows
<1>2. row[q].volume > 0
  BY <1>1, VolumeStep
<1>3. engine = "up" => book[q].volume > 0
  BY <1>2 DEF OpenIsWatched, Open, Watched
<1>4. ASSUME NEW x \in Callers, Tell(x), call[x].pos = q PROVE call[x].left = row[q].volume
  BY <1>4 DEF Tell, TellKnows
<1> QED
  BY <1>2, <1>3, <1>4, BookStep

\* What was lost stays lost.
LEMMA LostGrows ==
  ASSUME TypeOK, [Next]_vars, NEW q \in Positions
  PROVE  lost[q] \subseteq lost'[q]
<1>1. lost \in [Positions -> SUBSET {"partial", "restart", "unheard"}]
  BY DEF TypeOK, SpentType
<1>2. CASE UNCHANGED lost
  BY <1>2
<1>3. ASSUME NEW x \in Callers, Tell(x) PROVE lost[q] \subseteq lost'[q]
  BY <1>1, <1>3 DEF Tell
<1>4. ASSUME NEW x \in Callers, NEW p \in Positions, CommitUnheard(x, p)
      PROVE  lost[q] \subseteq lost'[q]
  BY <1>1, <1>4 DEF CommitUnheard
<1>5. CASE Crash
  BY <1>5 DEF Crash
<1>6. ASSUME TickStart \/ (\E e \in Editors : EditWrite(e) \/ EditUnheard(e) \/ EditBook(e))
             \/ (\E c \in Coverers : CoverWrite(c))
      PROVE  UNCHANGED lost
  BY <1>6 DEF TickStart, EditWrite, EditUnheard, EditBook, CoverWrite
<1> QED
  BY <1>2, <1>3, <1>4, <1>5, <1>6, HistoryWriters DEF HistoryStep, history

\* The invariant that carries BookFollowsRow.
BookInv == /\ TypeOK /\ TasksClaimed /\ Exclusion /\ TellKnows /\ OpenIsWatched
           /\ BookFollowsRow

\* The book goes on showing the table.
LEMMA BookFollowsRowStep == BookInv /\ [Next]_vars => BookFollowsRow'
<1> SUFFICES ASSUME BookInv, [Next]_vars, engine' = "up", NEW q \in Positions
             PROVE  \/ book'[q].volume = row'[q].volume
                    \/ \E x \in Callers : call'[x].at = "tell" /\ call'[x].pos = q
                    \/ "unheard" \in lost'[q]
  BY DEF BookFollowsRow
<1>1. TypeOK /\ TasksClaimed /\ Exclusion /\ TellKnows /\ OpenIsWatched /\ BookFollowsRow
  BY DEF BookInv
<1>2. CallType /\ LedgerType /\ MemoryType
  BY <1>1 DEF TypeOK
<1>3. call \in [Callers -> Calls]
  BY <1>2 DEF CallType
<1>4. row[q].volume \in 0..Lots /\ book[q].volume \in 0..Lots
  BY <1>2, RowFields DEF LedgerType, MemoryType, BookRows
<1>5. CASE row'[q].volume # row[q].volume
  <2>1. PICK x \in Callers : Commit(x, q) \/ CommitUnheard(x, q)
    BY <1>1, <1>5, VolumeStep
  <2>2. CASE Commit(x, q)
    <3> DEFINE n == row[q].volume - CloseVolume(x, q)
    <3>1. call' = [call EXCEPT ![x] = [call[x] EXCEPT !.at = "tell", !.pos = q, !.left = n]]
      BY <1>3, <2>2 DEF Commit
    <3> HIDE DEF n
    <3>2. call'[x].at = "tell" /\ call'[x].pos = q
      BY <1>3, <3>1 DEF Calls
    <3> QED
      BY <3>2
  <2>3. CASE CommitUnheard(x, q)
    BY <1>1, <2>3 DEF CommitUnheard, TypeOK, SpentType
  <2> QED
    BY <2>1, <2>2, <2>3
<1>6. CASE row'[q].volume = row[q].volume
  <2>1. CASE "unheard" \in lost[q]
    BY <1>1, <2>1, LostGrows
  <2>2. ASSUME NEW x \in Callers, Tell(x), call[x].pos = q,
               book'[q].volume = IF Watched(q) THEN call[x].left ELSE book[q].volume,
               engine = "up"
        PROVE  book'[q].volume = row'[q].volume
    <3>1. call[x].left = row[q].volume
      BY <1>1, <2>2 DEF Tell, TellKnows
    <3>2. ~Watched(q) => row[q].volume = 0 /\ book[q].volume = 0
      BY <1>1, <1>4, <2>2 DEF OpenIsWatched, Open, Watched
    <3> QED
      BY <1>6, <2>2, <3>1, <3>2
  <2>3. CASE engine = "up" /\ book[q].volume = row[q].volume
    BY <1>1, <1>6, <2>2, <2>3, BookStep
  <2>4. ASSUME engine = "up", NEW x \in Callers, call[x].at = "tell", call[x].pos = q
        PROVE  \/ call'[x] = call[x]
               \/ book'[q].volume = row'[q].volume
    <3>1. ASSUME NEW z \in Callers, NEW c \in Calls, Begins(z, c) PROVE call'[x] = call[x]
      BY <1>3, <2>4, <3>1 DEF Begins
    <3>2. ASSUME NEW z \in Callers, GoesOn(z) PROVE call'[x] = call[x]
      BY <1>3, <2>4, <3>2 DEF GoesOn
    <3>3. ASSUME NEW z \in Callers, Enter(z) PROVE call'[x] = call[x]
      BY <1>3, <2>4, <3>3 DEF Enter
    <3>4. ASSUME NEW z \in Callers, Tell(z), z # x PROVE call'[x] = call[x]
      BY <1>3, <3>4 DEF Tell, Past
    <3>5. ASSUME NEW z \in Callers, NEW p \in Positions, Commit(z, p) PROVE call'[x] = call[x]
      BY <1>3, <2>4, <3>5 DEF Commit
    <3>6. ~Crash
      BY DEF Crash
    <3>7. CASE Tell(x)
      <4> DEFINE n == call[x].left
                 b == IF n = 0 THEN NotInBook ELSE [book[q] EXCEPT !.volume = n]
      <4>1. IF Watched(q) THEN book' = [book EXCEPT ![q] = b] ELSE UNCHANGED book
        BY <1>2, <2>4, <3>7 DEF Tell, MemoryType
      <4>2. b.volume = n
        BY <1>2 DEF NotInBook, BookRows, MemoryType
      <4> HIDE DEF b
      <4>3. book'[q].volume = IF Watched(q) THEN n ELSE book[q].volume
        BY <1>2, <4>1, <4>2 DEF MemoryType
      <4> QED
        BY <2>2, <2>4, <3>7, <4>3
    <3> QED
      BY <1>1, <3>1, <3>2, <3>3, <3>4, <3>5, <3>6, <3>7, CallMoves
  <2>5. CASE engine # "up"
    <3>1. Hydrate /\ book'[q].volume = row[q].volume
      BY <1>1, <2>5, BookStep
    <3> QED
      BY <1>6, <3>1
  <2> QED
    BY <1>1, <2>1, <2>3, <2>4, <2>5 DEF BookFollowsRow
<1> QED
  BY <1>5, <1>6

\* A close tells the book what it has committed before anybody else can change the position again:
\* the book the loops work from shows the lots of the table.
THEOREM BookShowsTheTable == Spec => []BookFollowsRow
<1>1. Init => BookInv
  <2> SUFFICES ASSUME Init PROVE BookInv
    OBVIOUS
  <2>1. \A x \in Callers : call[x] = Idle
    BY DEF Init
  <2>2. Idle.at = "idle" /\ IdleTick.at = "idle" /\ tick = IdleTick
    BY DEF Init, Idle, IdleTick
  <2>3. \A p \in Positions : book[p].volume = row[p].volume
    BY DEF Init
  <2>4. Positions \subseteq Callers
    BY DEF Callers
  <2> QED
    BY <2>1, <2>2, <2>3, <2>4, InitType
    DEF BookInv, TasksClaimed, Exclusion, TellKnows, OpenIsWatched, BookFollowsRow, Inside, Open,
        Watched
<1>2. BookInv /\ [Next]_vars => BookInv'
  <2> SUFFICES ASSUME BookInv, [Next]_vars PROVE BookInv'
    OBVIOUS
  <2>1. TypeOK /\ TasksClaimed /\ Exclusion /\ TellKnows /\ OpenIsWatched
    BY DEF BookInv
  <2>2. TypeOK'
    BY <2>1, LedgerTypeStep, MemoryTypeStep, CallTypeStep, LoopsTypeStep, DeskTypeStep,
       WorkerTypeStep, SpentTypeStep DEF TypeOK
  <2>3. TasksClaimed' /\ Exclusion' /\ TellKnows' /\ OpenIsWatched'
    BY <2>1, TasksClaimedStep, ExclusionStep, TellKnowsStep, OpenIsWatchedStep
  <2> QED
    BY <2>2, <2>3, BookFollowsRowStep DEF BookInv
<1>3. BookInv => BookFollowsRow
  BY DEF BookInv
<1> QED
  BY <1>1, <1>2, <1>3, PTL DEF Spec

-----------------------------------------------------------------------------
(* The levels the loop fires on                                            *)

\* A restart ends every handler and every pass, and a process without its book watches nothing.
Quiet ==
  /\ engine = "down" => \A e \in Editors : editor[e].at = "idle"
  /\ engine # "up" => /\ \A p \in Positions : ~Watched(p)
                      /\ DOMAIN tick.rows = {} /\ tick.at # "claim"

\* An edit of the position is between the table and the book.
Written(p) == \E e \in Editors : editor[e].pos = p /\ editor[e].at = "book"

\* Unless edits overlapped or one was not heard, the edit that the book is to be told of is the
\* only one, and has the level of the table,
OneEdit ==
  \A p \in Positions, e \in Editors :
    p \notin mixed /\ editor[e].pos = p /\ editor[e].at = "book" =>
      /\ editor[e].level = row[p].level
      /\ \A f \in Editors : editor[f].pos = p /\ editor[f].at = "book" => f = e

\* the level of the table is in the book, or on its way,
BookHasLevel ==
  \A p \in Positions : Watched(p) => p \in mixed \/ Written(p) \/ book[p].level = row[p].level

\* and in the copy of the pass, unless the book has changed since.
CopyHasLevel ==
  \A p \in DOMAIN tick.rows :
    p \in stale \/ p \in mixed \/ Written(p) \/ tick.rows[p].level = row[p].level

LevelInv == TypeOK /\ Quiet /\ OneEdit /\ BookHasLevel /\ CopyHasLevel

\* What a step does to the row of the book of a position.
LEMMA BookRowSteps ==
  ASSUME TypeOK, [Next]_vars, NEW q \in Positions
  PROVE  \/ book'[q] = book[q]
         \/ \E x \in Callers : Tell(x) /\ Watched(q) /\ book'[q].level = book[q].level
                               /\ book'[q].claim = book[q].claim
         \/ ~Watched(q)' /\ ~book'[q].claim
         \/ TickTrigger(q) /\ Watched(q) /\ book'[q].claim /\ book'[q].level = book[q].level
         \/ \E e \in Editors :
              EditBook(e) /\ editor[e].pos = q /\ Watched(q) /\ book'[q].claim = book[q].claim
              /\ book'[q].level = editor[e].level
         \/ /\ Hydrate /\ engine' = "up" /\ Open(q) /\ book'[q].claim = row[q].claim
            /\ book'[q].level = row[q].level /\ claims'[q].on = row[q].claim
<1> DEFINE Goal ==
      \/ book'[q] = book[q]
      \/ \E x \in Callers : Tell(x) /\ Watched(q) /\ book'[q].level = book[q].level
                            /\ book'[q].claim = book[q].claim
      \/ ~Watched(q)' /\ ~book'[q].claim
      \/ TickTrigger(q) /\ Watched(q) /\ book'[q].claim /\ book'[q].level = book[q].level
      \/ \E e \in Editors :
           EditBook(e) /\ editor[e].pos = q /\ Watched(q) /\ book'[q].claim = book[q].claim
           /\ book'[q].level = editor[e].level
      \/ /\ Hydrate /\ engine' = "up" /\ Open(q) /\ book'[q].claim = row[q].claim
         /\ book'[q].level = row[q].level /\ claims'[q].on = row[q].claim
<1>1. book \in [Positions -> BookRows] /\ call \in [Callers -> Calls]
  BY DEF TypeOK, MemoryType, CallType
<1>2. CASE UNCHANGED book
  BY <1>2
<1>3. ~NotInBook.claim /\ NotInBook.volume = 0
  BY DEF NotInBook
<1>4. ASSUME NEW x \in Callers, Tell(x) PROVE Goal
  <2> DEFINE p == call[x].pos  n == call[x].left  b == [book[p] EXCEPT !.volume = n]
  <2>1. book' = IF Watched(p) THEN [book EXCEPT ![p] = IF n = 0 THEN NotInBook ELSE b] ELSE book
    BY <1>4 DEF Tell
  <2>2. p \in Positions
    BY <1>4 DEF Tell, TypeOK, CallType, Calls
  <2>3. b.level = book[p].level /\ b.claim = book[p].claim
    BY <1>1, <2>2 DEF BookRows
  <2> HIDE DEF b
  <2>4. CASE q # p \/ ~Watched(p)
    BY <1>1, <2>1, <2>2, <2>4
  <2>5. CASE q = p /\ Watched(p)
    <3>1. book'[q] = IF n = 0 THEN NotInBook ELSE b
      BY <1>1, <2>1, <2>5
    <3>2. CASE n = 0
      BY <1>3, <3>1, <3>2 DEF Watched
    <3>3. CASE n # 0
      BY <1>4, <2>3, <2>5, <3>1, <3>3
    <3> QED
      BY <3>2, <3>3
  <2> QED
    BY <2>4, <2>5
<1>5. ASSUME NEW p \in Positions, TickTrigger(p) PROVE Goal
  <2>1. book' = IF Watched(p) THEN [book EXCEPT ![p] = [book[p] EXCEPT !.claim = TRUE]] ELSE book
    BY <1>5 DEF TickTrigger
  <2>2. [book[p] EXCEPT !.claim = TRUE].claim
        /\ [book[p] EXCEPT !.claim = TRUE].level = book[p].level
    BY <1>1 DEF BookRows
  <2> QED
    BY <1>1, <1>5, <2>1, <2>2
<1>6. ASSUME NEW e \in Editors, EditBook(e) PROVE Goal
  <2> DEFINE p == editor[e].pos  l == editor[e].level  b == [book[p] EXCEPT !.level = l]
  <2>1. p \in Positions
    BY <1>6 DEF EditBook, TypeOK, DeskType
  <2>2. book' = IF Watched(p) THEN [book EXCEPT ![p] = b] ELSE book
    BY <1>6 DEF EditBook
  <2>3. b.level = l /\ b.claim = book[p].claim
    BY <1>1, <2>1 DEF BookRows
  <2> HIDE DEF b
  <2> QED
    BY <1>1, <1>6, <2>1, <2>2, <2>3
<1>7. CASE Crash
  BY <1>3, <1>7 DEF Crash, Watched
<1>8. CASE Hydrate
  <2>1. CASE Open(q) /\ engine' = "up"
    <3>1. book'[q] = [volume |-> row[q].volume, claim |-> row[q].claim, level |-> row[q].level]
      BY <1>8, <2>1 DEF Hydrate
    <3>2. claims'[q] = [on |-> Open(q) /\ row[q].claim, level |-> 0]
      BY <1>8, <2>1 DEF Hydrate
    <3>3. row[q].claim \in BOOLEAN
      BY RowFields DEF TypeOK, LedgerType
    <3>4. claims'[q].on = row[q].claim
      BY <2>1, <3>2, <3>3
    <3> QED
      BY <1>8, <2>1, <3>1, <3>4
  <2>2. CASE ~Open(q) /\ engine' = "up"
    BY <1>3, <1>8, <2>2 DEF Hydrate, Watched
  <2>3. CASE engine' # "up"
    BY <1>8, <2>3 DEF Hydrate
  <2> QED
    BY <2>1, <2>2, <2>3
<1>9. ASSUME TickWrite \/ \E p \in Positions : DeadlinePasses(p) PROVE UNCHANGED book
  BY <1>9 DEF TickWrite, DeadlinePasses
<1>10. CASE UNCHANGED <<engine, memory>>
  BY <1>2, <1>10 DEF memory
<1> QED
  BY <1>2, <1>4, <1>5, <1>6, <1>7, <1>8, <1>9, <1>10, MemoryWriters DEF MemoryStep

\* What a step does to the copy of the pass.
LEMMA CopySteps ==
  ASSUME TypeOK, [Next]_vars
  PROVE  \/ TickStart
         \/ UNCHANGED tick
         \/ /\ DOMAIN tick'.rows \subseteq DOMAIN tick.rows
            /\ \A p \in DOMAIN tick'.rows : tick'.rows[p] = tick.rows[p]
            /\ tick'.at # "claim"
            /\ TickWrite \/ TickUnheard => tick.pos \notin DOMAIN tick'.rows
         \/ \E p \in Positions : TickTrigger(p) /\ tick'.rows = tick.rows
                                 /\ tick'.at = "claim" /\ tick'.pos = p
<1> DEFINE Shrinks == /\ DOMAIN tick'.rows \subseteq DOMAIN tick.rows
                      /\ \A p \in DOMAIN tick'.rows : tick'.rows[p] = tick.rows[p]
                      /\ tick'.at # "claim"
                      /\ TickWrite \/ TickUnheard => tick.pos \notin DOMAIN tick'.rows
<1>1. tick = [at |-> tick.at, rows |-> tick.rows, pos |-> tick.pos]
  BY DEF TypeOK, LoopsType
<1>2. ASSUME NEW p, tick' = Rest(p), TickWrite => p = tick.pos PROVE Shrinks
  <2>1. tick'.at = "walk" /\ tick'.rows = [q \in DOMAIN tick.rows \ {p} |-> tick.rows[q]]
    BY <1>1, <1>2 DEF Rest
  <2>2. ~TickUnheard
    BY <2>1 DEF TickUnheard, IdleTick
  <2> QED
    BY <1>2, <2>1, <2>2
<1>3. ASSUME tick' = IdleTick, ~TickWrite PROVE Shrinks
  BY <1>3 DEF IdleTick, NotInBook
<1>4. ASSUME NEW p \in Positions, TickTrigger(p)
      PROVE  tick'.rows = tick.rows /\ tick'.at = "claim" /\ tick'.pos = p
  BY <1>1, <1>4 DEF TickTrigger
<1>5. TickWrite => tick.at = "claim" /\ tick' = Rest(tick.pos)
  BY DEF TickWrite
<1>6. ASSUME NEW p \in Positions, TickRetry(p) \/ TickQuiet(p) PROVE Shrinks
  <2>1. tick' = Rest(p) /\ tick.at = "walk"
    BY <1>6 DEF TickRetry, TickQuiet, Walking
  <2> QED
    BY <1>2, <1>5, <2>1
<1>8. ASSUME TickAbort \/ TickUnheard \/ TickEnd \/ Crash PROVE Shrinks
  <2>1. tick' = IdleTick
    BY <1>8 DEF TickAbort, TickUnheard, TickEnd, Crash
  <2>2. ~TickWrite
    <3>1. Rest(tick.pos).at = "walk" /\ IdleTick.at = "idle"
      BY <1>1 DEF Rest, IdleTick
    <3> QED
      BY <1>5, <2>1, <3>1
  <2> QED
    BY <1>3, <2>1, <2>2
<1>9. ASSUME \/ \E x \in Callers : GivesUp(x)
             \/ \E x \in Callers, p \in Positions : CloseFails(x, p) \/ CommitUnheard(x, p)
             \/ StopOutAbort \/ MarketMoves
             \/ \E a \in Accounts : StopOutVisit(a) \/ StopOutEnd(a)
             \/ UNCHANGED <<loops, under>>
      PROVE  UNCHANGED tick
  BY <1>9 DEF GivesUp, CloseFails, CommitUnheard, StopOutAbort, MarketMoves, StopOutVisit,
    StopOutEnd, loops
<1>10. ASSUME TickWrite PROVE Shrinks
  BY <1>2, <1>5, <1>10
<1> HIDE DEF Shrinks
<1>11. TickStart \/ UNCHANGED tick \/ Shrinks \/ \E p \in Positions : TickTrigger(p)
  BY <1>6, <1>8, <1>9, <1>10, LoopWriters DEF LoopStep
<1> QED
  BY <1>4, <1>11 DEF Shrinks
\* The process starts and ends in steps of their own.
LEMMA EngineSteps == [Next]_vars => UNCHANGED engine \/ Crash \/ Hydrate
BY MemoryWriters DEF MemoryStep, Tell, TickTrigger, DeadlinePasses, TickWrite, EditBook

\* Who writes the editors, and whose edits overlapped.
LEMMA EditSteps ==
  [Next]_vars => \/ UNCHANGED <<editor, mixed>>
                 \/ \E e \in Editors :
                      EditRead(e) \/ EditWrite(e) \/ EditUnheard(e) \/ EditBook(e)
                 \/ Crash
<1> SUFFICES ASSUME [Next]_vars
             PROVE  \/ UNCHANGED <<editor, mixed>>
                    \/ \E e \in Editors :
                      EditRead(e) \/ EditWrite(e) \/ EditUnheard(e) \/ EditBook(e)
                    \/ Crash
  OBVIOUS
<1>1. \/ UNCHANGED editor
      \/ \E e \in Editors : EditRead(e) \/ EditWrite(e) \/ EditUnheard(e) \/ EditBook(e)
      \/ Crash
  BY DeskWriters DEF DeskStep, CoverRead, CoverWrite, CoverOpen, desk
<1>2. \/ UNCHANGED mixed
      \/ \E e \in Editors : EditWrite(e) \/ EditUnheard(e)
      \/ Crash
  BY HistoryWriters DEF HistoryStep, Tell, CommitUnheard, TickStart, EditBook, CoverWrite, history
<1> QED
  BY <1>1, <1>2

\* A process that is down does nothing, and one without its book watches nothing.
LEMMA QuietStep ==
  ASSUME TypeOK, Quiet, [Next]_vars
  PROVE  Quiet'
<1>1. editor \in [Editors -> Edits]
  BY DEF TypeOK, DeskType
<1>2. ASSUME engine' = "down", NEW e \in Editors PROVE editor'[e].at = "idle"
  <2>1. CASE Crash
    BY <2>1 DEF Crash, IdleEditor
  <2>2. CASE ~Crash
    <3>1. engine = "down"
      BY <1>2, <2>2, EngineSteps DEF Hydrate
    <3>2. ASSUME NEW f \in Editors,
                 EditRead(f) \/ EditWrite(f) \/ EditUnheard(f) \/ EditBook(f)
          PROVE  FALSE
      BY <3>1, <3>2 DEF EditRead, EditWrite, EditUnheard, EditBook, Up, Quiet
    <3> QED
      BY <2>2, <3>1, <3>2, EditSteps DEF Quiet
  <2> QED
    BY <2>1, <2>2
<1>3. ASSUME engine' # "up", engine # "up", ~Crash
      PROVE  /\ \A p \in Positions : ~Watched(p)'
             /\ DOMAIN tick'.rows = {} /\ tick'.at # "claim"
  <2>1. /\ \A p \in Positions : ~Watched(p)
        /\ DOMAIN tick.rows = {} /\ tick.at # "claim"
    BY <1>3 DEF Quiet
  <2>2. ASSUME NEW p \in Positions PROVE ~Watched(p)'
    BY <1>3, <2>1, BookRowSteps DEF Watched
  <2>3. ~TickStart /\ \A p \in Positions : ~TickTrigger(p)
    BY <2>1 DEF TickStart, TickTrigger
  <2> QED
    BY <2>1, <2>2, <2>3, CopySteps
<1>4. ASSUME Crash
      PROVE  /\ \A p \in Positions : ~Watched(p)'
             /\ DOMAIN tick'.rows = {} /\ tick'.at # "claim"
  BY <1>4 DEF Crash, NotInBook, IdleTick, Watched
<1>5. engine' # "up" => engine # "up" \/ Crash
  BY EngineSteps DEF Hydrate
<1> QED
  BY <1>2, <1>3, <1>4, <1>5 DEF Quiet

\* Without a crash, an edit that is written is told the book of.
LEMMA WrittenSteps ==
  ASSUME TypeOK, [Next]_vars, ~Crash, NEW q \in Positions, Written(q)
  PROVE  Written(q)' \/ \E e \in Editors : EditBook(e) /\ editor[e].pos = q
<1>1. editor \in [Editors -> Edits]
  BY DEF TypeOK, DeskType
<1>2. PICK f \in Editors : editor[f].pos = q /\ editor[f].at = "book"
  BY DEF Written
<1>3. ASSUME NEW e \in Editors, EditRead(e) PROVE editor'[f] = editor[f]
  BY <1>1, <1>2, <1>3 DEF EditRead, IdleEditor
<1>4. ASSUME NEW e \in Editors, EditWrite(e) \/ EditUnheard(e) PROVE editor'[f] = editor[f]
  BY <1>1, <1>2, <1>4 DEF EditWrite, EditUnheard
<1>5. ASSUME NEW e \in Editors, EditBook(e), e # f PROVE editor'[f] = editor[f]
  BY <1>1, <1>5 DEF EditBook
<1> QED
  BY <1>2, <1>3, <1>4, <1>5, EditSteps DEF Written

\* The edit on its way is still the only one.
LEMMA OneEditStep ==
  ASSUME TypeOK, Quiet, OneEdit, [Next]_vars
  PROVE  OneEdit'
<1>1. editor \in [Editors -> Edits] /\ row \in [Positions -> Rows]
  BY DEF TypeOK, DeskType, LedgerType
<1> DEFINE Good(p, e) == /\ editor[e].level = row[p].level
                         /\ \A f \in Editors : editor[f].pos = p /\ editor[f].at = "book" => f = e
<1> SUFFICES ASSUME NEW p \in Positions, NEW e \in Editors,
                    p \notin mixed', editor'[e].pos = p, editor'[e].at = "book"
             PROVE  Good(p, e)'
  BY DEF OneEdit
<1>2. ~Crash
  BY DEF Crash, IdleEditor
<1>3. ASSUME \A f \in Editors : editor'[f] = editor[f] \/ editor'[f].at # "book", p \notin mixed,
             row'[p].level = row[p].level
      PROVE  Good(p, e)'
  <2>1. editor'[e] = editor[e] /\ Good(p, e)
    BY <1>3 DEF OneEdit
  <2> QED
    BY <1>3, <2>1
<1>4. ASSUME NEW g \in Editors, EditRead(g) PROVE Good(p, e)'
  <2>1. PICK q \in Positions, l \in Levels \cup {0} :
          editor' = [editor EXCEPT ![g] = [at |-> "write", pos |-> q, level |-> l]]
    BY <1>4 DEF EditRead
  <2> QED
    BY <1>1, <1>3, <1>4, <2>1 DEF EditRead, ledger, history
<1>5. ASSUME NEW g \in Editors, EditWrite(g) PROVE Good(p, e)'
  <2>1. /\ \A f \in Editors \ {g} : editor'[f] = editor[f]
        /\ editor'[g].pos = editor[g].pos /\ editor'[g].level = editor[g].level
    BY <1>1, <1>5 DEF EditWrite, Edits
  <2>2. CASE editor[g].pos # p
    <3>1. p \notin mixed /\ row'[p].level = row[p].level
      BY <1>1, <1>5, <2>2 DEF EditWrite
    <3>2. e # g /\ editor[e].pos = p /\ editor[e].at = "book"
      BY <2>1, <2>2
    <3>3. Good(p, e)
      BY <3>1, <3>2 DEF OneEdit
    <3> QED
      BY <2>1, <2>2, <3>1, <3>2, <3>3
  <2>3. CASE editor[g].pos = p
    <3>1. ~Crosses(g)
      BY <1>5, <2>3 DEF EditWrite
    <3>2. \A f \in Editors : editor'[f].pos = p /\ editor'[f].at = "book" => f = g
      BY <2>1, <2>3, <3>1 DEF Crosses
    <3>3. row' = [row EXCEPT ![p] = [row[p] EXCEPT !.level = editor[g].level]]
      BY <1>5, <2>3 DEF EditWrite
    <3>4. row'[p].level = editor[g].level
      BY <1>1, <3>3 DEF Rows
    <3> QED
      BY <2>1, <3>2, <3>4
  <2> QED
    BY <2>2, <2>3
<1>6. ASSUME NEW g \in Editors, EditBook(g) PROVE Good(p, e)'
  BY <1>1, <1>3, <1>6 DEF EditBook, IdleEditor, ledger
<1>7. ASSUME UNCHANGED <<editor, mixed>>,
             \A g \in Editors : ~EditWrite(g) /\ ~EditUnheard(g)
      PROVE  Good(p, e)'
  BY <1>3, <1>7, RowSteps DEF LevelWritten
<1>8. ASSUME NEW g \in Editors, EditUnheard(g) PROVE Good(p, e)'
  <2>1. \A f \in Editors : editor'[f] = editor[f] \/ editor'[f].at # "book"
    BY <1>1, <1>8 DEF EditUnheard, IdleEditor
  <2>2. p \notin mixed /\ row'[p].level = row[p].level
    BY <1>1, <1>8 DEF EditUnheard
  <2> QED
    BY <1>3, <2>1, <2>2
<1> HIDE DEF Good
<1> QED
  BY <1>2, <1>4, <1>5, <1>6, <1>7, <1>8, EditSteps
\* What the table and the edits say of a level stays so until the book is told of an edit.
LEMMA LevelStays ==
  ASSUME TypeOK, [Next]_vars, ~Crash, NEW q \in Positions, NEW l,
         \A e \in Editors : EditBook(e) => editor[e].pos # q,
         q \in mixed \/ Written(q) \/ l = row[q].level
  PROVE  q \in mixed' \/ Written(q)' \/ l = row'[q].level
<1>1. editor \in [Editors -> Edits]
  BY DEF TypeOK, DeskType
<1>2. ASSUME NEW e \in Editors, EditWrite(e), editor[e].pos = q PROVE Written(q)'
  <2>1. editor'[e].pos = q /\ editor'[e].at = "book"
    BY <1>1, <1>2 DEF EditWrite, Edits
  <2> QED
    BY <2>1 DEF Written
<1>6. ASSUME NEW e \in Editors, EditUnheard(e)
      PROVE  mixed \subseteq mixed' /\ (q \in mixed' \/ row'[q].level = row[q].level)
  BY <1>6 DEF EditUnheard, TypeOK, LedgerType
<1>3. CASE q \in mixed
  <2>1. ASSUME NEW e \in Editors, EditRead(e) \/ EditBook(e) PROVE mixed' = mixed
    BY <2>1 DEF EditRead, EditBook, history
  <2>2. ASSUME NEW e \in Editors, EditWrite(e), editor[e].pos # q PROVE q \in mixed'
    BY <1>3, <2>2 DEF EditWrite
  <2> QED
    BY <1>2, <1>3, <1>6, <2>1, <2>2, EditSteps
<1>4. CASE Written(q)
  BY <1>4, WrittenSteps
<1>5. CASE l = row[q].level
  BY <1>2, <1>5, <1>6, RowSteps DEF LevelWritten
<1> QED
  BY <1>3, <1>4, <1>5

\* The book has the level of the table, or is about to.
LEMMA BookHasLevelStep ==
  ASSUME TypeOK, Quiet, OneEdit, BookHasLevel, [Next]_vars
  PROVE  BookHasLevel'
<1> SUFFICES ASSUME NEW q \in Positions, Watched(q)'
             PROVE  q \in mixed' \/ Written(q)' \/ book'[q].level = row'[q].level
  BY DEF BookHasLevel
<1>1. ~Crash
  BY DEF Crash, Watched, NotInBook
<1>2. book \in [Positions -> BookRows]
  BY DEF TypeOK, MemoryType
<1>3. ASSUME NEW e \in Editors, EditBook(e), editor[e].pos = q
      PROVE  q \in mixed' \/ book'[q].level = row'[q].level
  <2>1. UNCHANGED <<row, mixed>> /\ editor[e].at = "book"
    BY <1>3 DEF EditBook, ledger
  <2>2. q \in mixed \/ editor[e].level = row[q].level
    BY <1>3, <2>1 DEF OneEdit
  <2>3. CASE Watched(q)
    <3>1. book' = [book EXCEPT ![q] = [book[q] EXCEPT !.level = editor[e].level]]
      BY <1>3, <2>3 DEF EditBook
    <3>2. book'[q].level = editor[e].level
      BY <1>2, <3>1 DEF BookRows
    <3> QED
      BY <2>1, <2>2, <3>2
  <2>4. CASE ~Watched(q)
    BY <1>3, <2>4 DEF EditBook, Watched
  <2> QED
    BY <2>3, <2>4
<1>4. ASSUME \A e \in Editors : EditBook(e) => editor[e].pos # q,
             Watched(q), book'[q].level = book[q].level
      PROVE  q \in mixed' \/ Written(q)' \/ book'[q].level = row'[q].level
  <2> DEFINE l == book[q].level
  <2>1. q \in mixed \/ Written(q) \/ l = row[q].level
    BY <1>4 DEF BookHasLevel
  <2> HIDE DEF l
  <2>2. q \in mixed' \/ Written(q)' \/ l = row'[q].level
    BY <1>1, <1>4, <2>1, LevelStays
  <2> QED
    BY <1>4, <2>2 DEF l
<1>5. CASE Hydrate /\ book'[q].level = row[q].level
  BY <1>5 DEF Hydrate, ledger
<1>6. book'[q] = book[q] => Watched(q)
  BY DEF Watched
<1> QED
  BY <1>3, <1>4, <1>5, <1>6, BookRowSteps

\* So does the copy, if the book has not been told of an edit since it was taken.
LEMMA CopyHasLevelStep ==
  ASSUME TypeOK, Quiet, OneEdit, BookHasLevel, CopyHasLevel, [Next]_vars
  PROVE  CopyHasLevel'
<1> SUFFICES ASSUME NEW q \in DOMAIN tick'.rows
             PROVE  \/ q \in stale' \/ q \in mixed' \/ Written(q)'
                    \/ tick'.rows[q].level = row'[q].level
  BY DEF CopyHasLevel
<1>1. ~Crash
  BY DEF Crash, IdleTick
<1>2. tick = [at |-> tick.at, rows |-> tick.rows, pos |-> tick.pos]
      /\ DOMAIN tick.rows \subseteq Positions
  BY DEF TypeOK, LoopsType
<1>3. CASE TickStart
  <2>1. tick'.rows = [p \in {r \in Positions : Watched(r)} |-> book[p]]
    BY <1>3 DEF TickStart, IdleTick
  <2>2. q \in Positions /\ Watched(q)' /\ tick'.rows[q] = book'[q]
    BY <1>3, <2>1 DEF TickStart, memory, Watched
  <2> QED
    BY <2>2, BookHasLevelStep DEF BookHasLevel
<1>4. CASE ~TickStart
  <2>1. q \in DOMAIN tick.rows /\ tick'.rows[q] = tick.rows[q]
    BY <1>4, CopySteps
  <2>2. q \in stale => q \in stale'
    BY <1>1, <1>4, HistoryWriters
    DEF HistoryStep, Tell, CommitUnheard, EditWrite, EditUnheard, EditBook, CoverWrite, history
  <2>3. ASSUME NEW e \in Editors, EditBook(e), editor[e].pos = q PROVE q \in stale'
    BY <2>1, <2>3 DEF EditBook
  <2>4. ASSUME \A e \in Editors : EditBook(e) => editor[e].pos # q, q \notin stale
        PROVE  q \in mixed' \/ Written(q)' \/ tick'.rows[q].level = row'[q].level
    <3> DEFINE l == tick.rows[q].level
    <3>1. q \in mixed \/ Written(q) \/ l = row[q].level
      BY <2>1, <2>4 DEF CopyHasLevel
    <3> HIDE DEF l
    <3>2. q \in mixed' \/ Written(q)' \/ l = row'[q].level
      BY <1>1, <1>2, <2>1, <2>4, <3>1, LevelStays
    <3> QED
      BY <2>1, <3>2 DEF l
  <2> QED
    BY <2>2, <2>3, <2>4
<1> QED
  BY <1>3, <1>4

\* The levels of the table, the book and the copy go together in every state.
LEMMA LevelInvariance == Spec => []LevelInv
<1>1. Init => LevelInv
  <2> SUFFICES ASSUME Init PROVE LevelInv
    OBVIOUS
  <2>1. /\ engine = "up" /\ tick = IdleTick /\ DOMAIN IdleTick.rows = {}
        /\ \A e \in Editors : editor[e].at = "idle"
    BY DEF Init, IdleTick, IdleEditor
  <2>2. \A p \in Positions : book[p].level = row[p].level
    BY DEF Init
  <2>3. Quiet /\ OneEdit
    BY <2>1 DEF Quiet, OneEdit
  <2>4. BookHasLevel /\ CopyHasLevel
    BY <2>1, <2>2 DEF BookHasLevel, CopyHasLevel
  <2> QED
    BY <2>3, <2>4, InitType DEF LevelInv
<1>2. LevelInv /\ [Next]_vars => LevelInv'
  <2> SUFFICES ASSUME LevelInv, [Next]_vars PROVE LevelInv'
    OBVIOUS
  <2>1. TypeOK /\ Quiet /\ OneEdit /\ BookHasLevel /\ CopyHasLevel
    BY DEF LevelInv
  <2>2. TypeOK'
    BY <2>1, LedgerTypeStep, MemoryTypeStep, CallTypeStep, LoopsTypeStep, DeskTypeStep,
       WorkerTypeStep, SpentTypeStep DEF TypeOK
  <2>3. Quiet' /\ OneEdit' /\ BookHasLevel' /\ CopyHasLevel'
    BY <2>1, QuietStep, OneEditStep, BookHasLevelStep, CopyHasLevelStep
  <2> QED
    BY <2>2, <2>3 DEF LevelInv
<1> QED
  BY <1>1, <1>2, PTL DEF Spec

\* However edits, passes and restarts fall, the loop triggers on the level that the table has:
\* but for an edit during the pass or on its way to the book, for edits that overlapped, and
\* for a last edit that was written and not heard.
THEOREM TriggersOnItsLevel == Spec => FiresOnItsLevel
<1> DEFINE Fires ==
      \A p \in Positions : TickTrigger(p) /\ p \notin stale /\ p \notin mixed =>
        \/ tick.rows[p].level = row[p].level
        \/ \E e \in Editors : editor[e].pos = p /\ editor[e].at = "book"
<1>1. LevelInv /\ [Next]_vars => [Fires]_vars
  BY DEF LevelInv, CopyHasLevel, Written, TickTrigger
<1> QED
  BY <1>1, LevelInvariance, PTL DEF Spec, FiresOnItsLevel

-----------------------------------------------------------------------------
(* The claims that closes act on                                           *)

\* The record of the position's claim is gone for a reason.
Dropped(p) == "partial" \in lost[p] \/ ~Open(p)

\* The level of a claim is known, unless the claim comes from the table after a restart.
Leveled(p, l) == l # 0 \/ "restart" \in lost[p]

\* A claim in memory has its level, and one in the book or in the copy has its record in memory.
ClaimsRecorded ==
  /\ \A p \in Positions : claims[p].on => Leveled(p, claims[p].level)
  /\ \A p \in Positions : book[p].claim => claims[p].on \/ Dropped(p)
  /\ \A p \in DOMAIN tick.rows : tick.rows[p].claim => claims[p].on \/ Dropped(p)

\* A claim in the table is in the book and in the copy.
ClaimsKnown ==
  /\ \A p \in Positions : row[p].claim /\ Watched(p) => book[p].claim
  /\ \A p \in DOMAIN tick.rows : row[p].claim => tick.rows[p].claim

\* The loop writes a claim that memory has and the table has not.
ClaimBeingWritten ==
  LET p == tick.pos IN
  tick.at = "claim" =>
    /\ ~row[p].claim /\ tick.rows[p].level # 0
    /\ claims[p].on \/ Dropped(p)
    /\ Watched(p) => book[p].claim

\* What a restart finds.
ClaimsOverRestart ==
  /\ engine # "up" => \A p \in Positions : claims[p] = NoClaim
  /\ engine = "down" => \A p \in Positions : row[p].claim => "restart" \in lost[p]

\* A close on a claim has waited for the deadline, or sleeps until it, and knows the level.
CallsAsClaimed ==
  \A x \in Callers, p \in Positions : call[x].claim /\ p \in call[x].list =>
    \/ Dropped(p)
    \/ /\ claims[p].on /\ Leveled(p, call[x].level)
       /\ call[x].at # "asleep" => p \notin delayed

\* The task of a position closes no other.
TasksOwn == \A p, q \in Positions : q \in call[p].list => q = p

ClaimInv == /\ TypeOK /\ TasksClaimed /\ Exclusion /\ TellKnows /\ Quiet /\ TasksOwn
            /\ ClaimsRecorded /\ ClaimsKnown /\ ClaimBeingWritten /\ ClaimsOverRestart
            /\ CallsAsClaimed

\* A record that is gone stays gone, and a level that is known stays known.
LEMMA DroppedStays ==
  ASSUME TypeOK, [Next]_vars, NEW p \in Positions
  PROVE  /\ Dropped(p) => Dropped(p)'
         /\ \A l : Leveled(p, l) => l # 0 \/ "restart" \in lost'[p]
<1>1. row[p].volume \in 0..Lots /\ row'[p].volume \in 0..Lots
  BY LedgerTypeStep, RowFields, SetsStay DEF TypeOK, LedgerType, Rows
<1>2. Open(p)' => Open(p)
  BY <1>1, VolumeStep DEF Open
<1> QED
  BY <1>2, LostGrows DEF Dropped, Leveled

\* What a step does to the claim of a position in memory.
LEMMA ClaimSteps ==
  ASSUME ClaimInv, [Next]_vars, ~Crash, NEW q \in Positions
  PROVE  \/ claims'[q] = claims[q]
         \/ ~claims'[q].on /\ (claims[q].on => Dropped(q)')
         \/ TickTrigger(q) /\ claims'[q].on /\ claims'[q].level = tick.rows[q].level
         \/ /\ Hydrate /\ (claims'[q].on => row[q].claim) /\ claims'[q].level = 0
            /\ engine = "down" /\ engine' = "up"
<1> DEFINE Goal ==
      \/ claims'[q] = claims[q]
      \/ ~claims'[q].on /\ (claims[q].on => Dropped(q)')
      \/ TickTrigger(q) /\ claims'[q].on /\ claims'[q].level = tick.rows[q].level
      \/ /\ Hydrate /\ (claims'[q].on => row[q].claim) /\ claims'[q].level = 0
         /\ engine = "down" /\ engine' = "up"
<1>1. TypeOK /\ ClaimsRecorded /\ ClaimBeingWritten /\ TellKnows
  BY DEF ClaimInv
<1>2. /\ claims \in [Positions -> Claims] /\ row \in [Positions -> Rows]
      /\ lost \in [Positions -> SUBSET {"partial", "restart", "unheard"}]
  BY <1>1 DEF TypeOK, MemoryType, SpentType, LedgerType
<1>3. ASSUME NEW x \in Callers, Tell(x) PROVE Goal
  <2> DEFINE p == call[x].pos
  <2>1. p \in Positions /\ call[x].left = row[p].volume
    BY <1>1, <1>3 DEF Tell, TypeOK, CallType, Calls, TellKnows
  <2>2. claims' = [claims EXCEPT ![p] = NoClaim] /\ row' = row
    BY <1>3 DEF Tell, ledger
  <2>3. CASE q # p
    BY <1>2, <2>2, <2>3
  <2>4. CASE q = p /\ ~claims[q].on
    <3>1. claims'[q] = NoClaim /\ ~NoClaim.on
      BY <1>2, <2>1, <2>2, <2>4 DEF NoClaim
    <3> QED
      BY <2>4, <3>1
  <2>5. CASE q = p /\ claims[q].on
    <3>1. ~claims'[q].on
      BY <1>2, <2>1, <2>2, <2>5 DEF NoClaim
    <3>2. row[q].volume \in 0..Lots
      BY <1>2, RowFields
    <3>3. CASE call[x].left > 0
      <4>1. "partial" \in lost'[q]
        BY <1>2, <1>3, <2>5, <3>3 DEF Tell
      <4> QED
        BY <3>1, <4>1 DEF Dropped
    <3>4. CASE ~(call[x].left > 0)
      <4>1. ~Open(q)'
        BY <2>1, <2>2, <2>5, <3>4 DEF Open
      <4> QED
        BY <3>1, <4>1 DEF Dropped
    <3> QED
      BY <3>3, <3>4
  <2> QED
    BY <2>3, <2>4, <2>5
<1>4. ASSUME NEW p \in Positions, TickTrigger(p) PROVE Goal
  BY <1>2, <1>4 DEF TickTrigger
<1>5. CASE TickWrite
  <2>1. tick.at = "claim" /\ ~row[tick.pos].claim
    BY <1>1, <1>5 DEF TickWrite, ClaimBeingWritten
  <2>2. CASE Open(tick.pos) \/ q # tick.pos
    BY <1>2, <1>5, <2>1, <2>2 DEF TickWrite
  <2>3. CASE ~Open(tick.pos) /\ q = tick.pos
    <3>1. ~Open(q)' /\ claims'[q] = NoClaim
      BY <1>2, <1>5, <2>3 DEF TickWrite, Open
    <3> QED
      BY <3>1 DEF Dropped, NoClaim
  <2> QED
    BY <2>2, <2>3
<1>6. CASE Hydrate
  <2>1. CASE engine' = "up"
    <3>1. claims'[q] = [on |-> Open(q) /\ row[q].claim, level |-> 0]
      BY <1>6, <2>1 DEF Hydrate
    <3> DEFINE c == Open(q) /\ row[q].claim
    <3>2. c \in BOOLEAN /\ (c => row[q].claim)
      BY Zenon
    <3>3. claims'[q] = [on |-> c, level |-> 0]
      BY <3>1
    <3> HIDE DEF c
    <3>4. (claims'[q].on = c) /\ claims'[q].level = 0
      BY <3>3
    <3> QED
      BY <1>6, <2>1, <3>2, <3>4 DEF Hydrate
  <2>2. CASE engine' # "up"
    BY <1>6, <2>2 DEF Hydrate
  <2> QED
    BY <2>1, <2>2
<1>7. ASSUME (\E p \in Positions : DeadlinePasses(p)) \/ (\E e \in Editors : EditBook(e))
             \/ UNCHANGED <<engine, memory>>
      PROVE  UNCHANGED claims
  BY <1>7 DEF DeadlinePasses, EditBook, memory
<1> QED
  BY <1>3, <1>4, <1>5, <1>6, <1>7, MemoryWriters DEF MemoryStep
\* A claim in memory stays there until its record goes for a reason.
LEMMA RecordStays ==
  ASSUME ClaimInv, [Next]_vars, ~Crash, NEW p \in Positions, claims[p].on \/ Dropped(p)
  PROVE  claims'[p].on \/ Dropped(p)'
<1>1. Dropped(p) => Dropped(p)'
  BY DroppedStays DEF ClaimInv
<1>2. engine # "up" => ~claims[p].on
  BY DEF ClaimInv, ClaimsOverRestart, NoClaim
<1> QED
  BY <1>1, <1>2, ClaimSteps

\* A copy that a step leaves of a position was there before, or is of the book.
LEMMA CopyRow ==
  ASSUME TypeOK, [Next]_vars, NEW p \in DOMAIN tick'.rows
  PROVE  /\ p \in Positions
         /\ \/ /\ TickStart /\ Watched(p) /\ tick'.rows[p] = book[p]
               /\ UNCHANGED <<row, book, claims, lost>>
            \/ p \in DOMAIN tick.rows /\ tick'.rows[p] = tick.rows[p]
<1>1. DOMAIN tick.rows \subseteq Positions
  BY DEF TypeOK, LoopsType
<1>2. CASE TickStart
  <2>1. tick'.rows = [q \in {r \in Positions : Watched(r)} |-> book[q]]
    BY <1>2 DEF TickStart, IdleTick
  <2> QED
    BY <1>2, <2>1 DEF TickStart, ledger, memory
<1>3. CASE ~TickStart
  BY <1>1, <1>3, CopySteps
<1> QED
  BY <1>2, <1>3

\* Every claim stays recorded.
LEMMA ClaimsRecordedStep ==
  ASSUME ClaimInv, [Next]_vars
  PROVE  ClaimsRecorded'
<1>1. TypeOK /\ ClaimsRecorded /\ ClaimsOverRestart
  BY DEF ClaimInv
<1>2. ASSUME NEW p \in Positions, claims'[p].on PROVE Leveled(p, claims[p].level)'
  <2>1. ~Crash
    BY <1>2 DEF Crash, NoClaim
  <2>2. CASE claims'[p] = claims[p]
    <3>1. Leveled(p, claims[p].level)
      BY <1>1, <1>2, <2>2 DEF ClaimsRecorded
    <3> QED
      BY <1>1, <2>2, <3>1, DroppedStays DEF Leveled
  <2>3. CASE TickTrigger(p) /\ claims'[p].level = tick.rows[p].level
    BY <2>3 DEF TickTrigger, Leveled
  <2>4. CASE row[p].claim /\ engine = "down"
    BY <1>1, <2>4, LostGrows DEF ClaimsOverRestart, Leveled
  <2> QED
    BY <1>2, <2>1, <2>2, <2>3, <2>4, ClaimSteps
<1>3. ASSUME NEW p \in Positions, book'[p].claim PROVE claims'[p].on \/ Dropped(p)'
  <2>1. ~Crash
    BY <1>3 DEF Crash, NotInBook
  <2>2. CASE book'[p].claim = book[p].claim
    BY <1>1, <1>3, <2>1, <2>2, RecordStays DEF ClaimsRecorded
  <2>3. CASE TickTrigger(p)
    BY <1>1, <2>3 DEF TickTrigger, TypeOK, MemoryType
  <2>4. CASE claims'[p].on = row[p].claim /\ book'[p].claim = row[p].claim
    BY <1>3, <2>4
  <2> QED
    BY <1>1, <1>3, <2>2, <2>3, <2>4, BookRowSteps
<1>4. ASSUME NEW p \in DOMAIN tick'.rows, tick'.rows[p].claim
      PROVE  claims'[p].on \/ Dropped(p)'
  <2>1. ~Crash
    BY <1>4 DEF Crash, IdleTick
  <2>2. p \in Positions
    BY <1>1, <1>4, CopyRow
  <2>3. claims[p].on \/ Dropped(p)
    BY <1>1, <1>4, <2>2, CopyRow DEF ClaimsRecorded
  <2> QED
    BY <2>1, <2>2, <2>3, RecordStays
<1> QED
  BY <1>2, <1>3, <1>4 DEF ClaimsRecorded

\* A claim of the table is in the book if it was, and if the loop has just written it.
LEMMA BookKnowsClaim ==
  ASSUME TypeOK, [Next]_vars, NEW p \in Positions, Watched(p)',
         Watched(p) => book[p].claim, Hydrate => row[p].claim
  PROVE  book'[p].claim
<1>1. book'[p] = book[p] => Watched(p)
  BY DEF Watched
<1> QED
  BY <1>1, BookRowSteps

\* Every claim of the table stays known.
LEMMA ClaimsKnownStep ==
  ASSUME ClaimInv, [Next]_vars
  PROVE  ClaimsKnown'
<1>1. TypeOK /\ ClaimsKnown /\ ClaimBeingWritten
  BY DEF ClaimInv
<1>2. TickWrite => tick.at = "claim" /\ tick'.at = "walk" /\ UNCHANGED book /\ ~Hydrate
  <2>1. TickWrite => tick.at = "claim" /\ tick' = Rest(tick.pos) /\ UNCHANGED <<engine, book>>
    BY DEF TickWrite
  <2>2. Rest(tick.pos).at = "walk"
    BY <1>1 DEF Rest, TypeOK, LoopsType
  <2> QED
    BY <2>1, <2>2 DEF Hydrate
<1>5. TickUnheard => /\ tick.at = "claim" /\ DOMAIN tick'.rows = {} /\ UNCHANGED book
                     /\ ~Hydrate
  <2>1. TickUnheard => tick.at = "claim" /\ tick' = IdleTick /\ UNCHANGED <<engine, book>>
    BY DEF TickUnheard, memory
  <2>2. DOMAIN IdleTick.rows = {}
    BY DEF IdleTick
  <2> QED
    BY <2>1, <2>2 DEF Hydrate
<1>3. ASSUME NEW p \in Positions, row'[p].claim, Watched(p)' PROVE book'[p].claim
  <2>1. CASE row[p].claim
    BY <1>1, <1>3, <2>1, BookKnowsClaim DEF ClaimsKnown
  <2>2. CASE (TickWrite \/ TickUnheard) /\ tick.pos = p
    BY <1>1, <1>2, <1>3, <1>5, <2>2 DEF ClaimBeingWritten, Watched
  <2> QED
    BY <1>1, <1>3, <2>1, <2>2, RowSteps
<1>4. ASSUME NEW p \in DOMAIN tick'.rows, row'[p].claim PROVE tick'.rows[p].claim
  <2>1. p \in Positions
    BY <1>1, CopyRow
  <2>2. CASE row[p].claim
    BY <1>1, <2>1, <2>2, CopyRow DEF ClaimsKnown
  <2>3. CASE TickWrite /\ tick.pos = p
    <3>1. ~TickStart /\ ~UNCHANGED tick /\ \A r \in Positions : ~TickTrigger(r)
      BY <1>2, <2>3 DEF TickStart, TickTrigger, Walking
    <3> QED
      BY <1>1, <2>3, <3>1, CopySteps
  <2> QED
    BY <1>1, <1>4, <1>5, <2>1, <2>2, <2>3, RowSteps
<1> QED
  BY <1>3, <1>4 DEF ClaimsKnown

\* The claim that the loop writes stays as it is until it is written.
LEMMA ClaimBeingWrittenStep ==
  ASSUME ClaimInv, [Next]_vars
  PROVE  ClaimBeingWritten'
<1>1. TypeOK /\ ClaimsKnown /\ ClaimBeingWritten /\ Quiet
  BY DEF ClaimInv
<1>2. DOMAIN tick.rows \subseteq Positions /\ (tick.at = "claim" => tick.pos \in DOMAIN tick.rows)
      /\ tick = [at |-> tick.at, rows |-> tick.rows, pos |-> tick.pos]
  BY <1>1 DEF TypeOK, LoopsType
<1> SUFFICES ASSUME tick'.at = "claim", NEW p, p = tick'.pos
             PROVE  /\ ~row'[p].claim /\ tick'.rows[p].level # 0
                    /\ claims'[p].on \/ Dropped(p)'
                    /\ Watched(p)' => book'[p].claim
  BY DEF ClaimBeingWritten, Dropped, Open, Watched
<1>3. CASE UNCHANGED tick
  <2>1. p = tick.pos /\ tick.at = "claim" /\ p \in Positions
    BY <1>2, <1>3
  <2>2. ~Crash /\ ~TickWrite /\ ~TickUnheard
    <3>1. TickWrite => tick' = Rest(tick.pos)
      BY DEF TickWrite
    <3>2. Rest(tick.pos).at = "walk"
      BY <1>2 DEF Rest
    <3> QED
      BY <3>1, <3>2 DEF Crash, TickUnheard, IdleTick
  <2>3. ~row[p].claim /\ tick.rows[p].level # 0 /\ (claims[p].on \/ Dropped(p))
        /\ (Watched(p) => book[p].claim)
    BY <1>1, <2>1 DEF ClaimBeingWritten
  <2>4. ~row'[p].claim
    BY <1>1, <2>1, <2>2, <2>3, RowSteps
  <2>5. ~Hydrate
    BY <1>1, <2>1 DEF Hydrate, Quiet
  <2>6. claims'[p].on \/ Dropped(p)'
    BY <2>1, <2>2, <2>3, RecordStays
  <2>7. Watched(p)' => book'[p].claim
    BY <1>1, <2>1, <2>3, <2>5, BookKnowsClaim
  <2> QED
    BY <1>3, <2>3, <2>4, <2>6, <2>7
<1>4. ASSUME NEW q \in Positions, TickTrigger(q), tick'.rows = tick.rows, tick'.pos = q
      PROVE  /\ ~row'[p].claim /\ tick'.rows[p].level # 0
             /\ claims'[p].on \/ Dropped(p)'
             /\ Watched(p)' => book'[p].claim
  <2>1. p = q /\ row' = row /\ q \in DOMAIN tick.rows /\ tick.rows[q].level # 0
        /\ ~tick.rows[q].claim
    BY <1>4 DEF TickTrigger, IsClaimed, ledger
  <2>2. ~row[q].claim
    BY <1>1, <2>1 DEF ClaimsKnown
  <2>3. claims'[q].on
    BY <1>1, <1>4 DEF TickTrigger, TypeOK, MemoryType
  <2>4. Watched(q) => book' = [book EXCEPT ![q] = [book[q] EXCEPT !.claim = TRUE]]
    BY <1>4 DEF TickTrigger
  <2>5. ~Watched(q) => book' = book
    BY <1>4 DEF TickTrigger
  <2>6. Watched(q)' => book'[q].claim
    BY <1>1, <2>4, <2>5 DEF TypeOK, MemoryType, BookRows, Watched
  <2> QED
    BY <1>4, <2>1, <2>2, <2>3, <2>6
<1>5. ~TickStart
  BY DEF TickStart, IdleTick
<1> QED
  BY <1>3, <1>4, <1>5, <1>1, CopySteps
\* A restart finds the claims of the table, and none in memory.
LEMMA ClaimsOverRestartStep ==
  ASSUME ClaimInv, [Next]_vars
  PROVE  ClaimsOverRestart'
<1>1. TypeOK /\ ClaimsOverRestart /\ Quiet
  BY DEF ClaimInv
<1>2. claims \in [Positions -> Claims]
  BY <1>1 DEF TypeOK, MemoryType
<1>3. ASSUME Crash, NEW p \in Positions
      PROVE  claims'[p] = NoClaim /\ (row'[p].claim => "restart" \in lost'[p])
  BY <1>3 DEF Crash, ledger
<1>4. ASSUME ~Crash, engine' # "up", NEW p \in Positions PROVE claims'[p] = NoClaim
  <2>1. engine # "up"
    BY <1>4, EngineSteps DEF Hydrate
  <2>2. claims[p] = NoClaim
    BY <1>1, <2>1 DEF ClaimsOverRestart
  <2>3. ASSUME NEW x \in Callers, Tell(x) PROVE claims'[p] = NoClaim
    BY <1>2, <2>2, <2>3 DEF Tell
  <2>4. ~TickWrite /\ \A q \in Positions : ~TickTrigger(q)
    BY <1>1, <2>1 DEF TickWrite, TickTrigger, Quiet
  <2>5. ASSUME (\E q \in Positions : DeadlinePasses(q)) \/ (\E e \in Editors : EditBook(e))
               \/ Hydrate \/ UNCHANGED <<engine, memory>>
        PROVE  UNCHANGED claims
    BY <1>4, <2>5 DEF DeadlinePasses, EditBook, Hydrate, memory
  <2> QED
    BY <1>4, <2>2, <2>3, <2>4, <2>5, MemoryWriters DEF MemoryStep
<1>5. ASSUME ~Crash, engine' = "down", NEW p \in Positions, row'[p].claim
      PROVE  "restart" \in lost'[p]
  <2>1. engine = "down"
    BY <1>5, EngineSteps DEF Hydrate
  <2>2. ~TickWrite /\ ~TickUnheard
    BY <1>1, <2>1 DEF TickWrite, TickUnheard, Quiet
  <2>3. row[p].claim
    BY <1>1, <1>5, <2>2, RowSteps
  <2> QED
    BY <1>1, <2>1, <2>3, LostGrows DEF ClaimsOverRestart
<1> QED
  BY <1>3, <1>4, <1>5 DEF ClaimsOverRestart

\* Where a close on a claim comes from.
LEMMA ClaimedCalls ==
  ASSUME TypeOK, TasksOwn, [Next]_vars, ~Crash, NEW x \in Callers, NEW p \in Positions,
         call'[x].claim, p \in call'[x].list
  PROVE  \/ /\ call[x].claim /\ p \in call[x].list /\ call'[x].level = call[x].level
            /\ call'[x].at # "asleep" => call[x].at # "asleep" \/ p \notin delayed
         \/ TickRetry(p) /\ ~MustWait(p) /\ call'[x].level = claims[p].level
         \/ /\ TickWrite /\ p = tick.pos /\ call'[x].level = tick.rows[p].level
            /\ call'[x].at # "asleep" => p \notin delayed
<1> DEFINE Goal ==
      \/ /\ call[x].claim /\ p \in call[x].list /\ call'[x].level = call[x].level
         /\ call'[x].at # "asleep" => call[x].at # "asleep" \/ p \notin delayed
      \/ TickRetry(p) /\ ~MustWait(p) /\ call'[x].level = claims[p].level
      \/ /\ TickWrite /\ p = tick.pos /\ call'[x].level = tick.rows[p].level
         /\ call'[x].at # "asleep" => p \notin delayed
<1>1. call \in [Callers -> Calls] /\ call[x] \in Calls
  BY DEF TypeOK, CallType
<1>2. ~Idle.claim /\ Idle.list = {}
  BY DEF Idle
<1>3. CASE call'[x] = call[x]
  BY <1>3
<1>4. ASSUME NEW y \in Requests, ClosePosition(y) \/ CloseAll(y) PROVE Goal
  <2>1. \E c : call' = [call EXCEPT ![y] = c] /\ ~c.claim
    <3>1. CASE ClosePosition(y)
      <4>1. PICK q \in Positions, v \in 1..Lots :
              call' = [call EXCEPT ![y] = [Idle EXCEPT !.at = "queued", !.list = {q}, !.want = v]]
        BY <3>1 DEF ClosePosition
      <4>2. ~[Idle EXCEPT !.at = "queued", !.list = {q}, !.want = v].claim
        BY DEF Idle
      <4> QED
        BY <4>1, <4>2
    <3>2. CASE CloseAll(y)
      <4>1. PICK list \in SUBSET Positions :
              call' = [call EXCEPT ![y] = [Idle EXCEPT !.at = "queued", !.list = list]]
        BY <3>2 DEF CloseAll
      <4>2. ~[Idle EXCEPT !.at = "queued", !.list = list].claim
        BY DEF Idle
      <4> QED
        BY <4>1, <4>2
    <3> QED
      BY <1>4, <3>1, <3>2
  <2> QED
    BY <1>1, <1>3, <2>1
<1>5. ASSUME NEW y \in Callers, Enter(y) PROVE Goal
  <2>1. call' = [call EXCEPT ![y] = [call[y] EXCEPT !.at = "in"]] /\ call[y].at = "queued"
    BY <1>5 DEF Enter
  <2>2. CASE x = y
    <3>1. call'[x] = [call[x] EXCEPT !.at = "in"]
      BY <1>1, <2>1, <2>2
    <3>2. call'[x].claim = call[x].claim /\ call'[x].list = call[x].list
          /\ call'[x].level = call[x].level
      BY <1>1, <3>1 DEF Calls
    <3> QED
      BY <2>1, <2>2, <3>2
  <2> QED
    BY <1>1, <1>3, <2>1, <2>2
<1>6. ASSUME NEW y \in Callers, Drops(y) PROVE Goal
  BY <1>1, <1>2, <1>3, <1>6 DEF Drops
<1>7. ASSUME NEW y \in Callers, NEW q, Past(y, q), call[y].at \in {"in", "tell"} PROVE Goal
  <2>1. CASE x = y
    <3> DEFINE c == [call[x] EXCEPT !.at = "in", !.list = call[x].list \ {q}, !.pos = NoPosition,
                                    !.left = 0]
    <3>1. call' = [call EXCEPT ![x] = IF call[x].list = {q} THEN Idle ELSE c]
      BY <1>7, <2>1 DEF Past
    <3>2. c.claim = call[x].claim /\ c.list = call[x].list \ {q} /\ c.level = call[x].level
      BY <1>1 DEF Calls
    <3> HIDE DEF c
    <3>3. call'[x] = Idle \/ call'[x] = c
      BY <1>1, <3>1
    <3> QED
      BY <1>2, <1>7, <2>1, <3>2, <3>3
  <2> QED
    BY <1>1, <1>3, <1>7, <2>1 DEF Past
<1>8. ASSUME NEW y \in Callers, Tell(y) PROVE Goal
  BY <1>7, <1>8 DEF Tell
<1>9. ASSUME NEW y \in Callers, NEW q \in Positions, CloseFails(y, q) \/ CommitUnheard(y, q)
      PROVE  Goal
  BY <1>7, <1>9 DEF CloseFails, CommitUnheard
<1>10. ASSUME NEW y \in Callers, NEW q \in Positions, Commit(y, q) PROVE Goal
  <2> DEFINE n == row[q].volume - CloseVolume(y, q)
  <2>1. call' = [call EXCEPT ![y] = [call[y] EXCEPT !.at = "tell", !.pos = q, !.left = n]]
        /\ call[y].at = "in"
    BY <1>1, <1>10 DEF Commit
  <2> HIDE DEF n
  <2>2. CASE x = y
    <3> DEFINE c == [call[x] EXCEPT !.at = "tell", !.pos = q, !.left = n]
    <3>1. c.claim = call[x].claim /\ c.list = call[x].list /\ c.level = call[x].level
      BY <1>1 DEF Calls
    <3>2. call' = [call EXCEPT ![x] = c]
      BY <2>1, <2>2
    <3> HIDE DEF c
    <3>3. call'[x] = c
      BY <1>1, <3>2
    <3> QED
      BY <2>1, <2>2, <3>1, <3>3
  <2> QED
    BY <1>1, <1>3, <2>1, <2>2
<1>11. ASSUME NEW q \in Positions, TickRetry(q) PROVE Goal
  <2> DEFINE c == Claimed(q, claims[q].level)
  <2>1. c.list = {q} /\ c.level = claims[q].level
    BY DEF Claimed, Idle
  <2> HIDE DEF c
  <2>2. call' = IF MustWait(q) THEN call ELSE [call EXCEPT ![TickLoop] = c]
    BY <1>11 DEF TickRetry, c
  <2>3. CASE MustWait(q) \/ x # TickLoop
    BY <1>1, <1>3, <2>2, <2>3
  <2>4. CASE ~MustWait(q) /\ x = TickLoop
    <3>1. call'[x] = c
      BY <1>1, <2>2, <2>4
    <3> QED
      BY <1>11, <2>1, <2>4, <3>1
  <2> QED
    BY <2>3, <2>4
<1>12. ASSUME NEW q \in Positions, TaskWakes(q) PROVE Goal
  <2>1. call' = [call EXCEPT ![q] = [call[q] EXCEPT !.at = "queued"]] /\ q \notin delayed
    BY <1>12 DEF TaskWakes
  <2>2. CASE x = q
    <3>1. call'[x] = [call[x] EXCEPT !.at = "queued"]
      BY <1>1, <2>1, <2>2
    <3>2. call'[x].claim = call[x].claim /\ call'[x].list = call[x].list
          /\ call'[x].level = call[x].level
      BY <1>1, <3>1 DEF Calls
    <3>3. p = q
      BY <2>2, <3>2 DEF TasksOwn
    <3> QED
      BY <2>1, <3>2, <3>3
  <2> QED
    BY <1>1, <1>3, <2>1, <2>2
<1>13. ASSUME TickWrite PROVE Goal
  <2> DEFINE q == tick.pos  c == Claimed(q, tick.rows[q].level)
             d == [Claimed(q, tick.rows[q].level) EXCEPT !.at = "asleep"]
  <2>1. c.list = {q} /\ c.level = tick.rows[q].level
        /\ d.list = {q} /\ d.level = tick.rows[q].level /\ d.at = "asleep"
    BY DEF Claimed, Idle
  <2> HIDE DEF c, d
  <2>2. \/ UNCHANGED call
        \/ q \in delayed /\ call' = [call EXCEPT ![q] = d]
        \/ q \notin delayed /\ call' = [call EXCEPT ![TickLoop] = c]
    BY <1>13 DEF TickWrite, c, d
  <2>3. call'[x] = call[x] \/ call'[x] = d \/ (call'[x] = c /\ q \notin delayed)
    BY <1>1, <2>2
  <2> QED
    BY <1>3, <1>13, <2>1, <2>3
<1>14. ASSUME NEW a \in Accounts, StopOutRound(a) PROVE Goal
  <2>1. PICK q \in Positions : call' = [call EXCEPT ![StopLoop] = StopOut(q)]
    BY <1>14 DEF StopOutRound, Held
  <2>2. ~StopOut(q).claim
    BY DEF StopOut, Idle
  <2> QED
    BY <1>1, <1>3, <2>1, <2>2
<1> HIDE DEF Goal
<1>15. UNCHANGED call => Goal
  BY DEF Goal
<1>16. Goal
  BY <1>4, <1>5, <1>6, <1>8, <1>9, <1>10, <1>11, <1>12, <1>13, <1>14, <1>15, CallWriters
  DEF CallChange
<1> QED
  BY <1>16 DEF Goal
\* A task goes on with its own position.
LEMMA TasksOwnStep ==
  ASSUME TypeOK, TasksOwn, [Next]_vars
  PROVE  TasksOwn'
<1> SUFFICES ASSUME NEW p \in Positions PROVE call'[p].list \subseteq call[p].list \cup {p}
  BY DEF TasksOwn
<1>1. call \in [Callers -> Calls] /\ call[p] \in Calls /\ Idle.list = {}
  BY DEF TypeOK, CallType, Callers, Idle
<1>2. p \in Callers /\ p \notin Requests /\ p # TickLoop /\ p # StopLoop
  BY ClosingAssumption DEF Callers
<1> DEFINE Goal == call'[p].list \subseteq call[p].list \cup {p}
<1>3. ASSUME NEW y \in Requests, ClosePosition(y) \/ CloseAll(y) PROVE Goal
  BY <1>1, <1>2, <1>3 DEF ClosePosition, CloseAll
<1>4. ASSUME NEW y \in Callers, Enter(y) PROVE Goal
  BY <1>1, <1>2, <1>4 DEF Enter, Calls
<1>5. ASSUME NEW y \in Callers, Drops(y) PROVE Goal
  BY <1>1, <1>2, <1>5 DEF Drops
<1>6. ASSUME NEW y \in Callers, NEW q, Past(y, q) PROVE Goal
  <2>1. \/ call' = [call EXCEPT ![y] = Idle]
        \/ \E c \in Calls : /\ c.at = "in" /\ c.list \subseteq call[y].list
                            /\ call' = [call EXCEPT ![y] = c]
    BY <1>6, PastGoesOn DEF TypeOK
  <2> QED
    BY <1>1, <1>2, <2>1
<1>7. ASSUME NEW y \in Callers, Tell(y) PROVE Goal
  BY <1>6, <1>7 DEF Tell
<1>8. ASSUME NEW y \in Callers, NEW q \in Positions, CloseFails(y, q) \/ CommitUnheard(y, q)
      PROVE  Goal
  BY <1>6, <1>8 DEF CloseFails, CommitUnheard
<1>9. ASSUME NEW y \in Callers, NEW q \in Positions, Commit(y, q) PROVE Goal
  <2> DEFINE n == row[q].volume - CloseVolume(y, q)
  <2>1. call' = [call EXCEPT ![y] = [call[y] EXCEPT !.at = "tell", !.pos = q, !.left = n]]
    BY <1>1, <1>2, <1>9 DEF Commit
  <2> HIDE DEF n
  <2>2. [call[p] EXCEPT !.at = "tell", !.pos = q, !.left = n].list = call[p].list
    BY <1>1 DEF Calls
  <2>3. call'[p] = call[p] \/ call'[p] = [call[p] EXCEPT !.at = "tell", !.pos = q, !.left = n]
    BY <1>1, <1>2, <2>1
  <2> QED
    BY <2>2, <2>3
<1>10. ASSUME NEW q \in Positions, TickRetry(q) PROVE Goal
  BY <1>1, <1>2, <1>10 DEF TickRetry
<1>11. ASSUME NEW q \in Positions, TaskWakes(q) PROVE Goal
  BY <1>1, <1>2, <1>11 DEF TaskWakes, Calls
<1>12. ASSUME TickWrite PROVE Goal
  <2> DEFINE q == tick.pos  c == Claimed(q, tick.rows[q].level)
             d == [Claimed(q, tick.rows[q].level) EXCEPT !.at = "asleep"]
  <2>1. d.list = {q}
    BY DEF Claimed, Idle
  <2> HIDE DEF c, d
  <2>2. UNCHANGED call \/ call' = [call EXCEPT ![q] = d] \/ call' = [call EXCEPT ![TickLoop] = c]
    BY <1>12 DEF TickWrite, c, d
  <2> QED
    BY <1>1, <1>2, <2>1, <2>2
<1>13. ASSUME NEW a \in Accounts, StopOutRound(a) PROVE Goal
  BY <1>1, <1>2, <1>13 DEF StopOutRound
<1>14. Crash => Goal
  BY <1>1, <1>2 DEF Crash
<1>15. UNCHANGED call => Goal
  OBVIOUS
<1> HIDE DEF Goal
<1>16. Goal
  BY <1>3, <1>4, <1>5, <1>7, <1>8, <1>9, <1>10, <1>11, <1>12, <1>13, <1>14, <1>15, CallWriters
  DEF CallChange
<1> QED
  BY <1>16 DEF Goal

\* Only a trigger sets a deadline.
LEMMA DeadlineSteps ==
  ASSUME [Next]_vars, NEW p \in Positions, p \in delayed'
  PROVE  p \in delayed \/ TickTrigger(p)
BY MemoryWriters
DEF MemoryStep, Tell, TickTrigger, DeadlinePasses, TickWrite, Crash, Hydrate, EditBook, memory

\* Every close on a claim goes on as claimed.
LEMMA CallsAsClaimedStep ==
  ASSUME ClaimInv, [Next]_vars
  PROVE  CallsAsClaimed'
<1>1. TypeOK /\ ClaimsRecorded /\ ClaimBeingWritten /\ CallsAsClaimed /\ TasksOwn
  BY DEF ClaimInv
<1> SUFFICES ASSUME NEW x \in Callers, NEW p \in Positions, call'[x].claim, p \in call'[x].list
             PROVE  \/ Dropped(p)'
                    \/ /\ claims'[p].on /\ Leveled(p, call[x].level)'
                       /\ call'[x].at # "asleep" => p \notin delayed'
  BY DEF CallsAsClaimed, Dropped, Open
<1>2. ~Crash
  BY DEF Crash, Idle
<1>3. ASSUME claims[p].on \/ Dropped(p), ~Dropped(p)' PROVE claims[p].on /\ claims'[p].on
  BY <1>1, <1>2, <1>3, RecordStays, DroppedStays
<1>4. ASSUME claims[p].on, p \notin delayed PROVE p \notin delayed'
  BY <1>4, DeadlineSteps DEF TickTrigger, IsClaimed
<1>5. ASSUME NEW l, Leveled(p, l), call'[x].level = l PROVE Leveled(p, call[x].level)'
  BY <1>1, <1>5, DroppedStays DEF Leveled
<1>6. CASE /\ call[x].claim /\ p \in call[x].list /\ call'[x].level = call[x].level
           /\ call'[x].at # "asleep" => call[x].at # "asleep" \/ p \notin delayed
  <2>1. \/ Dropped(p)
        \/ /\ claims[p].on /\ Leveled(p, call[x].level)
           /\ call[x].at # "asleep" => p \notin delayed
    BY <1>1, <1>6 DEF CallsAsClaimed
  <2>2. CASE Dropped(p)
    BY <1>1, <2>2, DroppedStays
  <2>3. CASE ~Dropped(p)
    <3>1. claims[p].on /\ Leveled(p, call[x].level)
      BY <2>1, <2>3
    <3>2. call'[x].at # "asleep" => p \notin delayed'
      BY <1>4, <1>6, <2>1, <2>3
    <3>3. Leveled(p, call[x].level)'
      BY <1>5, <1>6, <3>1
    <3> QED
      BY <1>3, <3>1, <3>2, <3>3
  <2> QED
    BY <2>2, <2>3
<1>7. CASE TickRetry(p) /\ ~MustWait(p) /\ call'[x].level = claims[p].level
  <2>1. claims[p].on \/ Dropped(p)
    BY <1>1, <1>7 DEF TickRetry, IsClaimed, ClaimsRecorded
  <2>2. claims[p].on => p \notin delayed
    BY <1>7 DEF MustWait
  <2>3. claims[p].on => Leveled(p, claims[p].level)
    BY <1>1 DEF ClaimsRecorded
  <2> QED
    BY <1>3, <1>4, <1>5, <1>7, <2>1, <2>2, <2>3
<1>8. CASE /\ TickWrite /\ p = tick.pos /\ call'[x].level = tick.rows[p].level
           /\ call'[x].at # "asleep" => p \notin delayed
  <2>1. (claims[p].on \/ Dropped(p)) /\ tick.rows[p].level # 0
    BY <1>1, <1>8 DEF TickWrite, ClaimBeingWritten
  <2>2. Leveled(p, call[x].level)'
    BY <1>8, <2>1 DEF Leveled
  <2> QED
    BY <1>3, <1>4, <1>8, <2>1, <2>2
<1> QED
  BY <1>1, <1>2, <1>6, <1>7, <1>8, ClaimedCalls

\* Every claim is where it has to be, in every state.
LEMMA ClaimInvariance == Spec => []ClaimInv
<1>1. Init => ClaimInv
  <2> SUFFICES ASSUME Init PROVE ClaimInv
    OBVIOUS
  <2>1. /\ \A x \in Callers : call[x] = Idle
        /\ Idle.at = "idle" /\ Idle.list = {} /\ ~Idle.claim /\ Positions \subseteq Callers
    BY DEF Init, Idle, Callers
  <2>2. /\ engine = "up" /\ tick = IdleTick /\ IdleTick.at = "idle" /\ DOMAIN IdleTick.rows = {}
        /\ \A e \in Editors : editor[e].at = "idle"
    BY DEF Init, IdleTick, IdleEditor
  <2>3. \A p \in Positions : ~claims[p].on /\ ~book[p].claim /\ ~row[p].claim
    BY DEF Init, NoClaim
  <2>4. TasksClaimed /\ Exclusion /\ TellKnows /\ TasksOwn /\ CallsAsClaimed
    BY <2>1, <2>2 DEF TasksClaimed, Exclusion, Inside, TellKnows, TasksOwn, CallsAsClaimed
  <2>5. Quiet /\ ClaimBeingWritten /\ ClaimsOverRestart
    BY <2>2 DEF Quiet, ClaimBeingWritten, ClaimsOverRestart
  <2>6. ClaimsRecorded /\ ClaimsKnown
    BY <2>2, <2>3 DEF ClaimsRecorded, ClaimsKnown
  <2> QED
    BY <2>4, <2>5, <2>6, InitType DEF ClaimInv
<1>2. ClaimInv /\ [Next]_vars => ClaimInv'
  <2> SUFFICES ASSUME ClaimInv, [Next]_vars PROVE ClaimInv'
    OBVIOUS
  <2>1. TypeOK /\ TasksClaimed /\ Exclusion /\ TellKnows /\ Quiet /\ TasksOwn
    BY DEF ClaimInv
  <2>2. TypeOK'
    BY <2>1, LedgerTypeStep, MemoryTypeStep, CallTypeStep, LoopsTypeStep, DeskTypeStep,
       WorkerTypeStep, SpentTypeStep DEF TypeOK
  <2>3. TasksClaimed' /\ Exclusion' /\ TellKnows' /\ Quiet' /\ TasksOwn'
    BY <2>1, TasksClaimedStep, ExclusionStep, TellKnowsStep, QuietStep, TasksOwnStep
  <2>4. ClaimsRecorded' /\ ClaimsKnown' /\ ClaimBeingWritten'
    BY ClaimsRecordedStep, ClaimsKnownStep, ClaimBeingWrittenStep
  <2>5. ClaimsOverRestart' /\ CallsAsClaimed'
    BY ClaimsOverRestartStep, CallsAsClaimedStep
  <2> QED
    BY <2>2, <2>3, <2>4, <2>5 DEF ClaimInv
<1> QED
  BY <1>1, <1>2, PTL DEF Spec

\* Whether the loop itself, the task of the position or a retry after a failure or a restart
\* carries it out: a close on a claim is after its deadline, on the level of its claim.
THEOREM ClaimsAreKept == Spec => ClosesAsClaimed
<1> DEFINE Kept ==
      \A x \in Callers, p \in Positions :
        Commit(x, p) /\ call[x].claim =>
          \/ "partial" \in lost[p]
          \/ p \notin delayed /\ (call[x].level # 0 \/ "restart" \in lost[p])
<1>1. ClaimInv /\ [Next]_vars => [Kept]_vars
  BY DEF ClaimInv, CallsAsClaimed, Dropped, Leveled, Commit
<1> QED
  BY <1>1, ClaimInvariance, PTL DEF Spec, ClosesAsClaimed

=============================================================================
