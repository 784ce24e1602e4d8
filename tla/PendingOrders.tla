--------------------------- MODULE PendingOrders ----------------------------
(***************************************************************************)
(* The life of a resting order in the matching engine (trading-core-rs).   *)
(*                                                                         *)
(* Four kinds of actor touch an order and none of them holds a lock over   *)
(* it: the HTTP handlers that place, edit and cancel it, the tick loop     *)
(* that walks a copy of the in-memory book, the fill task the loop spawns, *)
(* and a restart that rebuilds the book from the database.  Each await in  *)
(* the code ends a step here, so every interleaving of their database      *)
(* statements and book updates is a behaviour.                             *)
(*                                                                         *)
(* Prices are abstract: whether a quote makes an order fire is chosen      *)
(* among the answers pending_fires can give it.  So is the delay of a      *)
(* fill: a task stands still between two of its steps.                     *)
(***************************************************************************)
EXTENDS Naturals, FiniteSets

CONSTANTS
  Orders,         \* ids of resting orders
  Terms,          \* price, volume and stops of an order, as one value
  Tasks,          \* tokio tasks that can run a fill at the same time
  Editors,        \* modify_order requests that can run at the same time
  MaxCrashes,     \* bound: process crashes
  MaxDbFaults,    \* bound: statements whose failure the code ignores
  MaxTransient,   \* bound: errors passed up with `?`, and requests dropped
  MaxFaults       \* bound: crashes and errors of all kinds together

ASSUME BoundsAssumption ==
  /\ MaxCrashes \in Nat
  /\ MaxDbFaults \in Nat
  /\ MaxTransient \in Nat
  /\ MaxFaults \in Nat

VARIABLES
  row,        \* the orders table, one row per order
  opened,     \* number of positions in the database opened for an order
  filledWith, \* terms of the position opened last for an order
  due,        \* orders whose expiresAt has passed
  up,         \* the engine process is running
  book,       \* PendingBook: the in-memory rows
  inflight,   \* pending_inflight
  task,       \* the fill tasks
  tick,       \* the pass of trigger_pending over its copy of the book
  place,      \* per order, its place_pending handler
  editor,     \* the modify_order handlers
  dropping,   \* orders whose cancel_order has written but not left the book
  faults,     \* faults spent: crashes, ignored errors, errors passed up
  orphans,    \* history: positions whose FILLED row was never written
  raced,      \* history: per order, the ways in which its edits crossed others
  unsaid      \* history: per order, what its row has and the book was not told

vars == <<row, opened, filledWith, due, up, book, inflight, task, tick, place,
          editor, dropping, faults, orphans, raced, unsaid>>

database == <<row, opened, filledWith, due>>
history  == <<orphans, raced, unsaid>>

Working  == {"PENDING", "PARTIAL"}
Terminal == {"FILLED", "CANCELLED", "EXPIRED", "REJECTED"}

\* No book row: the order is not watched.
NoRow == [status |-> "absent", armed |-> FALSE, terms |-> "none"]

IdleTask   == [pc |-> "idle", order |-> "none", terms |-> "none"]
Placed     == [pc |-> "done", terms |-> "none"]
IdleEditor == [pc |-> "idle", order |-> "none", terms |-> "none"]

\* A pass of the tick loop: the copies of the rows it has yet to visit, and the
\* statement it is in the middle of.
IdleTick == [pc |-> "idle", rows |-> [o \in {} |-> NoRow], order |-> "none"]

Watched(o) == book[o].status # "absent"

Init ==
  /\ row = [o \in Orders |-> [status |-> "none", armed |-> FALSE,
                              terms |-> "none", linked |-> FALSE]]
  /\ opened = [o \in Orders |-> 0]
  /\ filledWith = [o \in Orders |-> "none"]
  /\ due = {}
  /\ up = TRUE
  /\ book = [o \in Orders |-> NoRow]
  /\ inflight = {}
  /\ task = [t \in Tasks |-> IdleTask]
  /\ tick = IdleTick
  /\ place = [o \in Orders |-> [pc |-> "new", terms |-> "none"]]
  /\ editor = [e \in Editors |-> IdleEditor]
  /\ dropping = {}
  /\ faults = [crash |-> 0, db |-> 0, transient |-> 0]
  /\ orphans = [o \in Orders |-> 0]
  /\ raced = [o \in Orders |-> {}]
  /\ unsaid = [o \in Orders |-> {}]

-----------------------------------------------------------------------------
(* Shared pieces of the handlers                                            *)

SetStatus(o, s) == row' = [row EXCEPT ![o].status = s]

MoreFaults == faults.crash + faults.db + faults.transient < MaxFaults

\* An UPDATE whose error is dropped with `let _ =` may change nothing.
DbFault ==
  /\ MoreFaults
  /\ faults.db < MaxDbFaults
  /\ faults' = [faults EXCEPT !.db = @ + 1]

\* An error that goes back up with `?`, or a client that goes away: axum drops
\* the handler of a request at the await it has come to.
Transient ==
  /\ MoreFaults
  /\ faults.transient < MaxTransient
  /\ faults' = [faults EXCEPT !.transient = @ + 1]

\* A statement was carried out and its answer lost, or its handler dropped: what
\* was to follow it is not done, and the book is not told.
Unheard(o, what) ==
  /\ Transient
  /\ unsaid' = [unsaid EXCEPT ![o] = @ \cup {what}]

\* What is told to the book now is not unsaid any more.
Tells(o, what) == unsaid' = [unsaid EXCEPT ![o] = @ \ {what}]

RemoveFromBook(o) == book' = [book EXCEPT ![o] = NoRow]

\* PendingBook::patch changes a row only if the book has it.
PatchBook(o, field) ==
  book' = IF Watched(o)
            THEN [book EXCEPT ![o] =
                    IF field = "armed" THEN [@ EXCEPT !.armed = TRUE]
                                       ELSE [@ EXCEPT !.status = "PARTIAL"]]
            ELSE book

\* What pending_fires may answer: only a stop-limit that is not armed yet can
\* be armed, and a quote that crosses both of its levels fills it at once.
Outcomes(armed) == {"None", "Fill"} \cup (IF armed THEN {} ELSE {"ArmStopLimit"})

\* Mutant: the in-flight set is not consulted.
StartPendingFillAgain(o) ==
  \E t \in Tasks :
    /\ task[t].pc = "idle"
    /\ inflight' = inflight \cup {o}
    /\ task' = [task EXCEPT ![t] = [pc |-> "read", order |-> o, terms |-> "none"]]

StartPendingFill(o) ==
  IF o \in inflight
    THEN UNCHANGED <<inflight, task>>
    ELSE \E t \in Tasks :
           /\ task[t].pc = "idle"
           /\ inflight' = inflight \cup {o}
           /\ task' = [task EXCEPT ![t] = [pc |-> "read", order |-> o, terms |-> "none"]]

-----------------------------------------------------------------------------
(* place_pending: the handler of a new resting order                        *)

\* INSERT the order, then judge it against the quote: an IOC or FOK order that
\* does not fire is closed on the spot, anything else rests.
PlaceInsert(o) ==
  /\ up
  /\ place[o].pc = "new"
  /\ \E v \in Terms, next \in {"kill", "rest", "restAndFire"} :
       /\ row' = [row EXCEPT ![o] = [status |-> "PENDING", armed |-> FALSE,
                                     terms |-> v, linked |-> FALSE]]
       /\ place' = [place EXCEPT ![o] = [pc |-> next, terms |-> v]]
  /\ UNCHANGED <<opened, filledWith, due, up, book, inflight, task, tick, editor,
                 dropping, faults, orphans, raced, unsaid>>

\* The UPDATE of an IOC (CANCELLED) or FOK (REJECTED) order names only its id.
PlaceKill(o) ==
  /\ place[o].pc = "kill"
  /\ \E s \in {"CANCELLED", "REJECTED"} : SetStatus(o, s)
  /\ place' = [place EXCEPT ![o] = Placed]
  /\ UNCHANGED <<opened, filledWith, due, up, book, inflight, task, tick, editor,
                 dropping, faults, orphans, raced, unsaid>>

\* The book gets the terms of the request, whatever an edit made of the row.
PlaceUpsert(o) ==
  /\ place[o].pc \in {"rest", "restAndFire"}
  /\ book' = [book EXCEPT ![o] = [status |-> "PENDING", armed |-> FALSE,
                                  terms |-> place[o].terms]]
  /\ place' = [place EXCEPT ![o] = IF @.pc = "rest" THEN Placed ELSE [pc |-> "fire", terms |-> "none"]]
  /\ UNCHANGED <<row, opened, filledWith, due, up, inflight, task, tick, editor,
                 dropping, faults, orphans, raced, unsaid>>

PlaceFire(o) ==
  /\ place[o].pc = "fire"
  /\ \/ /\ row[o].status \in Working
        /\ SetStatus(o, "PARTIAL")
        /\ place' = [place EXCEPT ![o].pc = "start"]
        /\ UNCHANGED faults
     \/ /\ row[o].status \notin Working
        /\ place' = [place EXCEPT ![o] = Placed]
        /\ UNCHANGED <<row, faults>>
     \/ /\ Transient
        /\ place' = [place EXCEPT ![o] = Placed]
        /\ UNCHANGED row
  /\ UNCHANGED <<opened, filledWith, due, up, book, inflight, task, tick, editor,
                 dropping, orphans, raced, unsaid>>

PlaceStart(o) ==
  /\ place[o].pc = "start"
  /\ PatchBook(o, "status")
  /\ Tells(o, "fired")
  /\ StartPendingFill(o)
  /\ place' = [place EXCEPT ![o] = Placed]
  /\ UNCHANGED <<row, opened, filledWith, due, up, tick, editor, dropping, faults,
                 orphans, raced>>

\* The handler ends at one of its statements: the order was inserted and is in
\* no book; the order to be killed stays PENDING in the table, in no book
\* either; or the order has triggered and its book row does not say so.
PlaceUnheard(o) ==
  /\ \/ /\ up
        /\ place[o].pc = "new"
        /\ \E v \in Terms : row' = [row EXCEPT ![o] =
             [status |-> "PENDING", armed |-> FALSE, terms |-> v, linked |-> FALSE]]
        /\ Unheard(o, "order")
     \/ /\ place[o].pc = "kill"
        /\ Unheard(o, "order")
        /\ UNCHANGED row
     \/ /\ place[o].pc = "fire"
        /\ row[o].status \in Working
        /\ SetStatus(o, "PARTIAL")
        /\ Unheard(o, "fired")
  /\ place' = [place EXCEPT ![o] = Placed]
  /\ UNCHANGED <<opened, filledWith, due, up, book, inflight, task, tick, editor,
                 dropping, orphans, raced>>

-----------------------------------------------------------------------------
(* cancel_order and modify_order                                            *)

\* The UPDATE is guarded: only an order that is pending, or triggered without
\* a position, can be cancelled.  Nothing asks whether its fill has begun.
Cancellable(o) ==
  \/ row[o].status = "PENDING"
  \/ row[o].status = "PARTIAL" /\ ~row[o].linked

CancelWrite(o) ==
  /\ up
  /\ Cancellable(o)
  /\ SetStatus(o, "CANCELLED")
  /\ dropping' = dropping \cup {o}
  /\ UNCHANGED <<opened, filledWith, due, up, book, inflight, task, tick, place,
                 editor, faults, orphans, raced, unsaid>>

CancelDrop(o) ==
  /\ o \in dropping
  /\ RemoveFromBook(o)
  /\ dropping' = dropping \ {o}
  /\ UNCHANGED <<row, opened, filledWith, due, up, inflight, task, tick, place,
                 editor, faults, orphans, raced, unsaid>>

\* The order is cancelled and its book row stays, until a pass comes to it.
CancelUnheard(o) ==
  /\ up
  /\ Cancellable(o)
  /\ SetStatus(o, "CANCELLED")
  /\ Transient
  /\ UNCHANGED <<opened, filledWith, due, up, book, inflight, task, tick, place,
                 editor, dropping, orphans, raced, unsaid>>

\* SELECT ... WHERE status = 'PENDING', then the checks of the new terms.
EditRead(e, o) ==
  /\ up
  /\ editor[e].pc = "idle"
  /\ row[o].status = "PENDING"
  /\ \E v \in Terms : editor' = [editor EXCEPT ![e] = [pc |-> "write", order |-> o, terms |-> v]]
  /\ UNCHANGED <<row, opened, filledWith, due, up, book, inflight, task, tick, place,
                 dropping, faults, orphans, raced, unsaid>>

\* The ways an edit that is being written meets another actor: the order has
\* left PENDING since it was read, or another handler is about to overwrite
\* the terms of the book row.
Crossings(e, o) ==
  (IF row[o].status # "PENDING" THEN {"closed"} ELSE {})
  \cup (IF \/ place[o].pc \in {"rest", "restAndFire"}
           \/ \E f \in Editors \ {e} : editor[f].pc = "patch" /\ editor[f].order = o
          THEN {"book"} ELSE {})

\* UPDATE ... WHERE id: the status it was checked against is not read again.
EditWrite(e) ==
  LET o == editor[e].order IN
  /\ editor[e].pc = "write"
  /\ row' = [row EXCEPT ![o].terms = editor[e].terms]
  /\ editor' = [editor EXCEPT ![e].pc = "patch"]
  /\ raced' = [raced EXCEPT ![o] = @ \cup Crossings(e, o)]
  /\ Tells(o, "terms")
  /\ UNCHANGED <<opened, filledWith, due, up, book, inflight, task, tick, place,
                 dropping, faults, orphans>>

\* The request ends at its UPDATE, whether it was carried out or not.
EditUnheard(e) ==
  LET o == editor[e].order IN
  /\ editor[e].pc = "write"
  /\ \/ /\ row' = [row EXCEPT ![o].terms = editor[e].terms]
        /\ raced' = [raced EXCEPT ![o] = @ \cup Crossings(e, o)]
        /\ Unheard(o, "terms")
     \/ /\ Transient
        /\ UNCHANGED <<row, raced, unsaid>>
  /\ editor' = [editor EXCEPT ![e] = IdleEditor]
  /\ UNCHANGED <<opened, filledWith, due, up, book, inflight, task, tick, place,
                 dropping, orphans>>

\* Mutant: the book keeps the old terms.
EditPatchForgotten(e) ==
  /\ editor[e].pc = "patch"
  /\ editor' = [editor EXCEPT ![e] = IdleEditor]
  /\ UNCHANGED <<row, opened, filledWith, due, up, book, inflight, task, tick, place,
                 dropping, faults, orphans, raced, unsaid>>

EditPatch(e) ==
  LET o == editor[e].order IN
  /\ editor[e].pc = "patch"
  /\ book' = IF Watched(o) THEN [book EXCEPT ![o].terms = editor[e].terms] ELSE book
  /\ editor' = [editor EXCEPT ![e] = IdleEditor]
  /\ UNCHANGED <<row, opened, filledWith, due, up, inflight, task, tick, place,
                 dropping, faults, orphans, raced, unsaid>>

-----------------------------------------------------------------------------
(* trigger_pending: one pass over a copy of the book                        *)

\* expiresAt passes.  Only an order that was given one expires.
FallDue(o) ==
  /\ o \notin due
  /\ row[o].status # "none"
  /\ due' = due \cup {o}
  /\ UNCHANGED <<row, opened, filledWith, up, book, inflight, task, tick, place,
                 editor, dropping, faults, orphans, raced, unsaid>>

\* Mutant: expiresAt is not looked at.
TickBeginUntimed ==
  LET working == {o \in Orders : Watched(o)} IN
  /\ up
  /\ tick.pc = "idle"
  /\ working # {}
  /\ tick' = [pc |-> "walk", order |-> "none",
              rows |-> [o \in working |-> [status |-> book[o].status,
                                           armed |-> book[o].armed, late |-> FALSE]]]
  /\ UNCHANGED <<row, opened, filledWith, due, up, book, inflight, task, place,
                 editor, dropping, faults, orphans, raced, unsaid>>

\* The copy also fixes which rows are late: now() is read with it.
TickBegin ==
  LET working == {o \in Orders : Watched(o)} IN
  /\ up
  /\ tick.pc = "idle"
  /\ working # {}
  /\ tick' = [pc |-> "walk", order |-> "none",
              rows |-> [o \in working |-> [status |-> book[o].status,
                                           armed |-> book[o].armed,
                                           late |-> o \in due]]]
  /\ UNCHANGED <<row, opened, filledWith, due, up, book, inflight, task, place,
                 editor, dropping, faults, orphans, raced, unsaid>>

RowsBut(o) == [p \in DOMAIN tick.rows \ {o} |-> tick.rows[p]]

\* The pass goes on to its next row, or is over.
Walk(rows) ==
  IF DOMAIN rows = {} THEN IdleTick
  ELSE [pc |-> "walk", rows |-> rows, order |-> "none"]

\* The loop stops at the statement it has just awaited for row o.
Pause(pc, o) == [pc |-> pc, rows |-> RowsBut(o), order |-> o]

\* The loop comes to row o: late, already triggered, or resting.
Comes(o) == tick.pc = "walk" /\ o \in DOMAIN tick.rows

\* An expired row is closed by id, whatever the table holds by now, and a
\* failure of the UPDATE is ignored.
TickExpire(o) ==
  /\ Comes(o) /\ tick.rows[o].late
  /\ \/ SetStatus(o, "EXPIRED") /\ UNCHANGED faults
     \/ DbFault /\ UNCHANGED row
  /\ tick' = Pause("expired", o)
  /\ UNCHANGED <<opened, filledWith, due, up, book, inflight, task, place, editor,
                 dropping, orphans, raced, unsaid>>

TickExpireDrop ==
  /\ tick.pc = "expired"
  /\ RemoveFromBook(tick.order)
  /\ tick' = Walk(tick.rows)
  /\ UNCHANGED <<row, opened, filledWith, due, up, inflight, task, place, editor,
                 dropping, faults, orphans, raced, unsaid>>

\* Mutant: a triggered row is left to the fill that was started for it.
TickLeaveTriggered(o) ==
  /\ Comes(o) /\ ~tick.rows[o].late
  /\ tick.rows[o].status = "PARTIAL"
  /\ tick' = Walk(RowsBut(o))
  /\ UNCHANGED <<row, opened, filledWith, due, up, book, inflight, task, place,
                 editor, dropping, faults, orphans, raced, unsaid>>

\* The copy says the order has triggered: (re)start its fill.
TickRestartFill(o) ==
  /\ Comes(o) /\ ~tick.rows[o].late
  /\ tick.rows[o].status = "PARTIAL"
  /\ StartPendingFill(o)
  /\ tick' = Walk(RowsBut(o))
  /\ UNCHANGED <<row, opened, filledWith, due, up, book, place, editor, dropping,
                 faults, orphans, raced, unsaid>>

\* A resting row of the copy is judged by the quote of the pass.
Judged(o, outcome) ==
  /\ Comes(o) /\ ~tick.rows[o].late
  /\ tick.rows[o].status = "PENDING"
  /\ outcome \in Outcomes(tick.rows[o].armed)

TickPass(o) ==
  /\ Judged(o, "None")
  /\ tick' = Walk(RowsBut(o))
  /\ UNCHANGED <<row, opened, filledWith, due, up, book, inflight, task, place,
                 editor, dropping, faults, orphans, raced, unsaid>>

TickArm(o) ==
  /\ Judged(o, "ArmStopLimit")
  /\ \/ /\ row[o].status = "PENDING" /\ ~row[o].armed
        /\ row' = [row EXCEPT ![o].armed = TRUE]
        /\ tick' = Pause("armed", o)
     \/ /\ ~(row[o].status = "PENDING" /\ ~row[o].armed)
        /\ tick' = Walk(RowsBut(o))
        /\ UNCHANGED row
  /\ UNCHANGED <<opened, filledWith, due, up, book, inflight, task, place, editor,
                 dropping, faults, orphans, raced, unsaid>>

TickArmPatch ==
  /\ tick.pc = "armed"
  /\ PatchBook(tick.order, "armed")
  /\ tick' = Walk(tick.rows)
  /\ UNCHANGED <<row, opened, filledWith, due, up, inflight, task, place, editor,
                 dropping, faults, orphans, raced, unsaid>>

\* Mutant: the UPDATE names only the id of the order.
TickFireById(o) ==
  /\ Judged(o, "Fill")
  /\ SetStatus(o, "PARTIAL")
  /\ tick' = Pause("fired", o)
  /\ UNCHANGED <<opened, filledWith, due, up, book, inflight, task, place, editor,
                 dropping, faults, orphans, raced, unsaid>>

\* No row updated: the order is left in the book as it is.
TickFire(o) ==
  /\ Judged(o, "Fill")
  /\ \/ /\ row[o].status \in Working
        /\ SetStatus(o, "PARTIAL")
        /\ tick' = Pause("fired", o)
     \/ /\ row[o].status \notin Working
        /\ tick' = Walk(RowsBut(o))
        /\ UNCHANGED row
  /\ UNCHANGED <<opened, filledWith, due, up, book, inflight, task, place, editor,
                 dropping, faults, orphans, raced, unsaid>>

TickFirePatch ==
  /\ tick.pc = "fired"
  /\ PatchBook(tick.order, "status")
  /\ Tells(tick.order, "fired")
  /\ StartPendingFill(tick.order)
  /\ tick' = Walk(tick.rows)
  /\ UNCHANGED <<row, opened, filledWith, due, up, place, editor, dropping, faults,
                 orphans, raced>>

\* An UPDATE of the pass is carried out, its answer lost, and the pass is over:
\* the table says armed or triggered and the book does not.
TickUnheard(o) ==
  /\ \/ /\ Judged(o, "ArmStopLimit")
        /\ row[o].status = "PENDING" /\ ~row[o].armed
        /\ row' = [row EXCEPT ![o].armed = TRUE]
        /\ Unheard(o, "armed")
     \/ /\ Judged(o, "Fill")
        /\ row[o].status \in Working
        /\ SetStatus(o, "PARTIAL")
        /\ Unheard(o, "fired")
  /\ tick' = IdleTick
  /\ UNCHANGED <<opened, filledWith, due, up, book, inflight, task, place, editor,
                 dropping, orphans, raced>>

\* A database error in the pass gives up the rows it has not come to.
TickAbort ==
  /\ tick.pc = "walk"
  /\ Transient
  /\ tick' = IdleTick
  /\ UNCHANGED <<row, opened, filledWith, due, up, book, inflight, task, place,
                 editor, dropping, orphans, raced, unsaid>>

-----------------------------------------------------------------------------
(* fill_pending: the task of one triggered order                            *)

At(t, pc) == task[t].pc = pc
Goto(t, pc) == task' = [task EXCEPT ![t].pc = pc]
\* The terms the task has read are of no more use to it.
Forget(t, pc) == task' = [task EXCEPT ![t].pc = pc, ![t].terms = "none"]

\* Mutant: the terms are taken from the copy in the book.
FillReadBook(t) ==
  LET o == task[t].order IN
  /\ At(t, "read")
  /\ task' = [task EXCEPT ![t] =
                IF row[o].status \in Working
                  THEN [@ EXCEPT !.pc = "wait", !.terms = book[o].terms]
                  ELSE [@ EXCEPT !.pc = "drop"]]
  /\ UNCHANGED <<row, opened, filledWith, due, up, book, inflight, tick, place,
                 editor, dropping, faults, orphans, raced, unsaid>>

\* The terms the position will get are read here, before the delay.
FillRead(t) ==
  LET o == task[t].order IN
  /\ At(t, "read")
  /\ task' = [task EXCEPT ![t] =
                IF row[o].status \in Working
                  THEN [@ EXCEPT !.pc = "wait", !.terms = row[o].terms]
                  ELSE [@ EXCEPT !.pc = "drop"]]
  /\ UNCHANGED <<row, opened, filledWith, due, up, book, inflight, tick, place,
                 editor, dropping, faults, orphans, raced, unsaid>>

\* Mutant: the status is not read again after the delay.
FillRecheckSkipped(t) ==
  /\ At(t, "wait")
  /\ Goto(t, "commit")
  /\ UNCHANGED <<row, opened, filledWith, due, up, book, inflight, tick, place,
                 editor, dropping, faults, orphans, raced, unsaid>>

\* After the delay the status, and only the status, is read again.
FillRecheck(t) ==
  /\ At(t, "wait")
  /\ IF row[task[t].order].status \in Working THEN Goto(t, "commit") ELSE Forget(t, "drop")
  /\ UNCHANGED <<row, opened, filledWith, due, up, book, inflight, tick, place,
                 editor, dropping, faults, orphans, raced, unsaid>>

\* execute_market commits the position and its own order and deal rows in one
\* transaction that does not touch the row of the resting order.
OpenPosition(t) ==
  LET o == task[t].order IN
  /\ opened' = [opened EXCEPT ![o] = @ + 1]
  /\ filledWith' = [filledWith EXCEPT ![o] = task[t].terms]

FillCommit(t) ==
  /\ At(t, "commit")
  /\ OpenPosition(t)
  /\ Forget(t, "record")
  /\ UNCHANGED <<row, due, up, book, inflight, tick, place, editor, dropping,
                 faults, orphans, raced, unsaid>>

\* The commit went through, its answer did not: an error like any other.
FillCommitUnheard(t) ==
  /\ At(t, "commit")
  /\ DbFault
  /\ OpenPosition(t)
  /\ orphans' = [orphans EXCEPT ![task[t].order] = @ + 1]
  /\ Forget(t, "done")
  /\ UNCHANGED <<row, due, up, book, inflight, tick, place, editor, dropping, raced, unsaid>>

\* Insufficient margin, trading disabled or a bad volume.
FillRefuse(t) ==
  /\ At(t, "commit")
  /\ Forget(t, "refuse")
  /\ UNCHANGED <<row, opened, filledWith, due, up, book, inflight, tick, place,
                 editor, dropping, faults, orphans, raced, unsaid>>

\* Any other error (no live price, the database): the order stays triggered.
FillError(t) ==
  /\ task[t].pc \in {"read", "wait", "commit"}
  /\ Transient
  /\ Forget(t, "done")
  /\ UNCHANGED <<row, opened, filledWith, due, up, book, inflight, tick, place,
                 editor, dropping, orphans, raced, unsaid>>

\* UPDATE ... SET status = 'FILLED', positionId ... WHERE id; errors ignored.
FillRecord(t) ==
  LET o == task[t].order IN
  /\ At(t, "record")
  /\ \/ /\ row' = [row EXCEPT ![o].status = "FILLED", ![o].linked = TRUE]
        /\ UNCHANGED <<faults, orphans>>
     \/ /\ DbFault
        /\ orphans' = [orphans EXCEPT ![o] = @ + 1]
        /\ UNCHANGED row
  /\ Goto(t, "drop")
  /\ UNCHANGED <<opened, filledWith, due, up, book, inflight, tick, place, editor,
                 dropping, raced, unsaid>>

FillReject(t) ==
  /\ At(t, "refuse")
  /\ \/ SetStatus(task[t].order, "REJECTED") /\ UNCHANGED faults
     \/ DbFault /\ UNCHANGED row
  /\ Goto(t, "drop")
  /\ UNCHANGED <<opened, filledWith, due, up, book, inflight, tick, place, editor,
                 dropping, orphans, raced, unsaid>>

FillDrop(t) ==
  /\ At(t, "drop")
  /\ RemoveFromBook(task[t].order)
  /\ Goto(t, "done")
  /\ UNCHANGED <<row, opened, filledWith, due, up, inflight, tick, place, editor,
                 dropping, faults, orphans, raced, unsaid>>

\* The task ends and leaves the in-flight set.
FillDone(t) ==
  /\ At(t, "done")
  /\ inflight' = inflight \ {task[t].order}
  /\ task' = [task EXCEPT ![t] = IdleTask]
  /\ UNCHANGED <<row, opened, filledWith, due, up, book, tick, place, editor,
                 dropping, faults, orphans, raced, unsaid>>

-----------------------------------------------------------------------------
(* Process crash and hydrate                                                *)

Recording(o) == \E t \in Tasks : At(t, "record") /\ task[t].order = o

\* Everything in memory is gone, and so is every handler and task.  The book will
\* be read from the table, so that nothing is unsaid.
Crash ==
  /\ up
  /\ MoreFaults
  /\ faults.crash < MaxCrashes
  /\ faults' = [faults EXCEPT !.crash = @ + 1]
  /\ up' = FALSE
  /\ book' = [o \in Orders |-> NoRow]
  /\ inflight' = {}
  /\ task' = [t \in Tasks |-> IdleTask]
  /\ tick' = IdleTick
  /\ place' = [o \in Orders |-> IF place[o].pc = "new" THEN place[o]
                                ELSE Placed]
  /\ editor' = [e \in Editors |-> IdleEditor]
  /\ dropping' = {}
  /\ orphans' = [o \in Orders |-> orphans[o] + IF Recording(o) THEN 1 ELSE 0]
  /\ raced' = raced
  /\ unsaid' = [o \in Orders |-> {}]
  /\ UNCHANGED database

\* Mutant: only pending orders are loaded again.
ResumableIfPending(o) == row[o].status = "PENDING"

\* Mutant: every order of the table is loaded.
ResumableAny(o) == row[o].status # "none"

\* What hydrate selects: pending orders, and triggered ones with no position.
Resumable(o) ==
  \/ row[o].status = "PENDING"
  \/ row[o].status = "PARTIAL" /\ ~row[o].linked

\* Mutant: stopTriggered is not read back.
HydratedUnarmed(o) == [status |-> row[o].status, armed |-> FALSE, terms |-> row[o].terms]

Hydrated(o) == [status |-> row[o].status, armed |-> row[o].armed, terms |-> row[o].terms]

\* hydrate runs before the feed and the HTTP server start.  main() serves on
\* with an empty book when it fails.
Hydrate ==
  /\ ~up
  /\ up' = TRUE
  /\ \/ /\ book' = [o \in Orders |->
                      IF Resumable(o) THEN Hydrated(o) ELSE NoRow]
        /\ UNCHANGED faults
     \/ DbFault /\ UNCHANGED book
  /\ UNCHANGED <<database, inflight, task, tick, place, editor, dropping, orphans, raced, unsaid>>

-----------------------------------------------------------------------------
PlaceStep(o) ==
  PlaceKill(o) \/ PlaceUpsert(o) \/ PlaceFire(o) \/ PlaceStart(o)

TickStep(o) ==
  \/ TickExpire(o) \/ TickRestartFill(o) \/ TickPass(o) \/ TickArm(o) \/ TickFire(o)

FillStep(t) ==
  \/ FillRead(t) \/ FillRecheck(t) \/ FillCommit(t) \/ FillRefuse(t)
  \/ FillRecord(t) \/ FillReject(t) \/ FillDrop(t) \/ FillDone(t)

Next ==
  \/ \E o \in Orders : \/ PlaceInsert(o) \/ PlaceStep(o)
                       \/ PlaceUnheard(o)
                       \/ CancelWrite(o) \/ CancelUnheard(o) \/ CancelDrop(o)
                       \/ FallDue(o)
  \/ \E e \in Editors : \/ \E o \in Orders : EditRead(e, o)
                        \/ EditWrite(e) \/ EditUnheard(e) \/ EditPatch(e)
  \/ TickBegin \/ TickExpireDrop \/ TickArmPatch \/ TickFirePatch \/ TickAbort
  \/ \E o \in Orders : TickStep(o) \/ TickUnheard(o)
  \/ \E t \in Tasks : FillStep(t) \/ FillCommitUnheard(t) \/ FillError(t)
  \/ Crash \/ Hydrate

Spec == Init /\ [][Next]_vars

\* The runtime keeps running what it has started (handlers, fill tasks, the
\* tick loop), quotes keep coming and the supervisor restarts the process.
Fairness ==
  /\ \A o \in Orders : WF_vars(PlaceStep(o)) /\ WF_vars(CancelDrop(o))
  /\ \A e \in Editors : WF_vars(EditWrite(e) \/ EditPatch(e))
  /\ WF_vars(TickBegin) /\ WF_vars(TickExpireDrop \/ TickArmPatch \/ TickFirePatch)
  /\ \A o \in Orders : WF_vars(TickStep(o))
  /\ \A t \in Tasks : WF_vars(FillStep(t))
  /\ WF_vars(Hydrate)

FairSpec == Spec /\ Fairness
-----------------------------------------------------------------------------
(* Properties                                                               *)

TermsOrNone  == Terms \cup {"none"}
OrdersOrNone == Orders \cup {"none"}

RowRecords == [status : {"none"} \cup Working \cup Terminal, armed : BOOLEAN,
               terms : TermsOrNone, linked : BOOLEAN]
BookRows   == [status : {"absent"} \cup Working, armed : BOOLEAN, terms : TermsOrNone]
RowCopies  == UNION {[S -> [status : Working, armed : BOOLEAN, late : BOOLEAN]] :
                       S \in SUBSET Orders}
Passes     == [pc : {"idle", "walk", "expired", "armed", "fired"}, rows : RowCopies,
               order : OrdersOrNone]
TaskPcs    == {"idle", "read", "wait", "commit", "record", "refuse", "drop", "done"}
TaskRecords   == [pc : TaskPcs, order : OrdersOrNone, terms : TermsOrNone]
PlaceRecords  == [pc : {"new", "kill", "rest", "restAndFire", "fire", "start", "done"},
                  terms : TermsOrNone]
EditorRecords == [pc : {"idle", "write", "patch"}, order : OrdersOrNone,
                  terms : TermsOrNone]
FaultRecords  == [crash : 0..MaxCrashes, db : 0..MaxDbFaults, transient : 0..MaxTransient]

TypeOK ==
  /\ row \in [Orders -> RowRecords]
  /\ opened \in [Orders -> Nat]
  /\ filledWith \in [Orders -> TermsOrNone]
  /\ due \in SUBSET Orders
  /\ up \in BOOLEAN
  /\ book \in [Orders -> BookRows]
  /\ inflight \in SUBSET Orders
  /\ task \in [Tasks -> TaskRecords]
  /\ tick \in Passes
  /\ place \in [Orders -> PlaceRecords]
  /\ editor \in [Editors -> EditorRecords]
  /\ dropping \in SUBSET Orders
  /\ faults \in FaultRecords
  /\ orphans \in [Orders -> Nat]
  /\ raced \in [Orders -> SUBSET {"closed", "book"}]
  /\ unsaid \in [Orders -> SUBSET {"order", "armed", "fired", "terms"}]

\* An order is filled once, however ticks, handlers and tasks interleave: the
\* only way to a second position is a commit whose FILLED row was never
\* written, and each such loss accounts for one (pending_inflight and the
\* status reads of fill_pending).
OneFillPerRecordedOrder == \A o \in Orders : opened[o] <= 1 + orphans[o]

\* No handler, tick or task takes an order that has ended back to PENDING or
\* PARTIAL, not even the tick loop acting on an old copy of it.
NeverReopened ==
  [][\A o \in Orders : row[o].status \in Terminal => row'[o].status \in Terminal]_vars

\* An order that has ended while no fill task was past its second look at the
\* status is settled for good: no position is opened for it afterwards, and no
\* task gets past that look any more, across restarts too.
Settled(o) ==
  /\ row[o].status \in Terminal
  /\ ~\E t \in Tasks : task[t].pc = "commit" /\ task[t].order = o

SettledForGood ==
  [][\A o \in Orders : Settled(o) => Settled(o)' /\ opened'[o] = opened[o]]_vars

\* While no statement's failure was ignored, an order that is still working is
\* in the book of the running engine once its handler has put it there, and a
\* triggered one is known there as triggered (or its handler is about to say
\* so), so that a later tick picks its fill up again.  The exceptions are an
\* order whose handler ended between its row and the book, and one whose
\* UPDATE to PARTIAL was carried out and not heard; a restart mends both.
NoOrderForgotten ==
  up /\ faults.db = 0 =>
    \A o \in Orders :
      /\ row[o].status \in Working /\ place[o].pc \notin {"kill", "rest", "restAndFire"}
           => Watched(o) \/ "order" \in unsaid[o]
      /\ row[o].status = "PARTIAL" =>
           \/ book[o].status = "PARTIAL"
           \/ tick.pc = "fired" /\ tick.order = o
           \/ place[o].pc = "start"
           \/ "fired" \in unsaid[o]

\* A stop-limit whose stop was hit is armed in the book exactly when it is in
\* the table, but for the moment between the two writes: arming survives a
\* restart and is never undone by a tick's old copy.  When the answer to the
\* arming UPDATE was lost, the book learns of it by a restart only.
ArmingAgrees ==
  up => \A o \in Orders :
    Watched(o) =>
      \/ book[o].armed = row[o].armed
      \/ /\ row[o].armed
         /\ (tick.pc = "armed" /\ tick.order = o) \/ "armed" \in unsaid[o]

\* The engine triggers an order on the terms the table holds, unless an edit
\* was written while another handler was about to overwrite the book row, or
\* the last edit ended at its UPDATE and never came to the book.
BookHasTheTerms ==
  up => \A o \in Orders :
    Watched(o) /\ "book" \notin raced[o] /\ "terms" \notin unsaid[o]
      /\ ~(\E e \in Editors : editor[e].pc = "patch" /\ editor[e].order = o)
      => book[o].terms = row[o].terms

\* A filled order reads as its position was opened, unless an edit accepted
\* while it was pending was written after it had triggered.
FilledAsOrdered ==
  \A o \in Orders :
    row[o].status = "FILLED" /\ "closed" \notin raced[o] => filledWith[o] = row[o].terms

\* A triggered order does not hang: its fill is recorded or refused, or the
\* order is cancelled or expires (start_pending_fill on every later tick), if
\* the book was told that it has triggered.
TriggeredOrderEnds ==
  \A o \in Orders :
    row[o].status = "PARTIAL" /\ "fired" \notin unsaid[o] ~> row[o].status \in Terminal

\* An order whose time is over does not stay pending, unless its handler ended
\* before the book had it: then no pass comes to it until the next restart.
DueOrderEnds ==
  \A o \in Orders : o \in due /\ row[o].status \in Working ~>
                       row[o].status \in Terminal \/ "order" \in unsaid[o]

-----------------------------------------------------------------------------
(* What comments in the code claim, and the code does not keep             *)

\* "The in-flight set guarantees one fill per order" (engine_tick.rs, on
\* start_pending_fill).  A crash between the commit and the FILLED row breaks it.
OneFillPerOrder == \A o \in Orders : opened[o] <= 1
=============================================================================
