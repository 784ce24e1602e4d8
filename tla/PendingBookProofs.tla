-------------------------- MODULE PendingBookProofs --------------------------
(***************************************************************************)
(* What the in-memory book of PendingOrders has to do with the orders      *)
(* table, for any sets of orders, terms, tasks and editors and any bounds: *)
(* no working order is forgotten, stop-limits stay armed, and the terms an *)
(* order triggers on and fills with are those of its row.                  *)
(***************************************************************************)
EXTENDS PendingOrdersProofs

-----------------------------------------------------------------------------
(* The parts of the inductive invariant.                                    *)

\* A process that is down remembers nothing and runs nothing.
Down ==
  ~up => /\ \A o \in Orders : ~Watched(o) /\ place[o].pc \in {"new", "done"}
         /\ tick.pc = "idle"
         /\ DOMAIN tick.rows = {}
         /\ \A t \in Tasks : task[t].pc = "idle"
         /\ \A e \in Editors : editor[e].pc = "idle"
         /\ dropping = {}
         /\ \A o \in Orders : unsaid[o] = {}

Early == {"new", "kill", "rest", "restAndFire"}

\* Until its handler has put an order in the book no tick can arm or fire it,
\* and none ever does if the handler ended before.
NotYet(o) ==
  /\ place[o].pc \in Early \/ "order" \in unsaid[o] =>
       /\ ~Watched(o)
       /\ o \notin DOMAIN tick.rows
       /\ ~TickAt(o)
       /\ row[o].armed = FALSE
       /\ row[o].status # "PARTIAL"
  /\ "order" \in unsaid[o] => place[o].pc = "done"

EarlyInv == Down /\ \A o \in Orders : NotYet(o)

\* The book is patched for a stop-limit that the table already has armed.
ArmInv ==
  /\ ArmingAgrees
  /\ tick.pc = "armed" => row[tick.order].armed

Editing(e, o) == editor[e].pc = "patch" /\ editor[e].order = o

\* An edit that crossed nobody is about to give the book the terms of the row;
\* so is a handler whose order no edit touched.
TermsInv(o) ==
  "book" \notin raced[o] =>
    /\ Watched(o) /\ "terms" \notin unsaid[o] /\ ~(\E e \in Editors : Editing(e, o))
         => book[o].terms = row[o].terms
    /\ place[o].pc \in {"rest", "restAndFire"} => place[o].terms = row[o].terms
    /\ \A e \in Editors : Editing(e, o) =>
         /\ editor[e].terms = row[o].terms
         /\ \A f \in Editors : Editing(f, o) => e = f

EditInv ==
  /\ \A e \in Editors : editor[e].pc # "idle" => place[editor[e].order].pc # "new"
  /\ \A o \in Orders : TermsInv(o)

\* Whoever calls an order triggered: the book, a pass of the tick loop, a
\* handler or a fill task.
Triggered(o) ==
  \/ book[o].status = "PARTIAL"
  \/ o \in DOMAIN tick.rows /\ tick.rows[o].status = "PARTIAL"
  \/ tick.pc = "fired" /\ tick.order = o
  \/ place[o].pc = "start"
  \/ \E t \in Tasks : Busy(t) /\ task[t].order = o

TriggerInv ==
  \A o \in Orders : Triggered(o) => row[o].status \notin {"none", "PENDING"}

\* An order that is not edited after it triggered keeps the terms its task has
\* read, its position was opened with and its row shows.
FilledInv ==
  /\ \A t \in Tasks :
       LET o == task[t].order IN
       Busy(t) /\ "closed" \notin raced[o] =>
         /\ task[t].pc \in {"wait", "commit"} => task[t].terms = row[o].terms
         /\ task[t].pc = "record" => filledWith[o] = row[o].terms
  /\ \A o \in Orders : row[o].status = "FILLED" => row[o].linked
  /\ FilledAsOrdered

\* Whoever is about to take an order out of the book has ended it, while no
\* statement's failure was ignored.
DropInv ==
  /\ \A o \in dropping : row[o].status \in Terminal
  /\ faults.db = 0 =>
       /\ tick.pc = "expired" => row[tick.order].status \in Terminal
       /\ \A t \in Tasks : task[t].pc = "drop" => row[task[t].order].status \notin Working

-----------------------------------------------------------------------------
(* What a step may do to each piece of the state.                           *)

\* An order is inserted, its handler going on or not.
Inserts(p) == PlaceInsert(p) \/ (PlaceUnheard(p) /\ place[p].pc = "new")

\* An order triggers, the book being told or not.
Fires(p) ==
  \/ PlaceFire(p) \/ (PlaceUnheard(p) /\ place[p].pc = "fire")
  \/ TickFire(p) \/ TickUnheard(p)

\* New terms of an order are written by the request e, its answer heard or not.
Writes(e, p) == (EditWrite(e) \/ EditUnheard(e)) /\ editor[e].order = p

\* The row of an order, once it is inserted.
RowChange(p) ==
  /\ \/ row'[p].status = row[p].status
     \/ row'[p].status \in Terminal
     \/ row[p].status \in Working /\ row'[p].status = "PARTIAL" /\ Fires(p)
  /\ row'[p].armed = row[p].armed \/ (row'[p].armed /\ (TickArm(p) \/ TickUnheard(p)))
  /\ row'[p].terms = row[p].terms \/ \E e \in Editors : Writes(e, p)
  /\ row'[p].status = "FILLED" => \/ row[p].status = "FILLED"
                                  \/ row'[p].linked /\ \E t \in Tasks : FillRecord(t) /\ task[t].order = p
  /\ row[p].linked => row'[p].linked

LEMMA StatusChange ==
  ASSUME TypeInv, NEW o \in Orders, NEW s, SetStatus(o, s), NEW p \in Orders,
         \/ s \in {"CANCELLED", "REJECTED", "EXPIRED"}
         \/ s = "PARTIAL" /\ row[o].status \in Working /\ Fires(o)
  PROVE  RowChange(p)
<1>1. row'[p] = IF p = o THEN [row[o] EXCEPT !.status = s] ELSE row[p]
  BY DEF SetStatus, TypeInv, TypeOK
<1>2. row[p] \in RowRecords
  BY DEF TypeInv, TypeOK
<1>3. /\ row'[p].armed = row[p].armed
      /\ row'[p].terms = row[p].terms
      /\ row'[p].linked = row[p].linked
      /\ row'[p].status = IF p = o THEN s ELSE row[p].status
  BY <1>1, <1>2 DEF RowRecords
<1> QED
  BY <1>3 DEF RowChange, Terminal

LEMMA RowChanges ==
  ASSUME TypeInv, [Next]_vars, NEW p \in Orders
  PROVE  Inserts(p) \/ RowChange(p)
<1>0. row' = row => RowChange(p)
  BY DEF RowChange
<1>1. ASSUME NEW o \in Orders,
            \/ PlaceUpsert(o) \/ PlaceStart(o) \/ CancelDrop(o) \/ FallDue(o)
            \/ TickRestartFill(o) \/ TickPass(o)
     PROVE  RowChange(p)
  BY <1>1, <1>0 DEF PlaceUpsert, PlaceStart, CancelDrop, FallDue, TickRestartFill, TickPass
<1>2. ASSUME NEW e \in Editors, EditPatch(e) \/ \E o \in Orders : EditRead(e, o)
     PROVE  RowChange(p)
  BY <1>2, <1>0 DEF EditRead, EditPatch
<1>3. ASSUME \/ TickBegin \/ TickExpireDrop \/ TickArmPatch \/ TickFirePatch
            \/ TickAbort \/ Crash \/ Hydrate \/ UNCHANGED vars
     PROVE  RowChange(p)
  BY <1>3, <1>0 DEF TickBegin, TickExpireDrop, TickArmPatch, TickFirePatch, TickAbort,
       Crash, Hydrate, vars, database
<1>4. ASSUME NEW t \in Tasks,
            \/ FillRead(t) \/ FillRecheck(t) \/ FillCommit(t) \/ FillRefuse(t)
            \/ FillDrop(t) \/ FillDone(t) \/ FillCommitUnheard(t)
            \/ FillError(t)
     PROVE  RowChange(p)
  BY <1>4, <1>0 DEF FillRead, FillRecheck, FillCommit, FillRefuse, FillDrop, FillDone,
       FillCommitUnheard, FillError
<1>5. ASSUME NEW o \in Orders,
            \/ PlaceKill(o) \/ PlaceFire(o) \/ CancelWrite(o) \/ CancelUnheard(o)
            \/ TickExpire(o) \/ TickFire(o)
     PROVE  RowChange(p)
  BY <1>5, <1>0, StatusChange
     DEF PlaceKill, PlaceFire, CancelWrite, CancelUnheard, TickExpire, TickFire, Fires
<1>6. ASSUME NEW o \in Orders, PlaceInsert(o), o # p PROVE RowChange(p)
  <2>1. row'[p] = row[p]
    BY <1>6 DEF PlaceInsert, TypeInv, TypeOK
  <2> QED
    BY <2>1 DEF RowChange
<1>a. ASSUME NEW o \in Orders, row' = [row EXCEPT ![o].armed = TRUE],
            TickArm(o) \/ TickUnheard(o)
     PROVE  RowChange(p)
  <2>1. row[p] \in RowRecords
    BY DEF TypeInv, TypeOK
  <2>2. row'[p] = IF p = o THEN [row[p] EXCEPT !.armed = TRUE] ELSE row[p]
    BY <1>a DEF TypeInv, TypeOK
  <2>3. /\ row'[p].status = row[p].status /\ row'[p].linked = row[p].linked
        /\ row'[p].terms = row[p].terms
        /\ row'[p].armed = IF p = o THEN TRUE ELSE row[p].armed
    BY <2>1, <2>2 DEF RowRecords
  <2> QED
    BY <1>a, <2>3 DEF RowChange
<1>7. ASSUME NEW o \in Orders, TickArm(o) PROVE RowChange(p)
  BY <1>7, <1>0, <1>a DEF TickArm
<1>8. ASSUME NEW e \in Editors, EditWrite(e) \/ EditUnheard(e),
            row' = [row EXCEPT ![editor[e].order].terms = editor[e].terms]
     PROVE  RowChange(p)
  <2>1. row[p] \in RowRecords
    BY DEF TypeInv, TypeOK
  <2>2. row'[p] = IF p = editor[e].order THEN [row[p] EXCEPT !.terms = editor[e].terms] ELSE row[p]
    BY <1>8 DEF TypeInv, TypeOK
  <2>3. /\ row'[p].status = row[p].status /\ row'[p].linked = row[p].linked
        /\ row'[p].armed = row[p].armed
        /\ p # editor[e].order => row'[p].terms = row[p].terms
    BY <2>1, <2>2 DEF RowRecords
  <2> QED
    BY <1>8, <2>3 DEF RowChange, Writes
<1>w. ASSUME NEW e \in Editors, EditWrite(e) \/ EditUnheard(e) PROVE RowChange(p)
  <2>1. row' = row \/ row' = [row EXCEPT ![editor[e].order].terms = editor[e].terms]
    BY <1>w DEF EditWrite, EditUnheard
  <2> QED
    BY <1>w, <2>1, <1>0, <1>8
<1>t. ASSUME NEW o \in Orders, TickUnheard(o) PROVE RowChange(p)
  <2>1. \/ row' = [row EXCEPT ![o].armed = TRUE]
        \/ row[o].status \in Working /\ SetStatus(o, "PARTIAL")
    BY <1>t DEF TickUnheard
  <2>2. Fires(o)
    BY <1>t DEF Fires
  <2> QED
    BY <1>t, <2>1, <2>2, <1>a, StatusChange
<1>u. ASSUME NEW o \in Orders, PlaceUnheard(o) PROVE Inserts(p) \/ RowChange(p)
  <2>1. CASE place[o].pc = "new"
    <3>1. o # p => row'[p] = row[p]
      BY <1>u, <2>1 DEF PlaceUnheard, TypeInv, TypeOK
    <3> QED
      BY <1>u, <2>1, <3>1 DEF Inserts, RowChange
  <2>2. CASE place[o].pc = "kill"
    BY <1>u, <2>2, <1>0 DEF PlaceUnheard
  <2>3. CASE place[o].pc = "fire"
    <3>1. row[o].status \in Working /\ SetStatus(o, "PARTIAL")
      BY <1>u, <2>3 DEF PlaceUnheard
    <3>2. Fires(o)
      BY <1>u, <2>3 DEF Fires
    <3> QED
      BY <3>1, <3>2, StatusChange
  <2> QED
    BY <1>u, <2>1, <2>2, <2>3 DEF PlaceUnheard
<1>i. PlaceInsert(p) => Inserts(p)
  BY DEF Inserts
<1>9. ASSUME NEW t \in Tasks, FillRecord(t) PROVE RowChange(p)
  <2>1. row[p] \in RowRecords
    BY DEF TypeInv, TypeOK
  <2> DEFINE o == task[t].order
             f == [row[o] EXCEPT !.status = "FILLED", !.linked = TRUE]
  <2>2. row' = row \/ row' = [row EXCEPT ![o] = f]
    BY <1>9 DEF FillRecord
  <2> HIDE DEF f
  <2>3. row' = row \/ row'[p] = IF p = o THEN f ELSE row[p]
    BY <2>2 DEF TypeInv, TypeOK
  <2>4. \/ row' = row
        \/ row'[p] = IF p = o THEN [row[p] EXCEPT !.status = "FILLED", !.linked = TRUE] ELSE row[p]
    BY <2>3 DEF f
  <2>5. CASE p = o /\ row'[p] = [row[p] EXCEPT !.status = "FILLED", !.linked = TRUE]
    <3>1. /\ row'[p].status = "FILLED" /\ row'[p].linked
          /\ row'[p].armed = row[p].armed /\ row'[p].terms = row[p].terms
      BY <2>1, <2>5 DEF RowRecords
    <3> QED
      BY <1>9, <2>5, <3>1 DEF RowChange, Terminal
  <2>6. CASE row'[p] = row[p]
    BY <2>6 DEF RowChange
  <2> QED
    BY <1>0, <2>4, <2>5, <2>6
<1>10. ASSUME NEW t \in Tasks, FillReject(t) PROVE RowChange(p)
  <2>1. task[t].order \in Orders
    BY <1>10 DEF FillReject, At, TypeInv, TasksOK
  <2> QED
    BY <1>10, <2>1, <1>0, StatusChange DEF FillReject
<1> QED
  BY <1>1, <1>2, <1>3, <1>4, <1>5, <1>6, <1>7, <1>w, <1>9, <1>10, <1>t, <1>u, <1>i
  DEF Next, PlaceStep, TickStep, FillStep

\* The copy of an order in the book, while it stays there.
CopyChange(p) ==
  /\ \/ book'[p].status = book[p].status
     \/ book'[p].status = "PARTIAL" /\ (PlaceStart(p) \/ (TickFirePatch /\ tick.order = p))
  /\ \/ book'[p].armed = book[p].armed
     \/ book'[p].armed = TRUE /\ TickArmPatch /\ tick.order = p
  /\ \/ book'[p].terms = book[p].terms
     \/ \E e \in Editors : /\ EditPatch(e) /\ editor[e].order = p
                           /\ book'[p].terms = editor[e].terms

\* Who takes an order out of the book.
Leaves(p) ==
  \/ p \in dropping
  \/ tick.pc = "expired" /\ tick.order = p
  \/ \E t \in Tasks : At(t, "drop") /\ task[t].order = p

BookChange(p) ==
  \/ ~Watched(p)' /\ (~Watched(p) \/ Leaves(p) \/ ~up')
  \/ Watched(p) /\ Watched(p)' /\ CopyChange(p)

LEMMA RemoveChange ==
  ASSUME TypeInv, NEW o \in Orders, RemoveFromBook(o), NEW p \in Orders, o = p => Leaves(p)
  PROVE  BookChange(p)
<1>1. book'[p] = IF p = o THEN NoRow ELSE book[p]
  BY DEF RemoveFromBook, TypeInv, TypeOK
<1>2. CASE p = o
  BY <1>1, <1>2 DEF BookChange, Watched, NoRow
<1>3. CASE p # o
  BY <1>1, <1>3 DEF BookChange, CopyChange, Watched
<1> QED
  BY <1>2, <1>3

LEMMA StatusPatched ==
  ASSUME TypeInv, NEW o \in Orders, NEW p \in Orders, PatchBook(o, "status"),
         PlaceStart(o) \/ (TickFirePatch /\ tick.order = o)
  PROVE  BookChange(p)
<1>1. book[p] \in BookRows
  BY DEF TypeInv, TypeOK
<1>2. CASE p # o \/ ~Watched(o)
  <2>1. book'[p] = book[p]
    BY <1>2 DEF PatchBook, TypeInv, TypeOK
  <2> QED
    BY <2>1 DEF BookChange, CopyChange, Watched
<1>3. CASE p = o /\ Watched(o)
  <2>1. book'[p] = [book[p] EXCEPT !.status = "PARTIAL"]
    BY <1>3 DEF PatchBook, TypeInv, TypeOK
  <2>2. book'[p].status = "PARTIAL" /\ book'[p].armed = book[p].armed /\ book'[p].terms = book[p].terms
    BY <1>1, <2>1 DEF BookRows
  <2> QED
    BY <1>3, <2>2 DEF BookChange, CopyChange, Watched
<1> QED
  BY <1>2, <1>3

LEMMA ArmedPatched ==
  ASSUME TypeInv, NEW p \in Orders, TickArmPatch
  PROVE  BookChange(p)
<1>1. book[p] \in BookRows
  BY DEF TypeInv, TypeOK
<1>2. PatchBook(tick.order, "armed")
  BY DEF TickArmPatch
<1>3. CASE p # tick.order \/ ~Watched(tick.order)
  <2>1. book'[p] = book[p]
    BY <1>2, <1>3 DEF PatchBook, TypeInv, TypeOK
  <2> QED
    BY <2>1 DEF BookChange, CopyChange, Watched
<1>4. CASE p = tick.order /\ Watched(p)
  <2>1. book'[p] = [book[p] EXCEPT !.armed = TRUE]
    BY <1>2, <1>4 DEF PatchBook, TypeInv, TypeOK
  <2>2. book'[p].status = book[p].status /\ book'[p].armed = TRUE /\ book'[p].terms = book[p].terms
    BY <1>1, <2>1 DEF BookRows
  <2> QED
    BY <1>4, <2>2 DEF BookChange, CopyChange, Watched
<1> QED
  BY <1>3, <1>4

LEMMA BookChanges ==
  ASSUME TypeInv, [Next]_vars, NEW p \in Orders
  PROVE  PlaceUpsert(p) \/ Hydrate \/ BookChange(p)
<1>0. book' = book => BookChange(p)
  BY DEF BookChange, CopyChange, Watched
<1>1. ASSUME NEW o \in Orders,
            \/ PlaceInsert(o) \/ PlaceKill(o) \/ PlaceFire(o)
            \/ CancelWrite(o) \/ FallDue(o) \/ TickExpire(o)
            \/ TickRestartFill(o) \/ TickPass(o) \/ TickArm(o) \/ TickFire(o)
     PROVE  BookChange(p)
  BY <1>1, <1>0 DEF PlaceInsert, PlaceKill, PlaceFire, CancelWrite, FallDue, TickExpire,
       TickRestartFill, TickPass, TickArm, TickFire
<1>2. ASSUME NEW e \in Editors, EditWrite(e) \/ \E o \in Orders : EditRead(e, o)
     PROVE  BookChange(p)
  BY <1>2, <1>0 DEF EditRead, EditWrite
<1>3. ASSUME TickBegin \/ TickAbort \/ UNCHANGED vars
     PROVE  BookChange(p)
  BY <1>3, <1>0 DEF TickBegin, TickAbort, vars
<1>4. ASSUME NEW t \in Tasks,
            \/ FillRead(t) \/ FillRecheck(t) \/ FillCommit(t) \/ FillRefuse(t)
            \/ FillRecord(t) \/ FillReject(t) \/ FillDone(t)
            \/ FillCommitUnheard(t) \/ FillError(t)
     PROVE  BookChange(p)
  BY <1>4, <1>0 DEF FillRead, FillRecheck, FillCommit, FillRefuse, FillRecord, FillReject,
       FillDone, FillCommitUnheard, FillError
<1>5. ASSUME NEW o \in Orders, PlaceUpsert(o), o # p PROVE BookChange(p)
  <2>1. book'[p] = book[p]
    BY <1>5 DEF PlaceUpsert, TypeInv, TypeOK
  <2> QED
    BY <2>1 DEF BookChange, CopyChange, Watched
<1>6. ASSUME NEW o \in Orders, PlaceStart(o) PROVE BookChange(p)
  BY <1>6, StatusPatched DEF PlaceStart
<1>7. CASE TickFirePatch
  <2>1. tick.order \in Orders /\ PatchBook(tick.order, "status")
    BY <1>7 DEF TickFirePatch, TypeInv, TickOK
  <2> QED
    BY <1>7, <2>1, StatusPatched
<1>8. CASE TickArmPatch
  BY <1>8, ArmedPatched
<1>9. ASSUME NEW o \in Orders, CancelDrop(o) PROVE BookChange(p)
  BY <1>9, RemoveChange DEF CancelDrop, Leaves
<1>10. CASE TickExpireDrop
  <2>1. tick.order \in Orders /\ RemoveFromBook(tick.order) /\ tick.pc = "expired"
    BY <1>10 DEF TickExpireDrop, TypeInv, TickOK
  <2> QED
    BY <2>1, RemoveChange DEF Leaves
<1>11. ASSUME NEW t \in Tasks, FillDrop(t) PROVE BookChange(p)
  <2>1. task[t].order \in Orders /\ RemoveFromBook(task[t].order) /\ At(t, "drop")
    BY <1>11 DEF FillDrop, At, TypeInv, TasksOK
  <2> QED
    BY <2>1, RemoveChange DEF Leaves
<1>12. ASSUME NEW e \in Editors, EditPatch(e) PROVE BookChange(p)
  <2>1. book[p] \in BookRows
    BY DEF TypeInv, TypeOK
  <2>2. CASE p = editor[e].order /\ Watched(p)
    <3>1. book'[p] = [book[p] EXCEPT !.terms = editor[e].terms]
      BY <1>12, <2>2 DEF EditPatch, TypeInv, TypeOK
    <3>2. /\ book'[p].status = book[p].status /\ book'[p].armed = book[p].armed
          /\ book'[p].terms = editor[e].terms
      BY <2>1, <3>1 DEF BookRows
    <3> QED
      BY <1>12, <2>2, <3>2 DEF BookChange, CopyChange, Watched
  <2>3. CASE ~(p = editor[e].order /\ Watched(p))
    <3>1. book'[p] = book[p]
      BY <1>12, <2>3 DEF EditPatch, TypeInv, TypeOK
    <3> QED
      BY <3>1 DEF BookChange, CopyChange, Watched
  <2> QED
    BY <2>2, <2>3
<1>13. CASE Crash
  BY <1>13 DEF Crash, BookChange, Watched, NoRow
<1>14. ASSUME NEW o \in Orders, PlaceUnheard(o) \/ CancelUnheard(o) \/ TickUnheard(o)
     PROVE  BookChange(p)
  BY <1>14, <1>0 DEF PlaceUnheard, CancelUnheard, TickUnheard
<1>15. ASSUME NEW e \in Editors, EditUnheard(e) PROVE BookChange(p)
  BY <1>15, <1>0 DEF EditUnheard
<1> QED
  BY <1>1, <1>2, <1>3, <1>4, <1>5, <1>6, <1>7, <1>8, <1>9, <1>10, <1>11, <1>12,
     <1>13, <1>14, <1>15
  DEF Next, PlaceStep, TickStep, FillStep

\* The handler that places an order.
PlaceChange(p) ==
  \/ place'[p] = place[p]
  \/ PlaceInsert(p)
  \/ place'[p].pc = "done" /\ (PlaceKill(p) \/ PlaceFire(p) \/ PlaceStart(p) \/ PlaceUnheard(p))
  \/ place'[p].pc \in {"fire", "done"} /\ PlaceUpsert(p)
  \/ place'[p].pc = "start" /\ PlaceFire(p) /\ row'[p].status = "PARTIAL"
  \/ ~up' /\ place'[p].pc \in {"new", "done"} /\ (place'[p].pc = "new" => place[p].pc = "new")

LEMMA PlaceChanges ==
  ASSUME TypeInv, [Next]_vars, NEW p \in Orders
  PROVE  PlaceChange(p)
<1>0. place' = place => PlaceChange(p)
  BY DEF PlaceChange
<1>1. ASSUME NEW o \in Orders,
            \/ CancelWrite(o) \/ CancelDrop(o) \/ FallDue(o) \/ TickExpire(o)
            \/ TickRestartFill(o) \/ TickPass(o) \/ TickArm(o) \/ TickFire(o)
     PROVE  PlaceChange(p)
  BY <1>1, <1>0 DEF CancelWrite, CancelDrop, FallDue, TickExpire, TickRestartFill, TickPass,
       TickArm, TickFire
<1>2. ASSUME NEW e \in Editors, EditPatch(e) \/ EditWrite(e) \/ \E o \in Orders : EditRead(e, o)
     PROVE  PlaceChange(p)
  BY <1>2, <1>0 DEF EditRead, EditWrite, EditPatch
<1>3. ASSUME \/ TickBegin \/ TickExpireDrop \/ TickArmPatch \/ TickFirePatch
            \/ TickAbort \/ Hydrate \/ UNCHANGED vars
     PROVE  PlaceChange(p)
  BY <1>3, <1>0 DEF TickBegin, TickExpireDrop, TickArmPatch, TickFirePatch, TickAbort,
       Hydrate, vars
<1>4. ASSUME NEW t \in Tasks,
            \/ FillRead(t) \/ FillRecheck(t) \/ FillCommit(t) \/ FillRefuse(t)
            \/ FillRecord(t) \/ FillReject(t) \/ FillDrop(t) \/ FillDone(t)
            \/ FillCommitUnheard(t) \/ FillError(t)
     PROVE  PlaceChange(p)
  BY <1>4, <1>0 DEF FillRead, FillRecheck, FillCommit, FillRefuse, FillRecord, FillReject,
       FillDrop, FillDone, FillCommitUnheard, FillError
<1>5. ASSUME NEW o \in Orders, o # p,
            \/ PlaceInsert(o) \/ PlaceKill(o) \/ PlaceUpsert(o) \/ PlaceFire(o)
            \/ PlaceStart(o) \/ PlaceUnheard(o)
     PROVE  PlaceChange(p)
  <2>1. place'[p] = place[p]
    BY <1>5 DEF PlaceInsert, PlaceKill, PlaceUpsert, PlaceFire, PlaceStart, PlaceUnheard,
                TypeInv, TypeOK
  <2> QED
    BY <2>1 DEF PlaceChange
<1>6. ASSUME PlaceKill(p) \/ PlaceStart(p) \/ PlaceUnheard(p) PROVE PlaceChange(p)
  <2>1. place'[p].pc = "done"
    BY <1>6 DEF PlaceKill, PlaceStart, PlaceUnheard, Placed, TypeInv, TypeOK
  <2> QED
    BY <1>6, <2>1 DEF PlaceChange
<1>7. ASSUME PlaceUpsert(p) PROVE PlaceChange(p)
  <2>1. place'[p].pc \in {"fire", "done"}
    BY <1>7 DEF PlaceUpsert, Placed, TypeInv, TypeOK
  <2> QED
    BY <1>7, <2>1 DEF PlaceChange
<1>8. ASSUME PlaceFire(p) PROVE PlaceChange(p)
  <2>1. place[p] \in PlaceRecords /\ row[p] \in RowRecords
    BY DEF TypeInv, TypeOK
  <2>2. \/ place'[p] = Placed
        \/ place'[p] = [place[p] EXCEPT !.pc = "start"] /\ SetStatus(p, "PARTIAL")
    BY <1>8 DEF PlaceFire, TypeInv, TypeOK
  <2>3. \/ place'[p].pc = "done"
        \/ place'[p].pc = "start" /\ SetStatus(p, "PARTIAL")
    BY <2>1, <2>2 DEF Placed, PlaceRecords
  <2>4. SetStatus(p, "PARTIAL") => row'[p].status = "PARTIAL"
    BY <2>1 DEF SetStatus, TypeInv, TypeOK, RowRecords
  <2> QED
    BY <1>8, <2>3, <2>4 DEF PlaceChange
<1>9. CASE Crash
  <2>1. place[p].pc = "new" => place'[p] = place[p]
    BY <1>9 DEF Crash
  <2>2. place[p].pc # "new" => place'[p].pc = "done"
    BY <1>9 DEF Crash, Placed
  <2>3. ~up'
    BY <1>9 DEF Crash
  <2> QED
    BY <2>1, <2>2, <2>3 DEF PlaceChange
<1>10. PlaceInsert(p) => PlaceChange(p)
  BY DEF PlaceChange
<1>11. ASSUME NEW o \in Orders, CancelUnheard(o) \/ TickUnheard(o)
     PROVE  PlaceChange(p)
  BY <1>11, <1>0 DEF CancelUnheard, TickUnheard
<1>12. ASSUME NEW e \in Editors, EditUnheard(e) PROVE PlaceChange(p)
  BY <1>12, <1>0 DEF EditUnheard
<1> QED
  BY <1>1, <1>2, <1>3, <1>4, <1>5, <1>6, <1>7, <1>8, <1>9, <1>10, <1>11, <1>12
  DEF Next, PlaceStep, TickStep, FillStep

\* The pass of the tick loop forgets rows and comes to statements about them.
Pauses(o) ==
  \/ tick'.pc = "expired" /\ TickExpire(o)
  \/ tick'.pc = "armed" /\ TickArm(o) /\ row'[o].armed
  \/ tick'.pc = "fired" /\ TickFire(o) /\ row'[o].status = "PARTIAL"

RowsKept ==
  /\ DOMAIN tick'.rows \subseteq DOMAIN tick.rows
  /\ \A q \in DOMAIN tick'.rows : tick'.rows[q] = tick.rows[q]

TickChange ==
  \/ TickBegin
  \/ RowsKept /\ tick' = tick
  \/ RowsKept /\ ~up' /\ tick'.pc = "idle"
  \/ /\ RowsKept /\ tick'.pc \in {"idle", "walk"}
     /\ tick.pc = "armed" => TickArmPatch
     /\ tick.pc = "fired" => TickFirePatch
  \/ /\ RowsKept /\ tick.pc = "walk"
     /\ tick'.order \in DOMAIN tick.rows /\ Pauses(tick'.order)

LEMMA WalkKeeps ==
  ASSUME NEW rows, DOMAIN rows \subseteq DOMAIN tick.rows,
         \A q \in DOMAIN rows : rows[q] = tick.rows[q], tick' = Walk(rows)
  PROVE  RowsKept /\ tick'.pc \in {"idle", "walk"}
<1>1. CASE DOMAIN rows = {}
  BY <1>1 DEF Walk, IdleTick, RowsKept
<1>2. CASE DOMAIN rows # {}
  BY <1>2 DEF Walk, RowsKept
<1> QED
  BY <1>1, <1>2

LEMMA PauseKeeps ==
  ASSUME NEW pc, NEW o, tick' = Pause(pc, o)
  PROVE  RowsKept /\ tick'.pc = pc /\ tick'.order = o
BY DEF Pause, RowsBut, RowsKept

LEMMA TickChanges ==
  ASSUME TypeInv, [Next]_vars
  PROVE  TickChange
<1>0. tick' = tick => TickChange
  BY DEF TickChange, RowsKept
<1>1. ASSUME NEW o, Comes(o), tick' = Walk(RowsBut(o)) PROVE TickChange
  <2>1. RowsKept /\ tick'.pc \in {"idle", "walk"}
    BY <1>1, WalkKeeps DEF RowsBut
  <2> QED
    BY <1>1, <2>1 DEF TickChange, Comes
<1>2. ASSUME NEW o \in DOMAIN tick.rows, NEW pc, tick.pc = "walk", tick' = Pause(pc, o), Pauses(o)
      PROVE  TickChange
  BY <1>2, PauseKeeps DEF TickChange
<1>3. ASSUME NEW o \in Orders,
            \/ PlaceInsert(o) \/ PlaceKill(o) \/ PlaceUpsert(o)
            \/ PlaceFire(o) \/ PlaceStart(o) \/ CancelWrite(o)
            \/ CancelDrop(o) \/ FallDue(o)
     PROVE  TickChange
  BY <1>3, <1>0 DEF PlaceInsert, PlaceKill, PlaceUpsert, PlaceFire, PlaceStart, CancelWrite,
       CancelDrop, FallDue
<1>4. ASSUME NEW e \in Editors, EditPatch(e) \/ EditWrite(e) \/ \E o \in Orders : EditRead(e, o)
     PROVE  TickChange
  BY <1>4, <1>0 DEF EditRead, EditWrite, EditPatch
<1>5. ASSUME Hydrate \/ UNCHANGED vars
     PROVE  TickChange
  BY <1>5, <1>0 DEF Hydrate, vars
<1>6. ASSUME NEW t \in Tasks,
            \/ FillRead(t) \/ FillRecheck(t) \/ FillCommit(t) \/ FillRefuse(t)
            \/ FillRecord(t) \/ FillReject(t) \/ FillDrop(t) \/ FillDone(t)
            \/ FillCommitUnheard(t) \/ FillError(t)
     PROVE  TickChange
  BY <1>6, <1>0 DEF FillRead, FillRecheck, FillCommit, FillRefuse, FillRecord, FillReject,
       FillDrop, FillDone, FillCommitUnheard, FillError
<1>7. CASE TickBegin
  BY <1>7 DEF TickChange
<1>8. ASSUME NEW o \in Orders, TickRestartFill(o) \/ TickPass(o) PROVE TickChange
  BY <1>8, <1>1 DEF TickRestartFill, TickPass, Judged
<1>9. ASSUME NEW o \in Orders, TickExpire(o) PROVE TickChange
  <2>1. tick' = Pause("expired", o) /\ tick.pc = "walk" /\ o \in DOMAIN tick.rows
    BY <1>9 DEF TickExpire, Comes
  <2>2. Pauses(o)
    BY <1>9, <2>1 DEF Pause, Pauses
  <2> QED
    BY <2>1, <2>2, <1>2
<1>10. ASSUME NEW o \in Orders, TickArm(o) PROVE TickChange
  <2>1. Comes(o) /\ tick.pc = "walk" /\ o \in DOMAIN tick.rows
    BY <1>10 DEF TickArm, Judged, Comes
  <2>2. \/ tick' = Walk(RowsBut(o))
        \/ tick' = Pause("armed", o) /\ row' = [row EXCEPT ![o].armed = TRUE]
    BY <1>10 DEF TickArm
  <2>3. CASE tick' = Pause("armed", o) /\ row' = [row EXCEPT ![o].armed = TRUE]
    <3>1. row'[o].armed
      BY <2>3 DEF TypeInv, TypeOK, RowRecords
    <3>2. Pauses(o)
      BY <1>10, <2>3, <3>1 DEF Pause, Pauses
    <3> QED
      BY <2>1, <2>3, <3>2, <1>2
  <2> QED
    BY <2>1, <2>2, <2>3, <1>1
<1>11. ASSUME NEW o \in Orders, TickFire(o) PROVE TickChange
  <2>1. Comes(o) /\ tick.pc = "walk" /\ o \in DOMAIN tick.rows
    BY <1>11 DEF TickFire, Judged, Comes
  <2>2. \/ tick' = Walk(RowsBut(o))
        \/ tick' = Pause("fired", o) /\ SetStatus(o, "PARTIAL")
    BY <1>11 DEF TickFire
  <2>3. CASE tick' = Pause("fired", o) /\ SetStatus(o, "PARTIAL")
    <3>1. row'[o].status = "PARTIAL"
      BY <2>3 DEF SetStatus, TypeInv, TypeOK, RowRecords
    <3>2. Pauses(o)
      BY <1>11, <2>3, <3>1 DEF Pause, Pauses
    <3> QED
      BY <2>1, <2>3, <3>2, <1>2
  <2> QED
    BY <2>1, <2>2, <2>3, <1>1
<1>12. CASE TickExpireDrop \/ TickArmPatch \/ TickFirePatch
  <2>1. tick' = Walk(tick.rows)
    BY <1>12 DEF TickExpireDrop, TickArmPatch, TickFirePatch
  <2>2. RowsKept /\ tick'.pc \in {"idle", "walk"}
    BY <2>1, WalkKeeps
  <2>3. /\ tick.pc = "armed" => TickArmPatch
        /\ tick.pc = "fired" => TickFirePatch
    BY <1>12 DEF TickExpireDrop, TickArmPatch, TickFirePatch
  <2> QED
    BY <2>2, <2>3 DEF TickChange
<1>13. ASSUME TickAbort \/ \E o \in Orders : TickUnheard(o) PROVE TickChange
  <2>1. tick.pc = "walk" /\ tick' = IdleTick
    BY <1>13 DEF TickAbort, TickUnheard, Judged, Comes
  <2> QED
    BY <2>1 DEF IdleTick, TickChange, RowsKept
<1>14. CASE Crash
  BY <1>14 DEF Crash, IdleTick, TickChange, RowsKept
<1>15. ASSUME NEW o \in Orders, PlaceUnheard(o) \/ CancelUnheard(o)
     PROVE  TickChange
  BY <1>15, <1>0 DEF PlaceUnheard, CancelUnheard
<1>16. ASSUME NEW e \in Editors, EditUnheard(e) PROVE TickChange
  BY <1>16, <1>0 DEF EditUnheard
<1> QED
  BY <1>3, <1>4, <1>5, <1>6, <1>7, <1>8, <1>9, <1>10, <1>11, <1>12, <1>13,
     <1>14, <1>15, <1>16
  DEF Next, PlaceStep, TickStep, FillStep

\* A modify_order request.
EditorChange(e) ==
  \/ editor'[e] = editor[e]
  \/ editor'[e].pc = "idle" /\ (editor[e].pc = "patch" => EditPatch(e) \/ ~up')
  \/ /\ editor[e].pc = "idle" /\ editor'[e].pc = "write"
     /\ row[editor'[e].order].status = "PENDING"
  \/ /\ EditWrite(e) /\ editor'[e].pc = "patch"
     /\ editor'[e].order = editor[e].order /\ editor'[e].terms = editor[e].terms

LEMMA EditorChanges ==
  ASSUME TypeInv, [Next]_vars, NEW e \in Editors
  PROVE  EditorChange(e)
<1>0. editor' = editor => EditorChange(e)
  BY DEF EditorChange
<1>1. ASSUME NEW o \in Orders,
            \/ PlaceInsert(o) \/ PlaceKill(o) \/ PlaceUpsert(o)
            \/ PlaceFire(o) \/ PlaceStart(o) \/ CancelWrite(o)
            \/ CancelDrop(o) \/ FallDue(o) \/ TickExpire(o)
            \/ TickRestartFill(o) \/ TickPass(o) \/ TickArm(o) \/ TickFire(o)
     PROVE  EditorChange(e)
  BY <1>1, <1>0 DEF PlaceInsert, PlaceKill, PlaceUpsert, PlaceFire, PlaceStart, CancelWrite,
       CancelDrop, FallDue, TickExpire, TickRestartFill, TickPass, TickArm,
       TickFire
<1>2. ASSUME \/ TickBegin \/ TickExpireDrop \/ TickArmPatch \/ TickFirePatch
            \/ TickAbort \/ Hydrate \/ UNCHANGED vars
     PROVE  EditorChange(e)
  BY <1>2, <1>0 DEF TickBegin, TickExpireDrop, TickArmPatch, TickFirePatch, TickAbort,
       Hydrate, vars
<1>3. ASSUME NEW t \in Tasks,
            \/ FillRead(t) \/ FillRecheck(t) \/ FillCommit(t) \/ FillRefuse(t)
            \/ FillRecord(t) \/ FillReject(t) \/ FillDrop(t) \/ FillDone(t)
            \/ FillCommitUnheard(t) \/ FillError(t)
     PROVE  EditorChange(e)
  BY <1>3, <1>0 DEF FillRead, FillRecheck, FillCommit, FillRefuse, FillRecord, FillReject,
       FillDrop, FillDone, FillCommitUnheard, FillError
<1>4. ASSUME NEW f \in Editors, f # e,
            EditPatch(f) \/ EditWrite(f) \/ EditUnheard(f) \/ \E o \in Orders : EditRead(f, o)
     PROVE  EditorChange(e)
  <2>1. editor'[e] = editor[e]
    BY <1>4 DEF EditRead, EditWrite, EditUnheard, EditPatch, TypeInv, TypeOK
  <2> QED
    BY <2>1 DEF EditorChange
<1>5. ASSUME NEW o \in Orders, EditRead(e, o) PROVE EditorChange(e)
  BY <1>5 DEF EditRead, EditorChange, TypeInv, TypeOK
<1>6. CASE EditWrite(e)
  <2>1. editor[e] \in EditorRecords
    BY DEF TypeInv, TypeOK
  <2>2. editor'[e] = [editor[e] EXCEPT !.pc = "patch"]
    BY <1>6 DEF EditWrite, TypeInv, TypeOK
  <2>3. /\ editor'[e].pc = "patch" /\ editor'[e].order = editor[e].order
        /\ editor'[e].terms = editor[e].terms
    BY <2>1, <2>2 DEF EditorRecords
  <2> QED
    BY <1>6, <2>3 DEF EditorChange
<1>7. CASE EditPatch(e) \/ EditUnheard(e)
  <2>1. editor'[e].pc = "idle" /\ (EditUnheard(e) => editor[e].pc = "write")
    BY <1>7 DEF EditPatch, EditUnheard, IdleEditor, TypeInv, TypeOK
  <2> QED
    BY <1>7, <2>1 DEF EditorChange
<1>8. CASE Crash
  BY <1>8 DEF Crash, IdleEditor, EditorChange
<1>9. ASSUME NEW o \in Orders, PlaceUnheard(o) \/ CancelUnheard(o) \/ TickUnheard(o)
     PROVE  EditorChange(e)
  BY <1>9, <1>0 DEF PlaceUnheard, CancelUnheard, TickUnheard
<1> QED
  BY <1>1, <1>2, <1>3, <1>4, <1>5, <1>6, <1>7, <1>8, <1>9
  DEF Next, PlaceStep, TickStep, FillStep

\* A fill task starts for a triggered order, and works for it to the end.
TaskChange(t) ==
  \/ task'[t] = task[t]
  \/ task'[t].pc = "idle"
  \/ task'[t].pc = "read" /\ task'[t].order \in Orders /\ Triggered(task'[t].order)
  \/ LET o == task[t].order IN
     /\ Busy(t) /\ task'[t].order = o
     /\ \/ task'[t].pc \in {"refuse", "done"}
        \/ /\ task'[t].pc = "wait" /\ task'[t].terms = row[o].terms
           /\ row[o].status \in Working /\ row' = row
        \/ task'[t].pc = "commit" /\ task[t].pc = "wait" /\ task'[t].terms = task[t].terms
        \/ task'[t].pc = "record" /\ FillCommit(t)
        \/ task'[t].pc = "drop" /\ (row'[o].status \notin Working \/ faults'.db # 0)

LEMMA StartChange ==
  ASSUME TypeInv, NEW o \in Orders, Triggered(o), StartPendingFill(o), NEW t \in Tasks
  PROVE  TaskChange(t)
<1>1. CASE o \in inflight
  BY <1>1 DEF StartPendingFill, TaskChange
<1>2. CASE o \notin inflight
  <2>1. PICK u \in Tasks :
          task' = [task EXCEPT ![u] = [pc |-> "read", order |-> o, terms |-> "none"]]
    BY <1>2 DEF StartPendingFill
  <2>2. task'[t] = task[t] \/ task'[t] = [pc |-> "read", order |-> o, terms |-> "none"]
    BY <2>1 DEF TypeInv, TypeOK
  <2>3. task'[t] = task[t] \/ (task'[t].pc = "read" /\ task'[t].order = o)
    BY <2>2
  <2> QED
    BY <2>3 DEF TaskChange
<1> QED
  BY <1>1, <1>2

LEMMA TaskChanges ==
  ASSUME TypeInv, [Next]_vars, NEW t \in Tasks
  PROVE  TaskChange(t)
<1>0. task' = task => TaskChange(t)
  BY DEF TaskChange
<1>1. ASSUME NEW o \in Orders,
            \/ PlaceInsert(o) \/ PlaceKill(o) \/ PlaceUpsert(o)
            \/ PlaceFire(o) \/ CancelWrite(o) \/ CancelDrop(o) \/ FallDue(o)
            \/ TickExpire(o) \/ TickPass(o) \/ TickArm(o) \/ TickFire(o)
     PROVE  TaskChange(t)
  BY <1>1, <1>0 DEF PlaceInsert, PlaceKill, PlaceUpsert, PlaceFire, CancelWrite, CancelDrop,
       FallDue, TickExpire, TickPass, TickArm, TickFire
<1>2. ASSUME NEW e \in Editors, EditPatch(e) \/ EditWrite(e) \/ \E o \in Orders : EditRead(e, o)
     PROVE  TaskChange(t)
  BY <1>2, <1>0 DEF EditRead, EditWrite, EditPatch
<1>3. ASSUME \/ TickBegin \/ TickExpireDrop \/ TickArmPatch \/ TickAbort
            \/ Hydrate \/ UNCHANGED vars
     PROVE  TaskChange(t)
  BY <1>3, <1>0 DEF TickBegin, TickExpireDrop, TickArmPatch, TickAbort, Hydrate, vars
<1>4. ASSUME NEW o \in Orders, PlaceStart(o) PROVE TaskChange(t)
  BY <1>4, StartChange DEF PlaceStart, Triggered
<1>5. ASSUME NEW o \in Orders, TickRestartFill(o) PROVE TaskChange(t)
  BY <1>5, StartChange DEF TickRestartFill, Comes, Triggered
<1>6. CASE TickFirePatch
  <2>1. tick.order \in Orders /\ Triggered(tick.order) /\ StartPendingFill(tick.order)
    BY <1>6 DEF TickFirePatch, TypeInv, TickOK, Triggered
  <2> QED
    BY <2>1, StartChange
<1>7. CASE Crash
  BY <1>7 DEF Crash, IdleTask, TaskChange
<1>8. ASSUME NEW u \in Tasks, u # t, FillStep(u) \/ FillCommitUnheard(u) \/ FillError(u)
     PROVE  TaskChange(t)
  <2>1. task'[t] = task[t]
    BY <1>8 DEF FillStep, FillRead, FillRecheck, FillCommit, FillRefuse, FillRecord, FillReject,
                FillDrop, FillDone, FillCommitUnheard, FillError, Goto, Forget, TypeInv, TypeOK
  <2> QED
    BY <2>1 DEF TaskChange
<1> DEFINE o == task[t].order
<1>9. task[t] \in TaskRecords /\ (task[t].pc # "idle" => o \in Orders)
  BY DEF TypeInv, TypeOK, TasksOK
<1>10. ASSUME NEW pc, Goto(t, pc) \/ Forget(t, pc)
     PROVE  /\ task'[t].pc = pc /\ task'[t].order = o
            /\ Goto(t, pc) => task'[t].terms = task[t].terms
  <2>1. \/ task'[t] = [task[t] EXCEPT !.pc = pc]
        \/ task'[t] = [task[t] EXCEPT !.pc = pc, !.terms = "none"]
    BY <1>10 DEF Goto, Forget, TypeInv, TypeOK
  <2>2. task'[t].pc = pc /\ task'[t].order = o
    BY <1>9, <2>1 DEF TaskRecords
  <2>3. Goto(t, pc) => task'[t].terms = task[t].terms
    BY <1>9 DEF Goto, TaskRecords, TypeInv, TypeOK
  <2> QED
    BY <2>2, <2>3
<1>11. CASE FillRead(t)
  <2>1. Busy(t) /\ row' = row
    BY <1>11 DEF FillRead, At, Busy
  <2>2. CASE row[o].status \in Working
    <3>1. task'[t] = [task[t] EXCEPT !.pc = "wait", !.terms = row[o].terms]
      BY <1>11, <2>2 DEF FillRead, TypeInv, TypeOK
    <3>2. task'[t].pc = "wait" /\ task'[t].order = o /\ task'[t].terms = row[o].terms
      BY <1>9, <3>1 DEF TaskRecords
    <3> QED
      BY <2>1, <2>2, <3>2 DEF TaskChange
  <2>3. CASE row[o].status \notin Working
    <3>1. task'[t] = [task[t] EXCEPT !.pc = "drop"]
      BY <1>11, <2>3 DEF FillRead, TypeInv, TypeOK
    <3>2. task'[t].pc = "drop" /\ task'[t].order = o
      BY <1>9, <3>1 DEF TaskRecords
    <3> QED
      BY <2>1, <2>3, <3>2 DEF TaskChange
  <2> QED
    BY <2>2, <2>3
<1>12. CASE FillRecheck(t)
  <2>1. Busy(t) /\ row' = row /\ task[t].pc = "wait"
    BY <1>12 DEF FillRecheck, At, Busy
  <2>2. CASE row[o].status \in Working
    <3>1. Goto(t, "commit")
      BY <1>12, <2>2 DEF FillRecheck
    <3> QED
      BY <2>1, <3>1, <1>10 DEF TaskChange
  <2>3. CASE row[o].status \notin Working
    <3>1. Forget(t, "drop")
      BY <1>12, <2>3 DEF FillRecheck
    <3> QED
      BY <2>1, <2>3, <3>1, <1>10 DEF TaskChange
  <2> QED
    BY <2>2, <2>3
<1>13. CASE FillCommit(t)
  <2>1. Busy(t) /\ Forget(t, "record")
    BY <1>13 DEF FillCommit, At, Busy
  <2> QED
    BY <1>13, <2>1, <1>10 DEF TaskChange
<1>14. CASE FillCommitUnheard(t) \/ FillRefuse(t) \/ FillError(t)
  <2>1. Busy(t) /\ \E pc \in {"refuse", "done"} : Forget(t, pc)
    BY <1>14 DEF FillCommitUnheard, FillRefuse, FillError, At, Busy
  <2> QED
    BY <2>1, <1>10 DEF TaskChange
<1>15. CASE FillRecord(t) \/ FillReject(t)
  <2>1. Busy(t) /\ Goto(t, "drop") /\ o \in Orders
    BY <1>15, <1>9 DEF FillRecord, FillReject, At, Busy
  <2>2. row'[o].status \in {"FILLED", "REJECTED"} \/ DbFault
    <3>1. row[o] \in RowRecords
      BY <2>1 DEF TypeInv, TypeOK
    <3> QED
      BY <1>15, <2>1, <3>1 DEF FillRecord, FillReject, SetStatus, TypeInv, TypeOK, RowRecords
  <2>3. DbFault => faults'.db # 0
    BY DEF DbFault, TypeInv, TypeOK, FaultRecords
  <2> QED
    BY <2>1, <2>2, <2>3, <1>10 DEF TaskChange, Working
<1>16. CASE FillDrop(t)
  <2>1. Busy(t) /\ Goto(t, "done")
    BY <1>16 DEF FillDrop, At, Busy
  <2> QED
    BY <2>1, <1>10 DEF TaskChange
<1>17. CASE FillDone(t)
  BY <1>17 DEF FillDone, IdleTask, TaskChange, TypeInv, TypeOK
<1> HIDE DEF o
<1>18. ASSUME NEW p \in Orders, PlaceUnheard(p) \/ CancelUnheard(p) \/ TickUnheard(p)
     PROVE  TaskChange(t)
  BY <1>18, <1>0 DEF PlaceUnheard, CancelUnheard, TickUnheard
<1>19. ASSUME NEW e \in Editors, EditUnheard(e) PROVE TaskChange(t)
  BY <1>19, <1>0 DEF EditUnheard
<1> QED
  BY <1>1, <1>2, <1>3, <1>4, <1>5, <1>6, <1>7, <1>8, <1>11, <1>12, <1>13,
     <1>14, <1>15, <1>16, <1>17, <1>18, <1>19
  DEF Next, PlaceStep, TickStep, FillStep

\* What is remembered of the edits and fills of an order.
RacedChange(p) ==
  \/ raced'[p] = raced[p]
  \/ \E e \in Editors : Writes(e, p) /\ raced'[p] = raced[p] \cup Crossings(e, p)

FilledChange(p) ==
  \/ filledWith'[p] = filledWith[p]
  \/ \E t \in Tasks : /\ FillCommit(t) \/ FillCommitUnheard(t)
                      /\ task[t].order = p

LEMMA RacedChanges ==
  ASSUME TypeInv, [Next]_vars, NEW p \in Orders
  PROVE  RacedChange(p)
<1>0. raced' = raced => RacedChange(p)
  BY DEF RacedChange
<1>1. ASSUME NEW o \in Orders,
            \/ PlaceInsert(o) \/ PlaceKill(o) \/ PlaceUpsert(o)
            \/ PlaceFire(o) \/ PlaceStart(o) \/ CancelWrite(o)
            \/ CancelDrop(o) \/ FallDue(o) \/ TickExpire(o)
            \/ TickRestartFill(o) \/ TickPass(o) \/ TickArm(o) \/ TickFire(o)
     PROVE  RacedChange(p)
  BY <1>1, <1>0 DEF PlaceInsert, PlaceKill, PlaceUpsert, PlaceFire, PlaceStart, CancelWrite,
       CancelDrop, FallDue, TickExpire, TickRestartFill, TickPass, TickArm,
       TickFire
<1>2. ASSUME NEW e \in Editors, EditPatch(e) \/ \E o \in Orders : EditRead(e, o)
     PROVE  RacedChange(p)
  BY <1>2, <1>0 DEF EditRead, EditPatch
<1>3. ASSUME \/ TickBegin \/ TickExpireDrop \/ TickArmPatch \/ TickFirePatch
            \/ TickAbort \/ Crash \/ Hydrate \/ UNCHANGED vars
     PROVE  RacedChange(p)
  BY <1>3, <1>0 DEF TickBegin, TickExpireDrop, TickArmPatch, TickFirePatch, TickAbort,
       Crash, Hydrate, vars
<1>4. ASSUME NEW t \in Tasks,
            \/ FillRead(t) \/ FillRecheck(t) \/ FillCommit(t) \/ FillRefuse(t)
            \/ FillRecord(t) \/ FillReject(t) \/ FillDrop(t) \/ FillDone(t)
            \/ FillCommitUnheard(t) \/ FillError(t)
     PROVE  RacedChange(p)
  BY <1>4, <1>0 DEF FillRead, FillRecheck, FillCommit, FillRefuse, FillRecord, FillReject,
       FillDrop, FillDone, FillCommitUnheard, FillError
<1>5. ASSUME NEW e \in Editors, EditWrite(e) \/ EditUnheard(e) PROVE RacedChange(p)
  BY <1>5, <1>0 DEF EditWrite, EditUnheard, RacedChange, Writes, TypeInv, TypeOK
<1>6. ASSUME NEW o \in Orders, PlaceUnheard(o) \/ CancelUnheard(o) \/ TickUnheard(o)
     PROVE  RacedChange(p)
  BY <1>6, <1>0 DEF PlaceUnheard, CancelUnheard, TickUnheard
<1> QED
  BY <1>1, <1>2, <1>3, <1>4, <1>5, <1>6
  DEF Next, PlaceStep, TickStep, FillStep

LEMMA FilledChanges ==
  ASSUME TypeInv, [Next]_vars, NEW p \in Orders
  PROVE  FilledChange(p)
<1>0. filledWith' = filledWith => FilledChange(p)
  BY DEF FilledChange
<1>1. ASSUME NEW o \in Orders,
            \/ PlaceInsert(o) \/ PlaceKill(o) \/ PlaceUpsert(o)
            \/ PlaceFire(o) \/ PlaceStart(o) \/ CancelWrite(o)
            \/ CancelDrop(o) \/ FallDue(o) \/ TickExpire(o)
            \/ TickRestartFill(o) \/ TickPass(o) \/ TickArm(o) \/ TickFire(o)
     PROVE  FilledChange(p)
  BY <1>1, <1>0 DEF PlaceInsert, PlaceKill, PlaceUpsert, PlaceFire, PlaceStart, CancelWrite,
       CancelDrop, FallDue, TickExpire, TickRestartFill, TickPass, TickArm,
       TickFire
<1>2. ASSUME NEW e \in Editors, EditPatch(e) \/ EditWrite(e) \/ \E o \in Orders : EditRead(e, o)
     PROVE  FilledChange(p)
  BY <1>2, <1>0 DEF EditRead, EditWrite, EditPatch
<1>3. ASSUME \/ TickBegin \/ TickExpireDrop \/ TickArmPatch \/ TickFirePatch
            \/ TickAbort \/ Crash \/ Hydrate \/ UNCHANGED vars
     PROVE  FilledChange(p)
  BY <1>3, <1>0 DEF TickBegin, TickExpireDrop, TickArmPatch, TickFirePatch, TickAbort,
       Crash, Hydrate, vars, database
<1>4. ASSUME NEW t \in Tasks,
            \/ FillRead(t) \/ FillRecheck(t) \/ FillRefuse(t) \/ FillRecord(t)
            \/ FillReject(t) \/ FillDrop(t) \/ FillDone(t) \/ FillError(t)
     PROVE  FilledChange(p)
  BY <1>4, <1>0 DEF FillRead, FillRecheck, FillRefuse, FillRecord, FillReject, FillDrop,
       FillDone, FillError
<1>5. ASSUME NEW t \in Tasks, FillCommit(t) \/ FillCommitUnheard(t) PROVE FilledChange(p)
  BY <1>5 DEF FillCommit, FillCommitUnheard, OpenPosition, FilledChange, TypeInv, TypeOK
<1>6. ASSUME NEW o \in Orders, PlaceUnheard(o) \/ CancelUnheard(o) \/ TickUnheard(o)
     PROVE  FilledChange(p)
  BY <1>6, <1>0 DEF PlaceUnheard, CancelUnheard, TickUnheard
<1>7. ASSUME NEW e \in Editors, EditUnheard(e) PROVE FilledChange(p)
  BY <1>7, <1>0 DEF EditUnheard
<1> QED
  BY <1>1, <1>2, <1>3, <1>4, <1>5, <1>6, <1>7
  DEF Next, PlaceStep, TickStep, FillStep

LEMMA DroppingChanges ==
  ASSUME TypeInv, [Next]_vars
  PROVE  \A p \in dropping' : p \in dropping \/ row'[p].status \in Terminal
<1> DEFINE Ended == \A p \in dropping' : p \in dropping \/ row'[p].status \in Terminal
<1>1. ASSUME NEW o \in Orders,
            \/ PlaceInsert(o) \/ PlaceKill(o) \/ PlaceUpsert(o)
            \/ PlaceFire(o) \/ PlaceStart(o) \/ FallDue(o) \/ TickExpire(o)
            \/ TickRestartFill(o) \/ TickPass(o) \/ TickArm(o) \/ TickFire(o)
     PROVE  Ended
  BY <1>1 DEF PlaceInsert, PlaceKill, PlaceUpsert, PlaceFire, PlaceStart, FallDue,
       TickExpire, TickRestartFill, TickPass, TickArm, TickFire
<1>2. ASSUME NEW e \in Editors, EditPatch(e) \/ EditWrite(e) \/ \E o \in Orders : EditRead(e, o)
     PROVE  Ended
  BY <1>2 DEF EditRead, EditWrite, EditPatch
<1>3. ASSUME \/ TickBegin \/ TickExpireDrop \/ TickArmPatch \/ TickFirePatch
            \/ TickAbort \/ Hydrate \/ UNCHANGED vars
     PROVE  Ended
  BY <1>3 DEF TickBegin, TickExpireDrop, TickArmPatch, TickFirePatch, TickAbort,
       Hydrate, vars
<1>4. ASSUME NEW t \in Tasks,
            \/ FillRead(t) \/ FillRecheck(t) \/ FillCommit(t) \/ FillRefuse(t)
            \/ FillRecord(t) \/ FillReject(t) \/ FillDrop(t) \/ FillDone(t)
            \/ FillCommitUnheard(t) \/ FillError(t)
     PROVE  Ended
  BY <1>4 DEF FillRead, FillRecheck, FillCommit, FillRefuse, FillRecord, FillReject,
       FillDrop, FillDone, FillCommitUnheard, FillError
<1>5. ASSUME NEW o \in Orders, CancelWrite(o) PROVE Ended
  <2>1. row'[o].status = "CANCELLED"
    BY <1>5 DEF CancelWrite, SetStatus, TypeInv, TypeOK, RowRecords
  <2> QED
    BY <1>5, <2>1 DEF CancelWrite, Terminal
<1>6. ASSUME NEW o \in Orders, CancelDrop(o) PROVE Ended
  BY <1>6 DEF CancelDrop
<1>7. CASE Crash
  BY <1>7 DEF Crash
<1>8. ASSUME NEW o \in Orders, PlaceUnheard(o) \/ CancelUnheard(o) \/ TickUnheard(o)
     PROVE  Ended
  BY <1>8 DEF PlaceUnheard, CancelUnheard, TickUnheard
<1>9. ASSUME NEW e \in Editors, EditUnheard(e) PROVE Ended
  BY <1>9 DEF EditUnheard
<1> QED
  BY <1>1, <1>2, <1>3, <1>4, <1>5, <1>6, <1>7, <1>8, <1>9
  DEF Next, PlaceStep, TickStep, FillStep

\* A failure that was ignored is not forgotten.
LEMMA FaultsStay ==
  ASSUME TypeInv, [Next]_vars
  PROVE  faults'.db = 0 => faults.db = 0
<1> DEFINE Kept == faults'.db = 0 => faults.db = 0
<1>1. ASSUME NEW o \in Orders,
            \/ PlaceInsert(o) \/ PlaceKill(o) \/ PlaceUpsert(o) \/ PlaceStart(o)
            \/ CancelWrite(o) \/ CancelDrop(o) \/ FallDue(o)
            \/ TickRestartFill(o) \/ TickPass(o) \/ TickArm(o) \/ TickFire(o)
     PROVE  Kept
  BY <1>1 DEF PlaceInsert, PlaceKill, PlaceUpsert, PlaceStart, CancelWrite, CancelDrop, FallDue,
       TickRestartFill, TickPass, TickArm, TickFire
<1>2. ASSUME NEW e \in Editors, EditPatch(e) \/ EditWrite(e) \/ \E o \in Orders : EditRead(e, o)
     PROVE  Kept
  BY <1>2 DEF EditRead, EditWrite, EditPatch
<1>3. ASSUME \/ TickBegin \/ TickExpireDrop \/ TickArmPatch \/ TickFirePatch
            \/ UNCHANGED vars
     PROVE  Kept
  BY <1>3 DEF TickBegin, TickExpireDrop, TickArmPatch, TickFirePatch, vars
<1>4. ASSUME NEW t \in Tasks,
            \/ FillRead(t) \/ FillRecheck(t) \/ FillCommit(t) \/ FillRefuse(t)
            \/ FillDrop(t) \/ FillDone(t)
     PROVE  Kept
  BY <1>4 DEF FillRead, FillRecheck, FillCommit, FillRefuse, FillDrop, FillDone
<1>5. faults \in FaultRecords
  BY DEF TypeInv, TypeOK
<1>6. ASSUME faults' = faults \/ DbFault \/ Transient PROVE Kept
  BY <1>5, <1>6 DEF DbFault, Transient, FaultRecords
<1>7. ASSUME NEW o \in Orders, PlaceFire(o) \/ TickExpire(o) PROVE Kept
  BY <1>6, <1>7 DEF PlaceFire, TickExpire
<1>8. ASSUME NEW t \in Tasks,
            FillCommitUnheard(t) \/ FillError(t) \/ FillRecord(t) \/ FillReject(t)
     PROVE  Kept
  BY <1>6, <1>8 DEF FillCommitUnheard, FillError, FillRecord, FillReject
<1>9. CASE TickAbort \/ Hydrate
  BY <1>6, <1>9 DEF TickAbort, Hydrate
<1>10. CASE Crash
  BY <1>5, <1>10 DEF Crash, FaultRecords
<1>11. ASSUME NEW o \in Orders, PlaceUnheard(o) \/ CancelUnheard(o) \/ TickUnheard(o)
     PROVE  Kept
  BY <1>11, <1>6 DEF PlaceUnheard, CancelUnheard, TickUnheard, Unheard
<1>12. ASSUME NEW e \in Editors, EditUnheard(e) PROVE Kept
  BY <1>12, <1>6 DEF EditUnheard, Unheard
<1> QED
  BY <1>1, <1>2, <1>3, <1>4, <1>7, <1>8, <1>9, <1>10, <1>11, <1>12
  DEF Next, PlaceStep, TickStep, FillStep

\* What is unsaid of an order stays so until the book is told or read again.
Told(p, what) ==
  \/ what = "fired" /\ (PlaceStart(p) \/ (TickFirePatch /\ tick.order = p))
  \/ what = "terms" /\ \E e \in Editors : EditWrite(e) /\ editor[e].order = p

\* An order that was inserted, and whose handler ended before the book had it.
Lost(p) == PlaceUnheard(p) /\ place[p].pc \in {"new", "kill"}

UnsaidChange(p) ==
  /\ \A what \in {"order", "armed", "fired", "terms"} :
       what \in unsaid[p] => what \in unsaid'[p] \/ ~up' \/ Told(p, what)
  /\ "order" \in unsaid'[p] => "order" \in unsaid[p] \/ Lost(p)

LEMMA UnsaidChanges ==
  ASSUME TypeInv, [Next]_vars, NEW p \in Orders
  PROVE  UnsaidChange(p)
<1>0. unsaid' = unsaid => UnsaidChange(p)
  BY DEF UnsaidChange
<1>1. ASSUME NEW o \in Orders,
            \/ PlaceInsert(o) \/ PlaceKill(o) \/ PlaceUpsert(o) \/ PlaceFire(o)
            \/ CancelWrite(o) \/ CancelUnheard(o) \/ CancelDrop(o) \/ FallDue(o)
            \/ TickExpire(o) \/ TickRestartFill(o) \/ TickPass(o) \/ TickArm(o) \/ TickFire(o)
     PROVE  UnsaidChange(p)
  BY <1>1, <1>0 DEF PlaceInsert, PlaceKill, PlaceUpsert, PlaceFire, CancelWrite, CancelUnheard,
       CancelDrop, FallDue, TickExpire, TickRestartFill, TickPass, TickArm, TickFire
<1>2. ASSUME NEW e \in Editors, EditPatch(e) \/ \E o \in Orders : EditRead(e, o)
     PROVE  UnsaidChange(p)
  BY <1>2, <1>0 DEF EditRead, EditPatch
<1>3. ASSUME \/ TickBegin \/ TickExpireDrop \/ TickArmPatch \/ TickAbort
            \/ Hydrate \/ UNCHANGED vars
     PROVE  UnsaidChange(p)
  BY <1>3, <1>0 DEF TickBegin, TickExpireDrop, TickArmPatch, TickAbort, Hydrate, vars
<1>4. ASSUME NEW t \in Tasks,
            \/ FillRead(t) \/ FillRecheck(t) \/ FillCommit(t) \/ FillRefuse(t)
            \/ FillRecord(t) \/ FillReject(t) \/ FillDrop(t) \/ FillDone(t)
            \/ FillCommitUnheard(t) \/ FillError(t)
     PROVE  UnsaidChange(p)
  BY <1>4, <1>0 DEF FillRead, FillRecheck, FillCommit, FillRefuse, FillRecord, FillReject,
       FillDrop, FillDone, FillCommitUnheard, FillError
<1>5. ASSUME NEW o, NEW what, Unheard(o, what), what = "order" => (o = p => Lost(p))
     PROVE  UnsaidChange(p)
  <2>1. unsaid'[p] = IF p = o THEN unsaid[p] \cup {what} ELSE unsaid[p]
    BY <1>5 DEF Unheard, TypeInv, TypeOK
  <2> QED
    BY <1>5, <2>1 DEF UnsaidChange
<1>6. ASSUME NEW o, NEW what, Tells(o, what), o = p => Told(p, what) PROVE UnsaidChange(p)
  <2>1. unsaid'[p] = IF p = o THEN unsaid[p] \ {what} ELSE unsaid[p]
    BY <1>6 DEF Tells, TypeInv, TypeOK
  <2> QED
    BY <1>6, <2>1 DEF UnsaidChange
<1>7. ASSUME NEW o \in Orders, PlaceUnheard(o) PROVE UnsaidChange(p)
  <2>1. \/ place[o].pc \in {"new", "kill"} /\ Unheard(o, "order")
        \/ Unheard(o, "fired")
    BY <1>7 DEF PlaceUnheard
  <2> QED
    BY <1>7, <2>1, <1>5 DEF Lost
<1>8. ASSUME NEW o \in Orders, TickUnheard(o) PROVE UnsaidChange(p)
  <2>1. Unheard(o, "armed") \/ Unheard(o, "fired")
    BY <1>8 DEF TickUnheard
  <2> QED
    BY <2>1, <1>5
<1>9. ASSUME NEW e \in Editors, EditUnheard(e) PROVE UnsaidChange(p)
  <2>1. Unheard(editor[e].order, "terms") \/ unsaid' = unsaid
    BY <1>9 DEF EditUnheard
  <2> QED
    BY <2>1, <1>0, <1>5
<1>10. ASSUME NEW o \in Orders, PlaceStart(o) PROVE UnsaidChange(p)
  <2>1. Tells(o, "fired") /\ (o = p => Told(p, "fired"))
    BY <1>10 DEF PlaceStart, Told
  <2> QED
    BY <2>1, <1>6
<1>11. CASE TickFirePatch
  <2>1. Tells(tick.order, "fired") /\ (tick.order = p => Told(p, "fired"))
    BY <1>11 DEF TickFirePatch, Told
  <2> QED
    BY <2>1, <1>6
<1>12. ASSUME NEW e \in Editors, EditWrite(e) PROVE UnsaidChange(p)
  <2>1. Tells(editor[e].order, "terms") /\ (editor[e].order = p => Told(p, "terms"))
    BY <1>12 DEF EditWrite, Told
  <2> QED
    BY <2>1, <1>6
<1>13. CASE Crash
  BY <1>13 DEF Crash, UnsaidChange
<1> QED
  BY <1>1, <1>2, <1>3, <1>4, <1>7, <1>8, <1>9, <1>10, <1>11, <1>12, <1>13
  DEF Next, PlaceStep, TickStep, FillStep

-----------------------------------------------------------------------------
(* The parts are inductive.                                                 *)

LEMMA InitBook ==
  Init => /\ EarlyInv /\ ArmInv /\ EditInv /\ TriggerInv /\ FilledInv /\ DropInv
          /\ NoOrderForgotten
<1> SUFFICES ASSUME Init
             PROVE  /\ EarlyInv /\ ArmInv /\ EditInv /\ TriggerInv /\ FilledInv /\ DropInv
                    /\ NoOrderForgotten
  OBVIOUS
<1>1. /\ \A o \in Orders : /\ ~Watched(o) /\ book[o].status # "PARTIAL"
                           /\ row[o].status = "none" /\ row[o].armed = FALSE
                           /\ place[o].pc = "new"
      /\ \A t \in Tasks : task[t].pc = "idle"
      /\ \A e \in Editors : editor[e].pc = "idle"
      /\ up /\ dropping = {} /\ tick.pc = "idle" /\ DOMAIN tick.rows = {}
      /\ \A o \in Orders : unsaid[o] = {}
  BY DEF Init, Watched, NoRow, IdleTask, IdleEditor, IdleTick
<1>2. EarlyInv
  BY <1>1 DEF EarlyInv, Down, NotYet, TickAt
<1>3. ArmInv
  BY <1>1 DEF ArmInv, ArmingAgrees
<1>4. EditInv
  BY <1>1 DEF EditInv, TermsInv, Editing
<1>5. TriggerInv
  BY <1>1 DEF TriggerInv, Triggered, Busy
<1>6. FilledInv
  BY <1>1 DEF FilledInv, FilledAsOrdered, Busy
<1>7. DropInv
  BY <1>1 DEF DropInv
<1>8. NoOrderForgotten
  BY <1>1 DEF NoOrderForgotten, Working
<1> QED
  BY <1>2, <1>3, <1>4, <1>5, <1>6, <1>7, <1>8

\* Only hydrate brings the process up.
LEMMA UpChanges ==
  ASSUME TypeInv, [Next]_vars
  PROVE  up' = up \/ Crash \/ Hydrate
<1>1. ASSUME NEW o \in Orders,
            \/ PlaceInsert(o) \/ PlaceKill(o) \/ PlaceUpsert(o)
            \/ PlaceFire(o) \/ PlaceStart(o) \/ CancelWrite(o)
            \/ CancelDrop(o) \/ FallDue(o) \/ TickExpire(o)
            \/ TickRestartFill(o) \/ TickPass(o) \/ TickArm(o) \/ TickFire(o)
     PROVE  up' = up
  BY <1>1 DEF PlaceInsert, PlaceKill, PlaceUpsert, PlaceFire, PlaceStart, CancelWrite,
       CancelDrop, FallDue, TickExpire, TickRestartFill, TickPass, TickArm,
       TickFire
<1>2. ASSUME NEW e \in Editors, EditPatch(e) \/ EditWrite(e) \/ \E o \in Orders : EditRead(e, o)
     PROVE  up' = up
  BY <1>2 DEF EditRead, EditWrite, EditPatch
<1>3. ASSUME \/ TickBegin \/ TickExpireDrop \/ TickArmPatch \/ TickFirePatch
            \/ TickAbort \/ UNCHANGED vars
     PROVE  up' = up
  BY <1>3 DEF TickBegin, TickExpireDrop, TickArmPatch, TickFirePatch, TickAbort, vars
<1>4. ASSUME NEW t \in Tasks,
            \/ FillRead(t) \/ FillRecheck(t) \/ FillCommit(t) \/ FillRefuse(t)
            \/ FillRecord(t) \/ FillReject(t) \/ FillDrop(t) \/ FillDone(t)
            \/ FillCommitUnheard(t) \/ FillError(t)
     PROVE  up' = up
  BY <1>4 DEF FillRead, FillRecheck, FillCommit, FillRefuse, FillRecord, FillReject,
       FillDrop, FillDone, FillCommitUnheard, FillError
<1>5. ASSUME NEW o \in Orders, PlaceUnheard(o) \/ CancelUnheard(o) \/ TickUnheard(o)
     PROVE  up' = up
  BY <1>5 DEF PlaceUnheard, CancelUnheard, TickUnheard
<1>6. ASSUME NEW e \in Editors, EditUnheard(e) PROVE up' = up
  BY <1>6 DEF EditUnheard
<1> QED
  BY <1>1, <1>2, <1>3, <1>4, <1>5, <1>6
  DEF Next, PlaceStep, TickStep, FillStep

\* Nothing happens in a process that is down.
LEMMA DownIsQuiet ==
  ASSUME TypeInv, Down, ~up, [Next]_vars
  PROVE  Hydrate \/ UNCHANGED <<up, book, place, tick, task, editor, dropping, unsaid>>
<1> USE DEF Down
<1>1. ~(\E o \in Orders :
          \/ PlaceInsert(o) \/ PlaceKill(o) \/ PlaceUpsert(o) \/ PlaceFire(o)
          \/ PlaceStart(o) \/ PlaceUnheard(o)
          \/ CancelWrite(o) \/ CancelUnheard(o) \/ CancelDrop(o))
  BY DEF PlaceInsert, PlaceKill, PlaceUpsert, PlaceFire, PlaceStart, PlaceUnheard, CancelWrite,
         CancelUnheard, CancelDrop
<1>2. ~(\E e \in Editors : \/ EditWrite(e) \/ EditUnheard(e) \/ EditPatch(e)
                         \/ \E o \in Orders : EditRead(e, o))
  BY DEF EditRead, EditWrite, EditUnheard, EditPatch
<1>3. ~(\E o \in Orders : TickStep(o) \/ TickUnheard(o))
  BY DEF TickStep, TickExpire, TickRestartFill, TickPass, TickArm, TickFire, TickUnheard, Judged,
         Comes
<1>4. ~(TickBegin \/ TickExpireDrop \/ TickArmPatch \/ TickFirePatch \/ TickAbort \/ Crash)
  BY DEF TickBegin, TickExpireDrop, TickArmPatch, TickFirePatch, TickAbort, Crash
<1>5. ~(\E t \in Tasks : FillStep(t) \/ FillCommitUnheard(t) \/ FillError(t))
  BY DEF FillStep, FillRead, FillRecheck, FillCommit, FillRefuse, FillRecord, FillReject,
         FillDrop, FillDone, FillCommitUnheard, FillError, At
<1>6. ASSUME NEW o \in Orders, FallDue(o)
      PROVE  UNCHANGED <<up, book, place, tick, task, editor, dropping, unsaid>>
  BY <1>6 DEF FallDue
<1>7. UNCHANGED vars => UNCHANGED <<up, book, place, tick, task, editor, dropping, unsaid>>
  BY DEF vars
<1> QED
  BY <1>1, <1>2, <1>3, <1>4, <1>5, <1>6, <1>7 DEF Next, PlaceStep

LEMMA DownStep ==
  ASSUME TypeInv, Down, [Next]_vars
  PROVE  Down'
<1>1. CASE ~up
  <2>1. CASE Hydrate
    BY <2>1 DEF Hydrate, Down
  <2>2. CASE UNCHANGED <<up, book, place, tick, task, editor, dropping, unsaid>>
    BY <1>1, <2>2 DEF Down, Watched
  <2> QED
    BY <1>1, <2>1, <2>2, DownIsQuiet
<1>2. CASE up
  <2>1. CASE Crash
    <3>1. /\ \A o \in Orders : ~Watched(o)' /\ place'[o].pc \in {"new", "done"}
          /\ \A t \in Tasks : task'[t].pc = "idle"
          /\ \A e \in Editors : editor'[e].pc = "idle"
          /\ \A o \in Orders : unsaid'[o] = {}
      BY <2>1 DEF Crash, Watched, NoRow, IdleTask, IdleEditor, Placed
    <3>2. dropping' = {} /\ tick'.pc = "idle" /\ DOMAIN tick'.rows = {}
      BY <2>1 DEF Crash, IdleTick
    <3> QED
      BY <3>1, <3>2 DEF Down
  <2>2. CASE up'
    BY <2>2 DEF Down
  <2> QED
    BY <1>2, <2>1, <2>2, UpChanges DEF Hydrate
<1> QED
  BY <1>1, <1>2

\* What hydrate makes of the book.
LEMMA HydrateBook ==
  ASSUME TypeInv, Down, Hydrate, NEW p \in Orders
  PROVE  /\ UNCHANGED <<row, place, tick, task, editor>>
         /\ Watched(p)' => Resumable(p) /\ book'[p] = Hydrated(p)
         /\ \/ Resumable(p) => book'[p] = Hydrated(p)
            \/ faults'.db # 0
<1>1. UNCHANGED <<row, place, tick, task, editor>>
  BY DEF Hydrate, database
<1>2. ~Watched(p)
  BY DEF Hydrate, Down
<1>3. CASE book' = [o \in Orders |-> IF Resumable(o) THEN Hydrated(o) ELSE NoRow]
  BY <1>1, <1>3 DEF Watched, NoRow
<1>4. CASE DbFault /\ UNCHANGED book
  <2>1. faults'.db # 0
    BY <1>4 DEF DbFault, TypeInv, TypeOK, FaultRecords
  <2> QED
    BY <1>1, <1>2, <1>4, <2>1 DEF Watched
<1> QED
  BY <1>3, <1>4 DEF Hydrate

\* An order that is new, or has just been inserted, is nowhere else.
LEMMA NewIsFresh ==
  ASSUME Inv, NEW p \in Orders, Inserts(p)
  PROVE  /\ ~Watched(p) /\ row[p].status = "none"
         /\ row'[p].status = "PENDING" /\ row'[p].armed = FALSE
<1>1. place[p].pc = "new"
  BY DEF Inserts, PlaceInsert
<1>2. ~Watched(p) /\ row[p].status = "none"
  BY <1>1 DEF Inv, NewInv, Untouched, Watched
<1>3. row'[p].status = "PENDING" /\ row'[p].armed = FALSE
  BY <1>1 DEF Inserts, PlaceInsert, PlaceUnheard, Inv, TypeInv, TypeOK
<1> QED
  BY <1>2, <1>3

\* An order no handler has put in the book stays out of it.
LEMMA EarlyOrder ==
  ASSUME Inv, EarlyInv, [Next]_vars, NEW p \in Orders,
         place'[p].pc \in Early \/ "order" \in unsaid'[p]
  PROVE  /\ ~Watched(p)' /\ p \notin DOMAIN tick'.rows /\ ~TickAt(p)'
         /\ row'[p].armed = FALSE /\ row'[p].status # "PARTIAL"
<1> USE DEF Inv
<1>1. place[p].pc \in Early \/ "order" \in unsaid[p]
  <2>1. PlaceInsert(p) => place[p].pc = "new"
    BY DEF PlaceInsert
  <2>2. PlaceUpsert(p) => place'[p].pc \in {"fire", "done"}
    BY DEF PlaceUpsert, Placed, TypeInv, TypeOK
  <2>3. place'[p].pc \in Early => place[p].pc \in Early
    BY <2>1, <2>2, PlaceChanges DEF PlaceChange, Early
  <2>4. "order" \in unsaid'[p] => place[p].pc \in Early \/ "order" \in unsaid[p]
    BY UnsaidChanges DEF UnsaidChange, Lost, Early
  <2> QED
    BY <2>3, <2>4
<1>2. /\ ~Watched(p) /\ p \notin DOMAIN tick.rows /\ ~TickAt(p)
      /\ row[p].armed = FALSE /\ row[p].status # "PARTIAL"
      /\ place[p].pc \in Early \cup {"done"}
  BY <1>1 DEF EarlyInv, NotYet, Early
<1>3. ~PlaceUpsert(p)
  <2>1. "order" \notin unsaid[p] \/ place[p].pc = "done"
    BY DEF EarlyInv, NotYet
  <2>2. ASSUME PlaceUpsert(p) PROVE FALSE
    <3>1. place[p].pc \in {"rest", "restAndFire"} /\ unsaid' = unsaid
      BY <2>2 DEF PlaceUpsert
    <3>2. place'[p].pc \in {"fire", "done"}
      BY <2>2 DEF PlaceUpsert, Placed, TypeInv, TypeOK
    <3> QED
      BY <2>1, <3>1, <3>2 DEF Early
  <2> QED
    BY <2>2
<1>4. ~Fires(p) /\ ~TickArm(p) /\ ~TickUnheard(p)
  BY <1>2 DEF Fires, PlaceFire, TickFire, TickArm, TickUnheard, Judged, Comes, Early
<1>5. ~Watched(p)'
  <2>1. CASE Hydrate
    <3>1. place[p].pc = "new"
      BY <1>1, <2>1 DEF Hydrate, EarlyInv, Down, Early
    <3>2. ~Resumable(p)
      BY <3>1 DEF NewInv, Untouched, Resumable
    <3> QED
      BY <2>1, <3>2, HydrateBook DEF EarlyInv
  <2> QED
    BY <1>2, <1>3, <2>1, BookChanges DEF BookChange
<1>6. p \notin DOMAIN tick'.rows /\ ~TickAt(p)'
  <2>1. CASE TickBegin
    BY <1>2, <2>1 DEF TickBegin, TickAt
  <2>2. CASE RowsKept /\ (tick' = tick \/ tick'.pc \in {"idle", "walk"} \/ tick'.order \in DOMAIN tick.rows)
    BY <1>2, <2>2 DEF RowsKept, TickAt
  <2> QED
    BY <2>1, <2>2, TickChanges DEF TickChange
<1>7. row'[p].armed = FALSE /\ row'[p].status # "PARTIAL"
  <2>1. CASE Inserts(p)
    BY <2>1, NewIsFresh
  <2>2. CASE RowChange(p)
    BY <1>2, <1>4, <2>2 DEF RowChange, Terminal
  <2> QED
    BY <2>1, <2>2, RowChanges
<1> QED
  BY <1>5, <1>6, <1>7

LEMMA EarlyStep ==
  ASSUME Inv, EarlyInv, [Next]_vars
  PROVE  EarlyInv'
<1>1. Down'
  BY DownStep DEF EarlyInv, Inv
<1>2. ASSUME NEW p \in Orders PROVE NotYet(p)'
  <2>1. ASSUME "order" \in unsaid'[p] PROVE place'[p].pc = "done"
    <3>1. CASE Lost(p)
      BY <3>1 DEF Lost, PlaceUnheard, Placed, Inv, TypeInv, TypeOK
    <3>2. CASE "order" \in unsaid[p]
      <4>1. place[p].pc = "done"
        BY <3>2 DEF EarlyInv, NotYet
      <4> QED
        BY <4>1, PlaceChanges DEF PlaceChange, PlaceInsert, PlaceUpsert, PlaceFire, Inv
    <3> QED
      BY <2>1, <3>1, <3>2, UnsaidChanges DEF UnsaidChange, Inv
  <2> QED
    BY <2>1, EarlyOrder DEF NotYet
<1> QED
  BY <1>1, <1>2 DEF EarlyInv

LEMMA ArmStep ==
  ASSUME Inv, EarlyInv, ArmInv, [Next]_vars
  PROVE  ArmInv'
<1> USE DEF Inv
<1>1. ASSUME tick'.pc = "armed" PROVE row'[tick'.order].armed
  <2>1. CASE tick' = tick
    <3>1. tick.order \in Orders /\ row[tick.order].armed
      BY <1>1, <2>1 DEF TypeInv, TickOK, ArmInv
    <3>2. ~Inserts(tick.order)
      BY <1>1, <2>1, <3>1 DEF Inserts, PlaceInsert, NewInv, Untouched, TickAt
    <3> QED
      BY <2>1, <3>1, <3>2, RowChanges DEF RowChange
  <2>2. CASE Pauses(tick'.order)
    BY <1>1, <2>2 DEF Pauses
  <2>3. ~TickBegin
    BY <1>1 DEF TickBegin
  <2> QED
    BY <1>1, <2>1, <2>2, <2>3, TickChanges DEF TickChange
<1>2. ASSUME up', NEW p \in Orders, Watched(p)'
      PROVE  \/ book'[p].armed = row'[p].armed
             \/ /\ row'[p].armed
                /\ (tick'.pc = "armed" /\ tick'.order = p) \/ "armed" \in unsaid'[p]
  <2>1. CASE PlaceUpsert(p)
    BY <2>1 DEF PlaceUpsert, EarlyInv, NotYet, Early, TypeInv, TypeOK
  <2>2. CASE Hydrate
    <3>1. book'[p] = Hydrated(p) /\ row' = row
      BY <1>2, <2>2, HydrateBook DEF EarlyInv
    <3> QED
      BY <3>1 DEF Hydrated
  <2>3. CASE BookChange(p)
    <3>1. Watched(p) /\ CopyChange(p) /\ up
      BY <1>2, <2>3 DEF BookChange, EarlyInv, Down
    <3>2. \/ book[p].armed = row[p].armed
          \/ row[p].armed /\ ((tick.pc = "armed" /\ tick.order = p) \/ "armed" \in unsaid[p])
      BY <3>1 DEF ArmInv, ArmingAgrees
    <3>3. RowChange(p)
      BY <3>1, RowChanges, NewIsFresh
    <3>a. CASE row[p].armed /\ "armed" \in unsaid[p]
      <4>1. "armed" \in unsaid'[p]
        BY <1>2, <3>a, UnsaidChanges DEF UnsaidChange, Told
      <4> QED
        BY <3>3, <3>a, <4>1 DEF RowChange
    <3>b. CASE TickUnheard(p)
      <4>1. book' = book /\ tick.pc = "walk"
        BY <3>b DEF TickUnheard, Judged, Comes
      <4>2. CASE row' = [row EXCEPT ![p].armed = TRUE] /\ Unheard(p, "armed")
        BY <4>2 DEF Unheard, TypeInv, TypeOK, RowRecords
      <4>3. CASE SetStatus(p, "PARTIAL")
        <5>1. row'[p].armed = row[p].armed
          BY <4>3 DEF SetStatus, TypeInv, TypeOK, RowRecords
        <5> QED
          BY <3>2, <3>a, <4>1, <5>1
      <4> QED
        BY <3>b, <4>2, <4>3 DEF TickUnheard
    <3>4. CASE TickArmPatch /\ tick.order = p
      <4>1. row' = row /\ row[p].armed
        BY <3>4 DEF TickArmPatch, ArmInv
      <4>2. book'[p] = [book[p] EXCEPT !.armed = TRUE]
        BY <3>1, <3>4 DEF TickArmPatch, PatchBook, TypeInv, TypeOK
      <4>3. book'[p].armed = TRUE /\ row[p].armed \in BOOLEAN
        BY <4>2 DEF TypeInv, TypeOK, BookRows, RowRecords
      <4> QED
        BY <4>1, <4>3
    <3>5. CASE TickArm(p)
      <4>1. tick.pc = "walk" /\ book' = book
        BY <3>5 DEF TickArm, Judged, Comes
      <4>2. CASE row' = row
        BY <3>2, <3>a, <4>1, <4>2
      <4>3. CASE row' = [row EXCEPT ![p].armed = TRUE] /\ tick' = Pause("armed", p)
        BY <4>3 DEF Pause, TypeInv, TypeOK, RowRecords
      <4> QED
        BY <3>5, <4>2, <4>3 DEF TickArm
    <3>6. CASE ~(TickArmPatch /\ tick.order = p) /\ ~TickArm(p) /\ ~TickUnheard(p)
      <4>1. book'[p].armed = book[p].armed /\ row'[p].armed = row[p].armed
        BY <3>1, <3>3, <3>6 DEF CopyChange, RowChange
      <4>2. CASE tick.pc = "armed" /\ tick.order = p
        <5>1. tick' = tick
          BY <1>2, <3>6, <4>2, TickChanges DEF TickChange, TickBegin
        <5> QED
          BY <3>2, <3>a, <4>1, <5>1
      <4> QED
        BY <3>2, <3>a, <4>1, <4>2
    <3> QED
      BY <3>4, <3>5, <3>6, <3>b
  <2> QED
    BY <2>1, <2>2, <2>3, BookChanges
<1> QED
  BY <1>1, <1>2 DEF ArmInv, ArmingAgrees

\* An order that has been inserted is never new again.
LEMMA NeverNewAgain ==
  ASSUME TypeInv, [Next]_vars, NEW p \in Orders, place[p].pc # "new"
  PROVE  place'[p].pc # "new"
<1>1. ~PlaceInsert(p)
  BY DEF PlaceInsert
<1> QED
  BY <1>1, PlaceChanges DEF PlaceChange

\* The order an editor is about to write or to patch has been inserted.
LEMMA EditorsStep ==
  ASSUME Inv, EditInv, [Next]_vars, NEW e \in Editors, editor'[e].pc # "idle"
  PROVE  place'[editor'[e].order].pc # "new"
<1> DEFINE o == editor'[e].order
<1>1. o \in Orders
  BY StepType DEF Inv, TypeInv, EditorsOK
<1>2. place[o].pc # "new"
  <2>1. CASE row[o].status = "PENDING"
    BY <1>1, <2>1 DEF Inv, NewInv, Untouched
  <2>2. CASE editor'[e] = editor[e]
    BY <2>2 DEF EditInv
  <2>3. CASE EditWrite(e) /\ o = editor[e].order
    BY <2>3 DEF EditInv, EditWrite
  <2> QED
    BY <2>1, <2>2, <2>3, EditorChanges DEF EditorChange, Inv
<1> QED
  BY <1>1, <1>2, NeverNewAgain DEF Inv

\* An edit that crosses nobody is the only one at its order.
LEMMA EditWriteStep ==
  ASSUME Inv, NEW p \in Orders, TermsInv(p), NEW e \in Editors, EditWrite(e),
         editor[e].order = p
  PROVE  TermsInv(p)'
<1> SUFFICES ASSUME "book" \notin raced'[p] PROVE TermsInv(p)'
  BY DEF TermsInv
<1> USE DEF Inv
<1>1. raced'[p] = raced[p] \cup Crossings(e, p) /\ place' = place
  BY DEF EditWrite, TypeInv, TypeOK
<1>2. /\ place[p].pc \notin {"rest", "restAndFire"}
      /\ \A f \in Editors \ {e} : ~Editing(f, p)
  BY <1>1 DEF Crossings, Editing
<1>3. editor[e] \in EditorRecords /\ row[p] \in RowRecords
  BY DEF TypeInv, TypeOK
<1>4. row'[p] = [row[p] EXCEPT !.terms = editor[e].terms]
  BY DEF EditWrite, TypeInv, TypeOK
<1>5. /\ editor'[e] = [editor[e] EXCEPT !.pc = "patch"]
      /\ \A f \in Editors \ {e} : editor'[f] = editor[f]
  BY DEF EditWrite, TypeInv, TypeOK
<1>6. row'[p].terms = editor'[e].terms /\ Editing(e, p)'
  BY <1>3, <1>4, <1>5 DEF RowRecords, EditorRecords, Editing
<1>7. \A f \in Editors : Editing(f, p)' => f = e
  BY <1>2, <1>5 DEF Editing
<1> QED
  BY <1>1, <1>2, <1>6, <1>7 DEF TermsInv

\* An edit that is written and not heard leaves no other at its order either.
LEMMA EditUnheardStep ==
  ASSUME Inv, NEW p \in Orders, TermsInv(p), NEW e \in Editors, EditUnheard(e),
         editor[e].order = p
  PROVE  TermsInv(p)'
<1> SUFFICES ASSUME "book" \notin raced'[p] PROVE TermsInv(p)'
  BY DEF TermsInv
<1> USE DEF Inv
<1>1. book' = book /\ place' = place /\ editor' = [editor EXCEPT ![e] = IdleEditor]
  BY DEF EditUnheard
<1>2. \A f \in Editors : Editing(f, p)' => f # e /\ Editing(f, p) /\ editor'[f] = editor[f]
  BY <1>1 DEF Editing, IdleEditor, TypeInv, TypeOK
<1>3. ~Editing(e, p)
  BY DEF Editing, EditUnheard
<1>4. CASE raced' = raced /\ row' = row /\ unsaid' = unsaid
  <2>1. (\A f \in Editors : ~Editing(f, p)') => \A f \in Editors : ~Editing(f, p)
    BY <1>1, <1>3 DEF Editing, TypeInv, TypeOK
  <2> QED
    BY <1>1, <1>2, <1>4, <2>1 DEF TermsInv, Watched
<1>5. CASE raced' = [raced EXCEPT ![p] = @ \cup Crossings(e, p)] /\ Unheard(p, "terms")
  <2>1. raced'[p] = raced[p] \cup Crossings(e, p)
    BY <1>5 DEF TypeInv, TypeOK
  <2>2. /\ place[p].pc \notin {"rest", "restAndFire"}
        /\ \A f \in Editors \ {e} : ~Editing(f, p)
    BY <2>1 DEF Crossings, Editing
  <2>3. "terms" \in unsaid'[p]
    BY <1>5 DEF Unheard, TypeInv, TypeOK
  <2> QED
    BY <1>1, <1>2, <2>2, <2>3 DEF TermsInv
<1> QED
  BY <1>4, <1>5 DEF EditUnheard

LEMMA TermsStep ==
  ASSUME Inv, EarlyInv, EditInv, [Next]_vars, NEW p \in Orders
  PROVE  TermsInv(p)'
<1> USE DEF Inv
<1>1. TermsInv(p)
  BY DEF EditInv
<1>2. ASSUME NEW e \in Editors, Writes(e, p) PROVE TermsInv(p)'
  BY <1>1, <1>2, EditWriteStep, EditUnheardStep DEF Writes
<1>u. CASE PlaceUnheard(p) /\ place[p].pc = "new"
  <2>1. ~Watched(p) /\ book' = book /\ editor' = editor /\ place'[p].pc = "done"
    BY <1>u DEF PlaceUnheard, NewInv, Untouched, Watched, Placed, TypeInv, TypeOK
  <2>2. \A e \in Editors : ~Editing(e, p)
    BY <1>u DEF EditInv, Editing
  <2> QED
    BY <2>1, <2>2 DEF TermsInv, Watched, Editing
<1>3. CASE PlaceInsert(p)
  <2>1. /\ ~Watched(p) /\ book' = book /\ editor' = editor /\ place'[p].terms = row'[p].terms
    BY <1>3 DEF PlaceInsert, NewInv, Untouched, Watched, TypeInv, TypeOK
  <2>2. \A e \in Editors : ~Editing(e, p)
    BY <1>3 DEF PlaceInsert, EditInv, Editing
  <2> QED
    BY <2>1, <2>2 DEF TermsInv, Watched, Editing
<1>4. ASSUME ~Inserts(p), \A e \in Editors : ~Writes(e, p), "book" \notin raced'[p]
      PROVE  TermsInv(p)'
  <2>1. "book" \notin raced[p] /\ row'[p].terms = row[p].terms
    BY <1>4, RacedChanges, RowChanges DEF RacedChange, RowChange
  <2>2. \A e \in Editors : Editing(e, p)' => Editing(e, p) /\ editor'[e] = editor[e]
    BY <1>4, EditorChanges DEF EditorChange, Editing, Writes
  <2>3. \A e \in Editors : Editing(e, p)' =>
          /\ editor'[e].terms = row'[p].terms
          /\ \A f \in Editors : Editing(f, p)' => e = f
    BY <1>1, <2>1, <2>2 DEF TermsInv
  <2>4. ASSUME place'[p].pc \in {"rest", "restAndFire"} PROVE place'[p].terms = row'[p].terms
    <3>1. place'[p] = place[p]
      BY <1>4, <2>4, PlaceChanges DEF PlaceChange, Inserts
    <3> QED
      BY <1>1, <2>1, <2>4, <3>1 DEF TermsInv
  <2>5. ASSUME Watched(p)', "terms" \notin unsaid'[p], \A e \in Editors : ~Editing(e, p)'
        PROVE  book'[p].terms = row'[p].terms
    <3>a. up'
      BY <2>5, DownStep DEF EarlyInv, Down
    <3>b. "terms" \notin unsaid[p]
      BY <1>4, <2>5, <3>a, UnsaidChanges DEF UnsaidChange, Told, Writes
    <3>1. CASE PlaceUpsert(p)
      <4>1. book'[p].terms = place[p].terms /\ place[p].pc \in {"rest", "restAndFire"}
        BY <3>1 DEF PlaceUpsert, TypeInv, TypeOK
      <4> QED
        BY <1>1, <2>1, <4>1 DEF TermsInv
    <3>2. CASE Hydrate
      <4>1. book'[p] = Hydrated(p) /\ row' = row
        BY <2>5, <3>2, HydrateBook DEF EarlyInv
      <4> QED
        BY <4>1 DEF Hydrated
    <3>3. CASE BookChange(p)
      <4>1. Watched(p) /\ CopyChange(p) /\ up'
        BY <2>5, <3>3, DownStep DEF BookChange, EarlyInv, Down
      <4>2. ASSUME NEW e \in Editors, EditPatch(e), editor[e].order = p
            PROVE  book'[p].terms = row'[p].terms
        <5>1. Editing(e, p)
          BY <4>2 DEF Editing, EditPatch
        <5>2. book'[p].terms = editor[e].terms
          BY <4>1, <4>2 DEF EditPatch, TypeInv, TypeOK, BookRows
        <5> QED
          BY <1>1, <2>1, <5>1, <5>2 DEF TermsInv
      <4>3. ASSUME \A e \in Editors : ~(EditPatch(e) /\ editor[e].order = p)
            PROVE  book'[p].terms = row'[p].terms
        <5>1. \A e \in Editors : ~Editing(e, p)
          BY <2>5, <4>1, <4>3, EditorChanges DEF EditorChange, Editing, EditWrite
        <5>2. book'[p].terms = book[p].terms
          BY <4>1, <4>3 DEF CopyChange
        <5> QED
          BY <1>1, <2>1, <3>b, <4>1, <5>1, <5>2 DEF TermsInv
      <4> QED
        BY <4>2, <4>3
    <3> QED
      BY <3>1, <3>2, <3>3, BookChanges
  <2> QED
    BY <2>3, <2>4, <2>5 DEF TermsInv
<1>5. "book" \in raced'[p] => TermsInv(p)'
  BY DEF TermsInv
<1> QED
  BY <1>2, <1>3, <1>4, <1>5, <1>u DEF Inserts

LEMMA EditStep ==
  ASSUME Inv, EarlyInv, EditInv, [Next]_vars
  PROVE  EditInv'
BY EditorsStep, TermsStep DEF EditInv

\* Whoever calls an order triggered is right, and stays right.
LEMMA TriggeredStays ==
  ASSUME Inv, TriggerInv, [Next]_vars, NEW p \in Orders, Triggered(p)
  PROVE  row'[p].status \notin {"none", "PENDING"}
<1>1. row[p].status \notin {"none", "PENDING"}
  BY DEF TriggerInv
<1>2. ~Inserts(p)
  BY <1>1, NewIsFresh
<1> QED
  BY <1>1, <1>2, RowChanges DEF RowChange, Inv, Terminal

LEMMA TriggerStep ==
  ASSUME Inv, EarlyInv, TriggerInv, [Next]_vars
  PROVE  TriggerInv'
<1> USE DEF Inv
<1> SUFFICES ASSUME NEW p \in Orders, Triggered(p)'
             PROVE  row'[p].status \notin {"none", "PENDING"}
  BY DEF TriggerInv
<1>1. CASE Triggered(p)
  BY <1>1, TriggeredStays
<1>2. CASE ~Triggered(p)
  <2>1. CASE book'[p].status = "PARTIAL"
    <3>1. ~PlaceUpsert(p)
      BY <2>1 DEF PlaceUpsert, TypeInv, TypeOK
    <3>2. CASE Hydrate
      <4>1. Watched(p)'
        BY <2>1 DEF Watched
      <4>2. book'[p] = Hydrated(p) /\ row' = row
        BY <3>2, <4>1, HydrateBook DEF EarlyInv
      <4> QED
        BY <2>1, <4>2 DEF Hydrated
    <3>3. ~BookChange(p)
      BY <1>2, <2>1 DEF BookChange, CopyChange, Triggered, Watched, PlaceStart, TickFirePatch
    <3> QED
      BY <3>1, <3>2, <3>3, BookChanges
  <2>2. CASE p \in DOMAIN tick'.rows /\ tick'.rows[p].status = "PARTIAL"
    <3>1. ~RowsKept
      BY <1>2, <2>2 DEF RowsKept, Triggered
    <3>2. ~TickBegin
      BY <1>2, <2>2 DEF TickBegin, Triggered
    <3> QED
      BY <3>1, <3>2, TickChanges DEF TickChange
  <2>3. CASE tick'.pc = "fired" /\ tick'.order = p
    <3>1. tick' # tick
      BY <1>2, <2>3 DEF Triggered
    <3>2. ~TickBegin
      BY <2>3 DEF TickBegin
    <3> QED
      BY <2>3, <3>1, <3>2, TickChanges DEF TickChange, Pauses
  <2>4. CASE place'[p].pc = "start"
    <3>1. ~PlaceInsert(p)
      BY <2>4 DEF PlaceInsert, TypeInv, TypeOK
    <3>2. place'[p] # place[p]
      BY <1>2, <2>4 DEF Triggered
    <3> QED
      BY <2>4, <3>1, <3>2, PlaceChanges DEF PlaceChange
  <2>5. ASSUME NEW t \in Tasks, task'[t].pc # "idle", task'[t].order = p PROVE FALSE
    <3>1. ~Triggered(task'[t].order)
      BY <1>2, <2>5
    <3>2. task'[t] # task[t] /\ ~(Busy(t) /\ task'[t].order = task[t].order)
      BY <1>2, <2>5 DEF Triggered, Busy
    <3> QED
      BY <2>5, <3>1, <3>2, TaskChanges DEF TaskChange
  <2> QED
    BY <2>1, <2>2, <2>3, <2>4, <2>5 DEF Triggered, Busy
<1> QED
  BY <1>1, <1>2

\* The terms of a triggered order change only by an edit that crossed its end.
LEMMA TriggeredTerms ==
  ASSUME Inv, TriggerInv, [Next]_vars, NEW p \in Orders,
         row[p].status \notin {"none", "PENDING"}, "closed" \notin raced'[p]
  PROVE  row'[p].terms = row[p].terms /\ "closed" \notin raced[p]
<1> USE DEF Inv
<1>1. ~Inserts(p)
  BY NewIsFresh
<1>2. ASSUME NEW e \in Editors, Writes(e, p), row' # row PROVE FALSE
  <2>1. raced'[p] = raced[p] \cup Crossings(e, p)
    BY <1>2 DEF Writes, EditWrite, EditUnheard, TypeInv, TypeOK
  <2> QED
    BY <2>1 DEF Crossings
<1> QED
  BY <1>1, <1>2, RowChanges, RacedChanges DEF RowChange, RacedChange

\* What one fill task carries.
Carries(t) ==
  LET o == task[t].order IN
  Busy(t) /\ "closed" \notin raced[o] =>
    /\ task[t].pc \in {"wait", "commit"} => task[t].terms = row[o].terms
    /\ task[t].pc = "record" => filledWith[o] = row[o].terms

LEMMA CarriesStep ==
  ASSUME Inv, EarlyInv, TriggerInv, FilledInv, [Next]_vars, NEW t \in Tasks
  PROVE  Carries(t)'
<1> USE DEF Inv
<1> DEFINE o == task[t].order
<1>1. Carries(t)
  BY DEF FilledInv, Carries
<1> SUFFICES ASSUME Busy(t)', "closed" \notin raced'[task'[t].order],
                    task'[t].pc \in {"wait", "commit", "record"}
             PROVE  /\ task'[t].pc \in {"wait", "commit"} => task'[t].terms = row'[task'[t].order].terms
                    /\ task'[t].pc = "record" => filledWith'[task'[t].order] = row'[task'[t].order].terms
  BY DEF Carries
<1>2. Busy(t) /\ task'[t].order = o
  BY TaskChanges DEF TaskChange, Busy
<1>3. o \in Orders
  BY <1>2 DEF TypeInv, TasksOK, Busy
<1>4. Triggered(o)
  BY <1>2 DEF Triggered
<1>5. row'[o].terms = row[o].terms /\ "closed" \notin raced[o]
  BY <1>2, <1>3, <1>4, TriggeredTerms DEF TriggerInv
<1>6. CASE task'[t] = task[t]
  <2>1. ASSUME task[t].pc = "record" PROVE filledWith'[o] = filledWith[o]
    <3>1. ASSUME NEW u \in Tasks, FillCommit(u) \/ FillCommitUnheard(u), task[u].order = o
          PROVE  FALSE
      <4>1. task[u].pc = "commit"
        BY <3>1 DEF FillCommit, FillCommitUnheard, At
      <4> QED
        BY <1>2, <2>1, <3>1, <4>1 DEF FillInv, OneTaskPerOrder, Busy
    <3> QED
      BY <1>3, <3>1, FilledChanges DEF FilledChange
  <2> QED
    BY <1>1, <1>2, <1>5, <1>6, <2>1 DEF Carries
<1>7. CASE FillCommit(t) /\ task'[t].pc = "record"
  <2>1. task[t].terms = row[o].terms
    BY <1>1, <1>2, <1>5, <1>7 DEF Carries, FillCommit, At
  <2>2. filledWith'[o] = task[t].terms
    BY <1>3, <1>7 DEF FillCommit, OpenPosition, TypeInv, TypeOK
  <2> QED
    BY <1>2, <1>5, <1>7, <2>1, <2>2
<1>8. CASE task'[t].pc = "wait" /\ task'[t].terms = row[o].terms
  BY <1>2, <1>5, <1>8
<1>9. CASE task'[t].pc = "commit" /\ task[t].pc = "wait" /\ task'[t].terms = task[t].terms
  BY <1>1, <1>2, <1>5, <1>9 DEF Carries
<1> QED
  BY <1>6, <1>7, <1>8, <1>9, TaskChanges DEF TaskChange, Busy

LEMMA FilledStep ==
  ASSUME Inv, EarlyInv, TriggerInv, FilledInv, [Next]_vars
  PROVE  FilledInv'
<1> USE DEF Inv
<1>1. \A t \in Tasks : Carries(t)'
  BY CarriesStep
<1>2. ASSUME NEW p \in Orders, row'[p].status = "FILLED" PROVE row'[p].linked
  <2>1. ~Inserts(p)
    BY <1>2, NewIsFresh
  <2> QED
    BY <1>2, <2>1, RowChanges DEF RowChange, FilledInv
<1>3. ASSUME NEW p \in Orders, row'[p].status = "FILLED", "closed" \notin raced'[p]
      PROVE  filledWith'[p] = row'[p].terms
  <2>1. ASSUME NEW t \in Tasks, FillRecord(t), task[t].order = p
        PROVE  filledWith'[p] = row'[p].terms
    <3>1. Carries(t) /\ Busy(t) /\ task[t].pc = "record"
      BY <2>1 DEF FilledInv, Carries, FillRecord, At, Busy
    <3>2. filledWith' = filledWith /\ raced' = raced
      BY <2>1 DEF FillRecord
    <3>3. row[p] \in RowRecords
      BY DEF TypeInv, TypeOK
    <3>4. row'[p] = row[p] \/ row'[p] = [row[p] EXCEPT !.status = "FILLED", !.linked = TRUE]
      BY <2>1 DEF FillRecord, TypeInv, TypeOK
    <3>5. row'[p].terms = row[p].terms
      BY <3>3, <3>4 DEF RowRecords
    <3> QED
      BY <1>3, <2>1, <3>1, <3>2, <3>5 DEF Carries
  <2>2. CASE row[p].status = "FILLED"
    <3>1. row'[p].terms = row[p].terms /\ "closed" \notin raced[p]
      BY <1>3, <2>2, TriggeredTerms
    <3>2. ASSUME NEW t \in Tasks, FillCommit(t) \/ FillCommitUnheard(t), task[t].order = p
          PROVE  FALSE
      BY <2>2, <3>2 DEF FillCommit, FillCommitUnheard, At, FilledInv, FillInv, FillsUnlinked
    <3>3. filledWith'[p] = filledWith[p]
      BY <3>2, FilledChanges DEF FilledChange
    <3> QED
      BY <2>2, <3>1, <3>3 DEF FilledInv, FilledAsOrdered
  <2>3. ~Inserts(p)
    BY <1>3, NewIsFresh
  <2> QED
    BY <1>3, <2>1, <2>2, <2>3, RowChanges DEF RowChange
<1> QED
  BY <1>1, <1>2, <1>3 DEF FilledInv, FilledAsOrdered, Carries

LEMMA DropStep ==
  ASSUME Inv, TriggerInv, DropInv, [Next]_vars
  PROVE  DropInv'
<1> USE DEF Inv
<1>1. \A p \in dropping' : row'[p].status \in Terminal
  <2>1. dropping \subseteq Orders
    BY DEF TypeInv, TypeOK
  <2> QED
    BY <2>1, DroppingChanges, RowStep DEF DropInv
<1>2. ASSUME faults'.db = 0, tick'.pc = "expired" PROVE row'[tick'.order].status \in Terminal
  <2>1. ~TickBegin
    BY <1>2 DEF TickBegin
  <2>2. CASE tick' = tick
    <3>1. tick.order \in Orders
      BY <1>2, <2>2 DEF TypeInv, TickOK
    <3>2. row[tick.order].status \in Terminal
      BY <1>2, <2>2, FaultsStay DEF DropInv
    <3> QED
      BY <2>2, <3>1, <3>2, RowStep
  <2>3. CASE TickExpire(tick'.order) /\ tick'.order \in DOMAIN tick.rows
    <3> DEFINE o == tick'.order
    <3>1. o \in Orders
      BY <2>3, ComesForAnOrder DEF TypeInv, TypeOK
    <3>2. ~DbFault
      BY <1>2 DEF DbFault, TypeInv, TypeOK, FaultRecords
    <3>3. SetStatus(o, "EXPIRED")
      BY <2>3, <3>2 DEF TickExpire
    <3>4. row'[o].status = "EXPIRED"
      BY <3>1, <3>3 DEF SetStatus, TypeInv, TypeOK, RowRecords
    <3> QED
      BY <3>4 DEF Terminal
  <2> QED
    BY <1>2, <2>1, <2>2, <2>3, TickChanges DEF TickChange, Pauses
<1>3. ASSUME faults'.db = 0, NEW t \in Tasks, task'[t].pc = "drop"
      PROVE  row'[task'[t].order].status \notin Working
  <2> DEFINE o == task[t].order
  <2>1. CASE task'[t] = task[t]
    <3>1. row[o].status \notin Working /\ Busy(t)
      BY <1>3, <2>1, FaultsStay DEF DropInv, Busy
    <3>2. o \in Orders /\ Triggered(o)
      BY <3>1 DEF TypeInv, TasksOK, Busy, Triggered
    <3>3. row[o].status \in Terminal
      <4>1. row[o] \in RowRecords
        BY <3>2 DEF TypeInv, TypeOK
      <4> QED
        BY <3>1, <3>2, <4>1 DEF TriggerInv, RowRecords
    <3> QED
      BY <2>1, <3>2, <3>3, RowStep DEF Working, Terminal
  <2> QED
    BY <1>3, <2>1, TaskChanges DEF TaskChange
<1> QED
  BY <1>1, <1>2, <1>3 DEF DropInv

\* The book after an order of it was patched as triggered.
LEMMA PatchedAsPartial ==
  ASSUME TypeInv, NEW p \in Orders, Watched(p), PatchBook(p, "status")
  PROVE  book'[p].status = "PARTIAL"
<1>1. book'[p] = [book[p] EXCEPT !.status = "PARTIAL"]
  BY DEF PatchBook, TypeInv, TypeOK
<1> QED
  BY <1>1 DEF TypeInv, TypeOK, BookRows

LEMMA ForgottenStep ==
  ASSUME Inv, EarlyInv, DropInv, NoOrderForgotten, [Next]_vars
  PROVE  NoOrderForgotten'
<1> USE DEF Inv
<1> SUFFICES ASSUME up', faults'.db = 0, NEW p \in Orders, row'[p].status \in Working
             PROVE  /\ place'[p].pc \notin {"kill", "rest", "restAndFire"}
                         => Watched(p)' \/ "order" \in unsaid'[p]
                    /\ row'[p].status = "PARTIAL" =>
                         \/ book'[p].status = "PARTIAL"
                         \/ tick'.pc = "fired" /\ tick'.order = p
                         \/ place'[p].pc = "start"
                         \/ "fired" \in unsaid'[p]
  BY DEF NoOrderForgotten, Working
<1>1. faults.db = 0
  BY FaultsStay
<1>2. CASE Hydrate
  <2>1. row' = row
    BY <1>2, HydrateBook DEF EarlyInv
  <2>2. Resumable(p)
    BY <2>1 DEF Resumable, FillInv, LinkedHasEnded, Working, Terminal
  <2>3. book'[p] = Hydrated(p)
    BY <1>2, <2>2, HydrateBook DEF EarlyInv
  <2>4. book'[p].status = row[p].status
    BY <2>3 DEF Hydrated
  <2> QED
    BY <2>1, <2>4 DEF Watched, Working
<1>3. CASE ~Hydrate
  <2>1. up
    BY <1>3, UpChanges DEF Crash
  <2>a. CASE PlaceInsert(p)
    BY <2>a DEF PlaceInsert, TypeInv, TypeOK
  <2>b. CASE Lost(p)
    <3>1. "order" \in unsaid'[p]
      BY <2>b DEF Lost, PlaceUnheard, Unheard, TypeInv, TypeOK
    <3>2. row'[p].status # "PARTIAL"
      BY <2>b, <3>1, EarlyOrder
    <3> QED
      BY <3>1, <3>2
  <2>3. CASE RowChange(p) /\ ~PlaceInsert(p) /\ ~Lost(p)
    <3>1. row[p].status \in Working
      BY <2>3 DEF RowChange, Working, Terminal
    <3>2. ~Leaves(p)
      BY <1>1, <3>1 DEF Leaves, DropInv, At, Working, Terminal
    <3>3. ~PlaceKill(p)
      <4>1. ASSUME PlaceKill(p) PROVE row'[p].status \in {"CANCELLED", "REJECTED"}
        BY <4>1 DEF PlaceKill, SetStatus, TypeInv, TypeOK, RowRecords
      <4> QED
        BY <4>1 DEF Working
    <3>4. place[p].pc \notin {"kill", "rest", "restAndFire"} => Watched(p) \/ "order" \in unsaid[p]
      BY <1>1, <2>1, <3>1 DEF NoOrderForgotten
    <3>a. "order" \in unsaid[p] => "order" \in unsaid'[p]
      BY UnsaidChanges DEF UnsaidChange, Told
    <3>5. Watched(p) => PlaceUpsert(p) \/ (Watched(p)' /\ CopyChange(p))
      BY <1>3, <3>2, BookChanges DEF BookChange
    <3>6. PlaceUpsert(p) => Watched(p)'
      BY DEF PlaceUpsert, Watched, TypeInv, TypeOK
    <3>7. ASSUME place'[p].pc \notin {"kill", "rest", "restAndFire"} PROVE Watched(p)' \/ "order" \in unsaid'[p]
      <4>1. \/ place[p].pc \notin {"kill", "rest", "restAndFire"}
            \/ PlaceUpsert(p)
        BY <2>3, <3>3, <3>7, PlaceChanges 
           DEF PlaceChange, PlaceFire, PlaceStart, PlaceUnheard, Lost
      <4> QED
        BY <3>4, <3>5, <3>6, <3>a, <4>1
    <3>8. ASSUME row'[p].status = "PARTIAL", row[p].status # "PARTIAL"
          PROVE  \/ tick'.pc = "fired" /\ tick'.order = p
                 \/ place'[p].pc = "start"
                 \/ "fired" \in unsaid'[p]
      <4>1. Fires(p)
        BY <2>3, <3>8 DEF RowChange, Terminal
      <4>2. row' # row
        BY <3>8
      <4>3. CASE PlaceFire(p)
        BY <4>2, <4>3 DEF PlaceFire, TypeInv, TypeOK, PlaceRecords
      <4>4. CASE TickFire(p)
        BY <4>2, <4>4 DEF TickFire, Pause
      <4>5. CASE PlaceUnheard(p) /\ place[p].pc = "fire"
        <5>1. Unheard(p, "fired")
          BY <4>5 DEF PlaceUnheard
        <5> QED
          BY <5>1 DEF Unheard, TypeInv, TypeOK
      <4>6. CASE TickUnheard(p)
        <5>1. ASSUME row' = [row EXCEPT ![p].armed = TRUE] PROVE row'[p].status = row[p].status
          BY <5>1 DEF TypeInv, TypeOK, RowRecords
        <5>2. Unheard(p, "fired")
          BY <3>8, <4>6, <5>1 DEF TickUnheard
        <5> QED
          BY <5>2 DEF Unheard, TypeInv, TypeOK
      <4> QED
        BY <4>1, <4>3, <4>4, <4>5, <4>6 DEF Fires
    <3>9. ASSUME row[p].status = "PARTIAL"
          PROVE  \/ book'[p].status = "PARTIAL"
                 \/ tick'.pc = "fired" /\ tick'.order = p
                 \/ place'[p].pc = "start"
                 \/ "fired" \in unsaid'[p]
      <4>1. place[p].pc \notin Early /\ "order" \notin unsaid[p]
        BY <3>9 DEF EarlyInv, NotYet
      <4>2. Watched(p) /\ ~PlaceUpsert(p) /\ CopyChange(p)
        BY <3>4, <3>5, <4>1 DEF Early, PlaceUpsert
      <4>3. CASE book[p].status = "PARTIAL"
        BY <4>2, <4>3 DEF CopyChange
      <4>4. CASE tick.pc = "fired" /\ tick.order = p
        <5>1. CASE TickFirePatch
          <6>1. PatchBook(p, "status")
            BY <4>4, <5>1 DEF TickFirePatch
          <6> QED
            BY <4>2, <6>1, PatchedAsPartial
        <5>2. CASE ~TickFirePatch
          BY <4>4, <5>2, TickChanges DEF TickChange, TickBegin
        <5> QED
          BY <5>1, <5>2
      <4>5. CASE place[p].pc = "start"
        <5>1. CASE PlaceStart(p)
          BY <4>2, <5>1, PatchedAsPartial DEF PlaceStart
        <5>2. CASE ~PlaceStart(p)
          BY <2>3, <4>2, <4>5, <5>2, PlaceChanges 
             DEF PlaceChange, PlaceKill, PlaceFire, PlaceUnheard
        <5> QED
          BY <5>1, <5>2
      <4>6. CASE "fired" \in unsaid[p]
        <5>1. CASE Told(p, "fired")
          <6>1. PatchBook(p, "status")
            BY <5>1 DEF Told, PlaceStart, TickFirePatch
          <6> QED
            BY <4>2, <6>1, PatchedAsPartial
        <5>2. CASE ~Told(p, "fired")
          BY <4>6, <5>2, UnsaidChanges DEF UnsaidChange
        <5> QED
          BY <5>1, <5>2
      <4> QED
        BY <1>1, <2>1, <3>9, <4>3, <4>4, <4>5, <4>6 DEF NoOrderForgotten
    <3> QED
      BY <3>7, <3>8, <3>9
  <2> QED
    BY <2>a, <2>b, <2>3, RowChanges DEF Inserts, Lost
<1> QED
  BY <1>2, <1>3

-----------------------------------------------------------------------------
(* The theorems.                                                            *)

BookInv ==
  EarlyInv /\ ArmInv /\ EditInv /\ TriggerInv /\ FilledInv /\ DropInv /\ NoOrderForgotten

LEMMA BookInvariance == Spec => []BookInv
<1>1. Init => BookInv
  BY InitBook DEF BookInv
<1>2. Inv /\ BookInv /\ [Next]_vars => BookInv'
  BY EarlyStep, ArmStep, EditStep, TriggerStep, FilledStep, DropStep, ForgottenStep DEF BookInv
<1> QED
  BY <1>1, <1>2, Invariance, PTL DEF Spec

\* While no failure of a statement was ignored, every working order is in the
\* book of the running engine, a triggered one as triggered: a later tick comes
\* back to it, across restarts too.  Only an order whose handler ended between
\* row and book is not there, and only one whose UPDATE to PARTIAL was not
\* heard is there as pending.
THEOREM NothingIsForgotten == Spec => []NoOrderForgotten
BY BookInvariance, PTL DEF BookInv

\* The book and the table agree on which stop-limits are armed, whatever ticks
\* work on old copies and wherever the process stops, unless the answer to an
\* arming UPDATE was lost.
THEOREM ArmingIsKept == Spec => []ArmingAgrees
<1>1. BookInv => ArmingAgrees
  BY DEF BookInv, ArmInv
<1> QED
  BY <1>1, BookInvariance, PTL

\* An order triggers on the terms of its row, unless an edit of it crossed
\* another handler on its way to the book or the last one was not heard.
THEOREM BookTermsAreTheRows == Spec => []BookHasTheTerms
<1>1. BookInv => BookHasTheTerms
  BY DEF BookInv, EditInv, TermsInv, Editing, BookHasTheTerms
<1> QED
  BY <1>1, BookInvariance, PTL

\* An order fills on the terms its row shows, unless an edit of it was written
\* after it had triggered.
THEOREM FillsOnItsTerms == Spec => []FilledAsOrdered
<1>1. BookInv => FilledAsOrdered
  BY DEF BookInv, FilledInv
<1> QED
  BY <1>1, BookInvariance, PTL

=============================================================================
