------------------------ MODULE PendingOrdersProofs -------------------------
(***************************************************************************)
(* Theorems about PendingOrders, for any sets of orders, terms, tasks and  *)
(* editors and any bounds.                                                 *)
(***************************************************************************)
EXTENDS PendingOrders, TLAPS

-----------------------------------------------------------------------------
(* The pass of the tick loop keeps its shape.                               *)

LEMMA RowsButType ==
  ASSUME tick \in Passes, NEW o
  PROVE  RowsBut(o) \in RowCopies
<1> DEFINE Copies == [status : Working, armed : BOOLEAN, late : BOOLEAN]
<1>1. PICK S \in SUBSET Orders : tick.rows \in [S -> Copies]
  BY DEF Passes, RowCopies
<1>2. RowsBut(o) \in [S \ {o} -> Copies]
  BY <1>1 DEF RowsBut
<1>3. S \ {o} \in SUBSET Orders
  OBVIOUS
<1> QED
  BY <1>2, <1>3 DEF RowCopies

LEMMA IdleTickType == IdleTick \in Passes
<1> DEFINE Copies == [status : Working, armed : BOOLEAN, late : BOOLEAN]
<1>1. [o \in {} |-> NoRow] \in [{} -> Copies]
  OBVIOUS
<1>2. [o \in {} |-> NoRow] \in RowCopies
  BY <1>1 DEF RowCopies
<1> QED
  BY <1>2 DEF IdleTick, Passes, OrdersOrNone

LEMMA WalkType ==
  ASSUME NEW rows \in RowCopies
  PROVE  Walk(rows) \in Passes /\ Walk(rows).pc \in {"idle", "walk"}
BY IdleTickType DEF Walk, Passes, OrdersOrNone, IdleTick

LEMMA PauseType ==
  ASSUME tick \in Passes, NEW pc \in {"expired", "armed", "fired"}, NEW o \in Orders
  PROVE  /\ Pause(pc, o) \in Passes
         /\ Pause(pc, o).order = o
BY RowsButType DEF Pause, Passes, OrdersOrNone

\* A copied row belongs to an order.
LEMMA ComesForAnOrder ==
  ASSUME tick \in Passes, NEW o \in DOMAIN tick.rows
  PROVE  o \in Orders
BY DEF Passes, RowCopies

-----------------------------------------------------------------------------
(* The shared pieces of the handlers keep the types.                        *)

LEMMA SetStatusType ==
  ASSUME TypeOK, NEW o \in Orders, NEW s \in Working \cup Terminal, SetStatus(o, s)
  PROVE  row' \in [Orders -> RowRecords]
<1>1. [row[o] EXCEPT !.status = s] \in RowRecords
  BY DEF TypeOK, RowRecords
<1>2. row' = [row EXCEPT ![o] = [row[o] EXCEPT !.status = s]]
  BY DEF SetStatus
<1> QED
  BY <1>1, <1>2 DEF TypeOK

LEMMA FaultType ==
  ASSUME TypeOK, DbFault \/ Transient
  PROVE  faults' \in FaultRecords
BY BoundsAssumption DEF TypeOK, FaultRecords, DbFault, Transient

UntoldKinds == {"order", "armed", "fired", "terms"}

LEMMA UnsaidType ==
  ASSUME TypeOK, NEW o, NEW what \in UntoldKinds, Unheard(o, what) \/ Tells(o, what)
  PROVE  unsaid' \in [Orders -> SUBSET UntoldKinds]
<1>1. unsaid \in [Orders -> SUBSET UntoldKinds]
  BY DEF TypeOK, UntoldKinds
<1>2. CASE Unheard(o, what)
  BY <1>1, <1>2 DEF Unheard
<1>3. CASE Tells(o, what)
  BY <1>1, <1>3 DEF Tells
<1> QED
  BY <1>2, <1>3

LEMMA UnheardFault ==
  ASSUME TypeOK, NEW o, NEW what, Unheard(o, what)
  PROVE  faults' \in FaultRecords
BY FaultType DEF Unheard

LEMMA NoRowType == NoRow \in BookRows
BY DEF NoRow, BookRows, TermsOrNone

LEMMA RemoveFromBookType ==
  ASSUME TypeOK, NEW o, RemoveFromBook(o)
  PROVE  book' \in [Orders -> BookRows]
BY NoRowType DEF TypeOK, RemoveFromBook

LEMMA PatchBookType ==
  ASSUME TypeOK, NEW o \in Orders, NEW field, PatchBook(o, field)
  PROVE  book' \in [Orders -> BookRows]
<1>1. [book[o] EXCEPT !.armed = TRUE] \in BookRows
  BY DEF TypeOK, BookRows
<1>2. [book[o] EXCEPT !.status = "PARTIAL"] \in BookRows
  BY DEF TypeOK, BookRows, Working
<1>3. \/ book' = book
      \/ book' = [book EXCEPT ![o] = [book[o] EXCEPT !.armed = TRUE]]
      \/ book' = [book EXCEPT ![o] = [book[o] EXCEPT !.status = "PARTIAL"]]
  BY DEF PatchBook
<1> QED
  BY <1>1, <1>2, <1>3 DEF TypeOK

LEMMA PlacedType == Placed \in PlaceRecords
BY DEF Placed, PlaceRecords, TermsOrNone

LEMMA IdleTaskType == IdleTask \in TaskRecords /\ IdleTask.pc = "idle"
BY DEF IdleTask, TaskRecords, TaskPcs, TermsOrNone, OrdersOrNone

LEMMA IdleEditorType == IdleEditor \in EditorRecords /\ IdleEditor.pc = "idle"
BY DEF IdleEditor, EditorRecords, TermsOrNone, OrdersOrNone

\* What the fill tasks are, as a whole.
TasksOK ==
  /\ task \in [Tasks -> TaskRecords]
  /\ \A t \in Tasks : task[t].pc # "idle" => task[t].order \in Orders

LEMMA TaskUpdate ==
  ASSUME TasksOK, NEW t \in Tasks, NEW r \in TaskRecords, r.pc # "idle" => r.order \in Orders,
         task' = [task EXCEPT ![t] = r]
  PROVE  TasksOK'
BY DEF TasksOK

LEMMA GotoType ==
  ASSUME TasksOK, NEW t \in Tasks, task[t].pc # "idle", NEW pc \in TaskPcs,
         Goto(t, pc) \/ Forget(t, pc)
  PROVE  TasksOK'
<1> DEFINE r == [task[t] EXCEPT !.pc = pc]
           f == [task[t] EXCEPT !.pc = pc, !.terms = "none"]
<1>1. r \in TaskRecords /\ r.order \in Orders
  BY DEF TasksOK, TaskRecords
<1>2. f \in TaskRecords /\ f.order \in Orders
  BY DEF TasksOK, TaskRecords, TermsOrNone
<1>3. task' = [task EXCEPT ![t] = r] \/ task' = [task EXCEPT ![t] = f]
  BY DEF Goto, Forget
<1> QED
  BY <1>1, <1>2, <1>3, TaskUpdate

LEMMA StartPendingFillType ==
  ASSUME TypeOK, TasksOK, NEW o \in Orders, StartPendingFill(o)
  PROVE  inflight' \in SUBSET Orders /\ TasksOK'
<1> DEFINE r == [pc |-> "read", order |-> o, terms |-> "none"]
<1>1. r \in TaskRecords
  BY DEF TaskRecords, TaskPcs, OrdersOrNone, TermsOrNone
<1>2. CASE o \in inflight
  BY <1>2 DEF StartPendingFill, TypeOK, TasksOK
<1>3. CASE o \notin inflight
  <2>1. PICK t \in Tasks : /\ inflight' = inflight \cup {o}
                           /\ task' = [task EXCEPT ![t] = r]
    BY <1>3 DEF StartPendingFill
  <2> QED
    BY <1>1, <2>1, TaskUpdate DEF TypeOK
<1> QED
  BY <1>2, <1>3

LEMMA NewRowType ==
  ASSUME NEW st \in {"none"} \cup Working \cup Terminal, NEW v \in TermsOrNone
  PROVE  [status |-> st, armed |-> FALSE, terms |-> v, linked |-> FALSE] \in RowRecords
BY DEF RowRecords

LEMMA NewPlaceType ==
  ASSUME NEW pc \in {"new", "kill", "rest", "restAndFire", "fire", "start"},
         NEW v \in TermsOrNone
  PROVE  [pc |-> pc, terms |-> v] \in PlaceRecords
BY DEF PlaceRecords

\* An edit of a row's terms and the FILLED update leave a row.
LEMMA RowWith ==
  ASSUME NEW r \in RowRecords, NEW v \in TermsOrNone
  PROVE  [r EXCEPT !.terms = v] \in RowRecords
BY DEF RowRecords

LEMMA RowArmed ==
  ASSUME NEW r \in RowRecords
  PROVE  [r EXCEPT !.armed = TRUE] \in RowRecords
BY DEF RowRecords

LEMMA BookWith ==
  ASSUME NEW r \in BookRows, NEW v \in TermsOrNone
  PROVE  [r EXCEPT !.terms = v] \in BookRows
BY DEF BookRows

LEMMA RowFilled ==
  ASSUME NEW r \in RowRecords
  PROVE  [r EXCEPT !.status = "FILLED", !.linked = TRUE] \in RowRecords
BY DEF RowRecords, Terminal

-----------------------------------------------------------------------------
(* Type correctness.                                                        *)

\* A pass that is in the middle of a statement is so for an order.
TickOK ==
  /\ tick \in Passes
  /\ tick.pc \in {"expired", "armed", "fired"} => tick.order \in Orders

EditorsOK ==
  /\ editor \in [Editors -> EditorRecords]
  /\ \A e \in Editors : editor[e].pc # "idle" => editor[e].order \in Orders

TypeInv == TypeOK /\ TasksOK /\ TickOK /\ EditorsOK

LEMMA EditorUpdate ==
  ASSUME EditorsOK, NEW e \in Editors, NEW r \in EditorRecords,
         r.pc # "idle" => r.order \in Orders, editor' = [editor EXCEPT ![e] = r]
  PROVE  EditorsOK'
BY DEF EditorsOK

LEMMA InitType == Init => TypeInv
<1> SUFFICES ASSUME Init PROVE TypeInv
  OBVIOUS
<1>1. TasksOK
  BY IdleTaskType DEF Init, TasksOK
<1>2. EditorsOK
  BY IdleEditorType DEF Init, EditorsOK
<1>3. TickOK
  BY IdleTickType DEF Init, TickOK, IdleTick
<1>4. row \in [Orders -> RowRecords] /\ filledWith \in [Orders -> TermsOrNone]
  BY NewRowType DEF Init, TermsOrNone
<1>5. place \in [Orders -> PlaceRecords]
  BY NewPlaceType DEF Init, TermsOrNone
<1>6. faults \in FaultRecords
  BY BoundsAssumption DEF Init, FaultRecords
<1> QED
  BY <1>1, <1>2, <1>3, <1>4, <1>5, <1>6, NoRowType
  DEF Init, TypeInv, TypeOK, TasksOK, EditorsOK, TickOK

LEMMA StepType == TypeInv /\ [Next]_vars => TypeInv'
<1> SUFFICES ASSUME TypeInv, [Next]_vars PROVE TypeInv'
  OBVIOUS
<1> USE DEF TypeInv, TypeOK
<1>1. ASSUME NEW o \in Orders, PlaceInsert(o) PROVE TypeInv'
  <2>1. row' \in [Orders -> RowRecords]
    BY <1>1, NewRowType DEF PlaceInsert, TermsOrNone, Working
  <2>2. place' \in [Orders -> PlaceRecords]
    BY <1>1, NewPlaceType DEF PlaceInsert, TermsOrNone
  <2> QED
    BY <1>1, <2>1, <2>2
    DEF PlaceInsert, TasksOK, TickOK, EditorsOK
<1>2. ASSUME NEW o \in Orders, PlaceKill(o) PROVE TypeInv'
  <2>1. row' \in [Orders -> RowRecords]
    BY <1>2, SetStatusType DEF PlaceKill, Terminal
  <2> QED
    BY <1>2, <2>1, FaultType, PlacedType
    DEF PlaceKill, TasksOK, TickOK, EditorsOK
<1>3. ASSUME NEW o \in Orders, PlaceUpsert(o) PROVE TypeInv'
  <2>1. place[o].terms \in TermsOrNone
    BY DEF PlaceRecords
  <2>2. [status |-> "PENDING", armed |-> FALSE, terms |-> place[o].terms] \in BookRows
    BY <2>1 DEF BookRows, Working
  <2>3. [pc |-> "fire", terms |-> "none"] \in PlaceRecords
    BY NewPlaceType DEF TermsOrNone
  <2> QED
    BY <1>3, <2>1, <2>2, <2>3, PlacedType
    DEF PlaceUpsert, TasksOK, TickOK, EditorsOK
<1>4. ASSUME NEW o \in Orders, PlaceFire(o) PROVE TypeInv'
  <2>1. row' \in [Orders -> RowRecords]
    BY <1>4, SetStatusType DEF PlaceFire, Working
  <2>2. [place[o] EXCEPT !.pc = "start"] \in PlaceRecords
    BY DEF PlaceRecords
  <2>3. place' \in [Orders -> PlaceRecords]
    BY <1>4, <2>2, PlacedType DEF PlaceFire
  <2> QED
    BY <1>4, <2>1, <2>2, <2>3, FaultType
    DEF PlaceFire, TasksOK, TickOK, EditorsOK
<1>5. ASSUME NEW o \in Orders, PlaceStart(o) PROVE TypeInv'
  <2>1. unsaid' \in [Orders -> SUBSET UntoldKinds]
    BY <1>5, UnsaidType DEF PlaceStart, UntoldKinds
  <2> QED
    BY <1>5, <2>1, PatchBookType, StartPendingFillType, PlacedType
    DEF PlaceStart, TasksOK, TickOK, EditorsOK, UntoldKinds
<1>6. ASSUME NEW o \in Orders, CancelWrite(o) PROVE TypeInv'
  BY <1>6, SetStatusType
  DEF CancelWrite, Terminal, TasksOK, TickOK, EditorsOK
<1>7. ASSUME NEW o \in Orders, CancelDrop(o) PROVE TypeInv'
  BY <1>7, RemoveFromBookType
  DEF CancelDrop, TasksOK, TickOK, EditorsOK
<1>8. ASSUME NEW o \in Orders, FallDue(o) PROVE TypeInv'
  BY <1>8
  DEF FallDue, TasksOK, TickOK, EditorsOK
<1>9. ASSUME NEW e \in Editors, NEW o \in Orders, EditRead(e, o) PROVE TypeInv'
  <2>1. PICK v \in Terms : editor' = [editor EXCEPT ![e] = [pc |-> "write", order |-> o, terms |-> v]]
    BY <1>9 DEF EditRead
  <2>2. [pc |-> "write", order |-> o, terms |-> v] \in EditorRecords
    BY DEF EditorRecords, OrdersOrNone, TermsOrNone
  <2>3. EditorsOK'
    BY <2>1, <2>2, EditorUpdate
  <2> QED
    BY <1>9, <2>1, <2>2, <2>3
    DEF EditRead, TasksOK, TickOK, EditorsOK
<1>10. ASSUME NEW e \in Editors, EditWrite(e) PROVE TypeInv'
  <2>1. editor[e].order \in Orders /\ editor[e].terms \in TermsOrNone
    BY <1>10 DEF EditWrite, EditorsOK, EditorRecords
  <2>2. [editor[e] EXCEPT !.pc = "patch"] \in EditorRecords
    BY DEF EditorRecords
  <2>3. [editor[e] EXCEPT !.pc = "patch"].order \in Orders
    BY <2>1 DEF EditorRecords
  <2>4. editor' = [editor EXCEPT ![e] = [editor[e] EXCEPT !.pc = "patch"]]
    BY <1>10 DEF EditWrite
  <2>5. EditorsOK'
    BY <2>2, <2>3, <2>4, EditorUpdate
  <2>6. [row[editor[e].order] EXCEPT !.terms = editor[e].terms] \in RowRecords
    <3>1. row[editor[e].order] \in RowRecords
      BY <2>1
    <3> QED
      BY <2>1, <3>1, RowWith
  <2>7. row' = [row EXCEPT ![editor[e].order] = [row[editor[e].order] EXCEPT !.terms = editor[e].terms]]
    BY <1>10 DEF EditWrite
  <2>8. row' \in [Orders -> RowRecords]
    BY <2>1, <2>6, <2>7
  <2>9. raced' \in [Orders -> SUBSET {"closed", "book"}]
    BY <1>10, <2>1 DEF EditWrite, Crossings
  <2>10. unsaid' \in [Orders -> SUBSET UntoldKinds]
    BY <1>10, UnsaidType DEF EditWrite, UntoldKinds
  <2> QED
    BY <1>10, <2>1, <2>2, <2>3, <2>4, <2>5, <2>6, <2>7, <2>8, <2>9, <2>10
    DEF EditWrite, TasksOK, TickOK, EditorsOK, UntoldKinds
<1>11. ASSUME NEW e \in Editors, EditPatch(e) PROVE TypeInv'
  <2>1. editor[e].order \in Orders /\ editor[e].terms \in TermsOrNone
    BY <1>11 DEF EditPatch, EditorsOK, EditorRecords
  <2>2. EditorsOK'
    BY <1>11, IdleEditorType, EditorUpdate DEF EditPatch
  <2>3. [book[editor[e].order] EXCEPT !.terms = editor[e].terms] \in BookRows
    <3>1. book[editor[e].order] \in BookRows
      BY <2>1
    <3> QED
      BY <2>1, <3>1, BookWith
  <2>4. \/ book' = book
        \/ book' = [book EXCEPT ![editor[e].order] = [book[editor[e].order] EXCEPT !.terms = editor[e].terms]]
    BY <1>11 DEF EditPatch
  <2>5. book' \in [Orders -> BookRows]
    BY <2>1, <2>3, <2>4
  <2> QED
    BY <1>11, <2>1, <2>2, <2>3, <2>4, <2>5
    DEF EditPatch, TasksOK, TickOK, EditorsOK
<1>12. CASE TickBegin
  <2> DEFINE working == {o \in Orders : Watched(o)}
             Copies  == [status : Working, armed : BOOLEAN, late : BOOLEAN]
  <2>1. tick'.rows \in [working -> Copies]
    BY <1>12 DEF TickBegin, Watched, BookRows
  <2>2. tick'.rows \in RowCopies
    BY <2>1 DEF RowCopies
  <2>3. tick' \in Passes /\ tick'.pc = "walk"
    BY <1>12, <2>2 DEF TickBegin, Passes, OrdersOrNone
  <2> QED
    BY <1>12, <2>3 DEF TickBegin, TasksOK, TickOK, EditorsOK
<1>13. ASSUME NEW o \in Orders, TickExpire(o) PROVE TypeInv'
  <2>1. row' \in [Orders -> RowRecords]
    BY <1>13, SetStatusType DEF TickExpire, Terminal
  <2> QED
    BY <1>13, <2>1, PauseType, FaultType
    DEF TickExpire, TasksOK, TickOK, EditorsOK
<1>14. CASE TickExpireDrop
  <2>1. tick.rows \in RowCopies
    BY DEF Passes
  <2> QED
    BY <1>14, <2>1, RemoveFromBookType, WalkType
    DEF TickExpireDrop, TasksOK, TickOK, EditorsOK
<1>15. ASSUME NEW o \in Orders, TickRestartFill(o) PROVE TypeInv'
  BY <1>15, RowsButType, WalkType, StartPendingFillType
  DEF TickRestartFill, TasksOK, TickOK, EditorsOK
<1>16. ASSUME NEW o \in Orders, TickPass(o) PROVE TypeInv'
  BY <1>16, RowsButType, WalkType
  DEF TickPass, TasksOK, TickOK, EditorsOK
<1>17. ASSUME NEW o \in Orders, TickArm(o) PROVE TypeInv'
  <2>0. row[o] \in RowRecords
    OBVIOUS
  <2>1. [row[o] EXCEPT !.armed = TRUE] \in RowRecords
    BY <2>0, RowArmed
  <2>2. row' = row \/ row' = [row EXCEPT ![o] = [row[o] EXCEPT !.armed = TRUE]]
    BY <1>17 DEF TickArm
  <2>3. row' \in [Orders -> RowRecords]
    BY <2>1, <2>2
  <2>4. TickOK'
    BY <1>17, RowsButType, WalkType, PauseType DEF TickArm, TickOK
  <2> QED
    BY <1>17, <2>1, <2>2, <2>3, <2>4
    DEF TickArm, TasksOK, TickOK, EditorsOK
<1>18. CASE TickArmPatch
  <2>1. tick.rows \in RowCopies /\ tick.order \in Orders
    BY <1>18 DEF Passes, TickArmPatch, TickOK
  <2> QED
    BY <1>18, <2>1, PatchBookType, WalkType
    DEF TickArmPatch, TasksOK, TickOK, EditorsOK
<1>19. ASSUME NEW o \in Orders, TickFire(o) PROVE TypeInv'
  <2>1. row' \in [Orders -> RowRecords]
    BY <1>19, SetStatusType DEF TickFire, Working
  <2>2. TickOK'
    BY <1>19, RowsButType, WalkType, PauseType DEF TickFire, TickOK
  <2> QED
    BY <1>19, <2>1, <2>2
    DEF TickFire, TasksOK, TickOK, EditorsOK
<1>20. CASE TickFirePatch
  <2>1. tick.rows \in RowCopies /\ tick.order \in Orders
    BY <1>20 DEF Passes, TickFirePatch, TickOK
  <2>2. inflight' \in SUBSET Orders /\ TasksOK'
    BY <1>20, <2>1, StartPendingFillType DEF TickFirePatch
  <2>3. unsaid' \in [Orders -> SUBSET UntoldKinds]
    BY <1>20, UnsaidType DEF TickFirePatch, UntoldKinds
  <2> QED
    BY <1>20, <2>1, <2>2, <2>3, PatchBookType, WalkType
    DEF TickFirePatch, TasksOK, TickOK, EditorsOK, UntoldKinds
<1>21. CASE TickAbort
  BY <1>21, IdleTickType, FaultType
  DEF TickAbort, IdleTick, TasksOK, TickOK, EditorsOK
<1>22. ASSUME NEW t \in Tasks, FillRead(t) PROVE TypeInv'
  <2>1. task[t].order \in Orders
    BY <1>22 DEF FillRead, At, TasksOK
  <2>2. row[task[t].order].terms \in TermsOrNone
    BY <2>1 DEF RowRecords
  <2>3. /\ [task[t] EXCEPT !.pc = "wait", !.terms = row[task[t].order].terms] \in TaskRecords
        /\ [task[t] EXCEPT !.pc = "drop"] \in TaskRecords
    BY <2>2 DEF TaskRecords, TaskPcs
  <2>4. \/ task' = [task EXCEPT ![t] = [task[t] EXCEPT !.pc = "wait", !.terms = row[task[t].order].terms]]
        \/ task' = [task EXCEPT ![t] = [task[t] EXCEPT !.pc = "drop"]]
    BY <1>22 DEF FillRead
  <2>5. /\ [task[t] EXCEPT !.pc = "wait", !.terms = row[task[t].order].terms].order \in Orders
        /\ [task[t] EXCEPT !.pc = "drop"].order \in Orders
    BY <2>1 DEF TaskRecords
  <2>6. TasksOK'
    BY <2>3, <2>4, <2>5, TaskUpdate
  <2> QED
    BY <1>22, <2>1, <2>2, <2>3, <2>4, <2>5, <2>6
    DEF FillRead, TasksOK, TickOK, EditorsOK
<1>23. ASSUME NEW t \in Tasks, FillRecheck(t) PROVE TypeInv'
  <2>1. task[t].order \in Orders /\ task[t].pc # "idle"
    BY <1>23 DEF FillRecheck, At, TasksOK
  <2>2. TasksOK'
    BY <1>23, <2>1, GotoType DEF FillRecheck, TaskPcs
  <2> QED
    BY <1>23, <2>1, <2>2
    DEF FillRecheck, TasksOK, TickOK, EditorsOK
<1>24. ASSUME NEW t \in Tasks, FillCommit(t) PROVE TypeInv'
  <2>1. task[t].order \in Orders /\ task[t].pc # "idle"
    BY <1>24 DEF FillCommit, At, TasksOK
  <2>2. TasksOK'
    BY <1>24, <2>1, GotoType DEF FillCommit, TaskPcs
  <2>3. task[t].terms \in TermsOrNone
    BY DEF TaskRecords
  <2> QED
    BY <1>24, <2>1, <2>2, <2>3
    DEF FillCommit, OpenPosition, TasksOK, TickOK, EditorsOK
<1>25. ASSUME NEW t \in Tasks, FillCommitUnheard(t) PROVE TypeInv'
  <2>1. task[t].order \in Orders /\ task[t].pc # "idle"
    BY <1>25 DEF FillCommitUnheard, At, TasksOK
  <2>2. TasksOK'
    BY <1>25, <2>1, GotoType DEF FillCommitUnheard, TaskPcs
  <2>3. task[t].terms \in TermsOrNone
    BY DEF TaskRecords
  <2> QED
    BY <1>25, <2>1, <2>2, <2>3, FaultType
    DEF FillCommitUnheard, OpenPosition, TasksOK, TickOK, EditorsOK
<1>26. ASSUME NEW t \in Tasks, FillRefuse(t) PROVE TypeInv'
  <2>1. task[t].order \in Orders /\ task[t].pc # "idle"
    BY <1>26 DEF FillRefuse, At, TasksOK
  <2>2. TasksOK'
    BY <1>26, <2>1, GotoType DEF FillRefuse, TaskPcs
  <2> QED
    BY <1>26, <2>1, <2>2
    DEF FillRefuse, TasksOK, TickOK, EditorsOK
<1>27. ASSUME NEW t \in Tasks, FillError(t) PROVE TypeInv'
  <2>1. task[t].order \in Orders /\ task[t].pc # "idle"
    BY <1>27 DEF FillError, At, TasksOK
  <2>2. TasksOK'
    BY <1>27, <2>1, GotoType DEF FillError, TaskPcs
  <2> QED
    BY <1>27, <2>1, <2>2, FaultType
    DEF FillError, TasksOK, TickOK, EditorsOK
<1>28. ASSUME NEW t \in Tasks, FillRecord(t) PROVE TypeInv'
  <2>1. task[t].order \in Orders /\ task[t].pc # "idle"
    BY <1>28 DEF FillRecord, At, TasksOK
  <2>2. TasksOK'
    BY <1>28, <2>1, GotoType DEF FillRecord, TaskPcs
  <2>3. [row[task[t].order] EXCEPT !.status = "FILLED", !.linked = TRUE] \in RowRecords
    <3>1. row[task[t].order] \in RowRecords
      BY <2>1
    <3> QED
      BY <3>1, RowFilled
  <2>4. row' = row \/ row' = [row EXCEPT ![task[t].order] = [row[task[t].order] EXCEPT !.status = "FILLED", !.linked = TRUE]]
    BY <1>28, <2>1 DEF FillRecord
  <2>5. row' \in [Orders -> RowRecords]
    BY <2>1, <2>3, <2>4
  <2> QED
    BY <1>28, <2>1, <2>2, <2>3, <2>4, <2>5, FaultType
    DEF FillRecord, TasksOK, TickOK, EditorsOK
<1>29. ASSUME NEW t \in Tasks, FillReject(t) PROVE TypeInv'
  <2>1. task[t].order \in Orders /\ task[t].pc # "idle"
    BY <1>29 DEF FillReject, At, TasksOK
  <2>2. TasksOK'
    BY <1>29, <2>1, GotoType DEF FillReject, TaskPcs
  <2>3. row' \in [Orders -> RowRecords]
    BY <1>29, <2>1, SetStatusType DEF FillReject, Terminal
  <2> QED
    BY <1>29, <2>1, <2>2, <2>3, FaultType
    DEF FillReject, TasksOK, TickOK, EditorsOK
<1>30. ASSUME NEW t \in Tasks, FillDrop(t) PROVE TypeInv'
  <2>1. task[t].order \in Orders /\ task[t].pc # "idle"
    BY <1>30 DEF FillDrop, At, TasksOK
  <2>2. TasksOK'
    BY <1>30, <2>1, GotoType DEF FillDrop, TaskPcs
  <2> QED
    BY <1>30, <2>1, <2>2, RemoveFromBookType
    DEF FillDrop, TasksOK, TickOK, EditorsOK
<1>31. ASSUME NEW t \in Tasks, FillDone(t) PROVE TypeInv'
  <2>1. TasksOK'
    BY <1>31, IdleTaskType, TaskUpdate DEF FillDone
  <2> QED
    BY <1>31, <2>1
    DEF FillDone, TasksOK, TickOK, EditorsOK
<1>32. CASE Crash
  <2>1. TasksOK' /\ EditorsOK' /\ TickOK'
    BY <1>32, IdleTaskType, IdleEditorType, IdleTickType DEF Crash, TasksOK, EditorsOK, TickOK, IdleTick
  <2>2. place' \in [Orders -> PlaceRecords] /\ book' \in [Orders -> BookRows]
    BY <1>32, PlacedType, NoRowType DEF Crash
  <2>3. faults' \in FaultRecords
    BY <1>32, BoundsAssumption DEF Crash, FaultRecords
  <2>4. orphans' \in [Orders -> Nat]
    BY <1>32 DEF Crash
  <2>5. /\ UNCHANGED <<row, opened, filledWith, due, raced>>
        /\ up' \in BOOLEAN /\ inflight' = {} /\ dropping' = {}
        /\ unsaid' = [o \in Orders |-> {}]
    BY <1>32 DEF Crash, database
  <2>6. TypeOK'
    BY <2>1, <2>2, <2>3, <2>4, <2>5 DEF TasksOK, EditorsOK, TickOK
  <2> QED
    BY <2>1, <2>6
<1>33. CASE Hydrate
  <2>1. \A o \in Orders : Resumable(o) => Hydrated(o) \in BookRows
    BY DEF Resumable, Hydrated, RowRecords, BookRows, Working
  <2>2. book' \in [Orders -> BookRows]
    BY <1>33, <2>1, NoRowType DEF Hydrate
  <2> QED
    BY <1>33, <2>1, <2>2, FaultType
    DEF Hydrate, database, TasksOK, TickOK, EditorsOK
<1>34. CASE UNCHANGED vars
  BY <1>34
  DEF vars, TasksOK, TickOK, EditorsOK
<1>35. ASSUME NEW o \in Orders, PlaceUnheard(o) PROVE TypeInv'
  <2>1. row' \in [Orders -> RowRecords]
    <3>1. CASE \E v \in Terms : row' = [row EXCEPT ![o] =
                 [status |-> "PENDING", armed |-> FALSE, terms |-> v, linked |-> FALSE]]
      BY <3>1, NewRowType DEF TermsOrNone, Working
    <3>2. CASE row' = row
      BY <3>2
    <3>3. CASE SetStatus(o, "PARTIAL")
      BY <3>3, SetStatusType DEF Working
    <3> QED
      BY <1>35, <3>1, <3>2, <3>3 DEF PlaceUnheard
  <2>2. unsaid' \in [Orders -> SUBSET UntoldKinds] /\ faults' \in FaultRecords
    BY <1>35, UnsaidType, UnheardFault DEF PlaceUnheard, UntoldKinds
  <2> QED
    BY <1>35, <2>1, <2>2, PlacedType
    DEF PlaceUnheard, TasksOK, TickOK, EditorsOK, UntoldKinds
<1>36. ASSUME NEW o \in Orders, CancelUnheard(o) PROVE TypeInv'
  <2>1. row' \in [Orders -> RowRecords]
    BY <1>36, SetStatusType DEF CancelUnheard, Terminal
  <2> QED
    BY <1>36, <2>1, FaultType DEF CancelUnheard, TasksOK, TickOK, EditorsOK
<1>37. ASSUME NEW e \in Editors, EditUnheard(e) PROVE TypeInv'
  <2>1. editor[e].order \in Orders /\ editor[e].terms \in TermsOrNone
    BY <1>37 DEF EditUnheard, EditorsOK, EditorRecords
  <2>2. EditorsOK'
    BY <1>37, IdleEditorType, EditorUpdate DEF EditUnheard
  <2>3. [row[editor[e].order] EXCEPT !.terms = editor[e].terms] \in RowRecords
    <3>1. row[editor[e].order] \in RowRecords
      BY <2>1
    <3> QED
      BY <2>1, <3>1, RowWith
  <2>4. \/ row' = row
        \/ row' = [row EXCEPT ![editor[e].order] = [row[editor[e].order] EXCEPT !.terms = editor[e].terms]]
    BY <1>37 DEF EditUnheard
  <2>5. row' \in [Orders -> RowRecords]
    BY <2>1, <2>3, <2>4
  <2>6. raced' \in [Orders -> SUBSET {"closed", "book"}]
    BY <1>37, <2>1 DEF EditUnheard, Crossings
  <2>7. unsaid' \in [Orders -> SUBSET UntoldKinds] /\ faults' \in FaultRecords
    BY <1>37, UnsaidType, UnheardFault, FaultType DEF EditUnheard, UntoldKinds
  <2> QED
    BY <1>37, <2>2, <2>5, <2>6, <2>7 DEF EditUnheard, TasksOK, TickOK, EditorsOK, UntoldKinds
<1>38. ASSUME NEW o \in Orders, TickUnheard(o) PROVE TypeInv'
  <2>0. row[o] \in RowRecords
    OBVIOUS
  <2>1. [row[o] EXCEPT !.armed = TRUE] \in RowRecords
    BY <2>0, RowArmed
  <2>2. row' \in [Orders -> RowRecords]
    <3>1. CASE row' = [row EXCEPT ![o] = [row[o] EXCEPT !.armed = TRUE]]
      BY <2>1, <3>1
    <3>2. CASE SetStatus(o, "PARTIAL")
      BY <3>2, SetStatusType DEF Working
    <3> QED
      BY <1>38, <3>1, <3>2 DEF TickUnheard
  <2>3. unsaid' \in [Orders -> SUBSET UntoldKinds] /\ faults' \in FaultRecords
    BY <1>38, UnsaidType, UnheardFault DEF TickUnheard, UntoldKinds
  <2> QED
    BY <1>38, <2>2, <2>3, IdleTickType
    DEF TickUnheard, IdleTick, TasksOK, TickOK, EditorsOK, UntoldKinds
<1> QED
  BY <1>1, <1>2, <1>3, <1>4, <1>5, <1>6, <1>7, <1>8, <1>9, <1>10, <1>11, <1>12, <1>13, <1>14, <1>15, <1>16, <1>17, <1>18, <1>19, <1>20, <1>21, <1>22, <1>23, <1>24, <1>25, <1>26, <1>27, <1>28, <1>29, <1>30, <1>31, <1>32, <1>33, <1>34, <1>35, <1>36, <1>37, <1>38
  DEF Next, PlaceStep, TickStep, FillStep

\* Every variable keeps its type, and whatever is under way is under way for an order.
THEOREM TypeCorrect == Spec => []TypeOK
<1>1. Spec => []TypeInv
  BY InitType, StepType, PTL DEF Spec
<1> QED
  BY <1>1, PTL DEF TypeInv

-----------------------------------------------------------------------------
(* Nobody knows of an order before its handler has inserted it.             *)

TickAt(o) == tick.pc \in {"expired", "armed", "fired"} /\ tick.order = o

Untouched(o) ==
  /\ row[o].status = "none"
  /\ book[o].status = "absent"
  /\ o \notin DOMAIN tick.rows
  /\ ~TickAt(o)
  /\ \A t \in Tasks : task[t].pc # "idle" => task[t].order # o

NewInv == \A o \in Orders : place[o].pc = "new" => Untouched(o)

LEMMA InitNew == Init => NewInv
BY DEF Init, NewInv, Untouched, TickAt, NoRow, IdleTask, IdleTick

\* A pass only forgets rows.
LEMMA WalkRows ==
  ASSUME NEW rows
  PROVE  /\ DOMAIN Walk(rows).rows = DOMAIN rows
         /\ Walk(rows).pc \in {"idle", "walk"}
BY DEF Walk, IdleTick

LEMMA RowsButRows ==
  ASSUME NEW o
  PROVE  DOMAIN RowsBut(o) = DOMAIN tick.rows \ {o}
BY DEF RowsBut

LEMMA PassKept ==
  ASSUME TypeInv, NewInv,
         \/ tick' = Walk(tick.rows)
         \/ \E o \in Orders : /\ Comes(o)
                              /\ tick' = Walk(RowsBut(o)) \/ \E pc : tick' = Pause(pc, o)
  PROVE  \A p \in Orders : place[p].pc = "new" => p \notin DOMAIN tick'.rows /\ ~TickAt(p)'
<1>1. CASE tick' = Walk(tick.rows)
  BY <1>1, WalkRows DEF NewInv, Untouched, TickAt
<1>2. ASSUME NEW o \in Orders, Comes(o), tick' = Walk(RowsBut(o))
      PROVE  \A p \in Orders : place[p].pc = "new" => p \notin DOMAIN tick'.rows /\ ~TickAt(p)'
  <2>1. DOMAIN tick'.rows \subseteq DOMAIN tick.rows
    BY <1>2, WalkRows, RowsButRows
  <2>2. tick'.pc \in {"idle", "walk"}
    BY <1>2, WalkRows
  <2> QED
    BY <2>1, <2>2 DEF NewInv, Untouched, TickAt
<1>3. ASSUME NEW o \in Orders, Comes(o), NEW pc, tick' = Pause(pc, o)
      PROVE  \A p \in Orders : place[p].pc = "new" => p \notin DOMAIN tick'.rows /\ ~TickAt(p)'
  <2>1. tick'.rows = RowsBut(o) /\ tick'.order = o
    BY <1>3 DEF Pause
  <2>2. place[o].pc # "new"
    BY <1>3 DEF Comes, NewInv, Untouched
  <2>3. DOMAIN tick'.rows \subseteq DOMAIN tick.rows
    BY <2>1, RowsButRows
  <2>4. \A p \in Orders : place[p].pc = "new" => p \notin DOMAIN tick.rows
    BY DEF NewInv, Untouched
  <2> QED
    BY <2>1, <2>2, <2>3, <2>4 DEF TickAt
<1> QED
  BY <1>1, <1>2, <1>3

LEMMA StartForKnown ==
  ASSUME TypeInv, NewInv, NEW o \in Orders, place[o].pc # "new", StartPendingFill(o)
  PROVE  \A p \in Orders : place[p].pc = "new" =>
           \A t \in Tasks : task'[t].pc # "idle" => task'[t].order # p
BY DEF TypeInv, TypeOK, NewInv, Untouched, StartPendingFill

LEMMA NewStep == TypeInv /\ NewInv /\ [Next]_vars => NewInv'
<1> SUFFICES ASSUME TypeInv, NewInv, [Next]_vars PROVE NewInv'
  OBVIOUS
<1> USE DEF TypeInv, TypeOK, NewInv, Untouched, TickAt
<1>1. ASSUME NEW o \in Orders, PlaceInsert(o) PROVE NewInv'
  BY <1>1 DEF PlaceInsert
<1>2. ASSUME NEW o \in Orders, PlaceKill(o) PROVE NewInv'
  BY <1>2 DEF PlaceKill, SetStatus, Placed
<1>3. ASSUME NEW o \in Orders, PlaceUpsert(o) PROVE NewInv'
  BY <1>3 DEF PlaceUpsert, Placed
<1>4. ASSUME NEW o \in Orders, PlaceFire(o) PROVE NewInv'
  <2>1. /\ place[o].pc # "new"
        /\ \A p \in Orders \ {o} : row'[p] = row[p] /\ place'[p] = place[p]
        /\ place'[o].pc # "new"
    BY <1>4 DEF PlaceFire, SetStatus, Placed, PlaceRecords
  <2> QED
    BY <1>4, <2>1 DEF PlaceFire
<1>5. ASSUME NEW o \in Orders, PlaceStart(o) PROVE NewInv'
  <2>1. o \in Orders /\ place[o].pc # "new" /\ StartPendingFill(o)
    BY <1>5 DEF PlaceStart, TickOK
  <2>2. \A p \in Orders : place[p].pc = "new" =>
          \A t \in Tasks : task'[t].pc # "idle" => task'[t].order # p
    BY <2>1, StartForKnown
  <2>3. \A p \in Orders : book[p].status = "absent" => book'[p].status = "absent"
    BY <1>5 DEF PlaceStart, PatchBook, Watched
  <2> QED
    BY <1>5, <2>2, <2>3 DEF PlaceStart, Placed
<1>6. ASSUME NEW o \in Orders, CancelWrite(o) PROVE NewInv'
  BY <1>6 DEF CancelWrite, Cancellable, SetStatus
<1>7. ASSUME NEW o \in Orders, CancelDrop(o) PROVE NewInv'
  BY <1>7 DEF CancelDrop, RemoveFromBook, NoRow
<1>8. ASSUME NEW e \in Editors, NEW o \in Orders, EditRead(e, o) PROVE NewInv'
  BY <1>8 DEF EditRead
<1>9. ASSUME NEW e \in Editors, EditWrite(e) PROVE NewInv'
  BY <1>9 DEF EditWrite, RowRecords
<1>10. ASSUME NEW e \in Editors, EditPatch(e) PROVE NewInv'
  BY <1>10 DEF EditPatch, BookRows
<1>11. ASSUME NEW o \in Orders, FallDue(o) PROVE NewInv'
  BY <1>11 DEF FallDue
<1>12. CASE TickBegin
  BY <1>12 DEF TickBegin, Watched
<1>13. ASSUME NEW o \in Orders, TickExpire(o) PROVE NewInv'
  <2>1. \A p \in Orders : place[p].pc = "new" => p \notin DOMAIN tick'.rows /\ ~TickAt(p)'
    BY <1>13, PassKept DEF TickExpire, Judged, Comes
  <2> QED
    BY <1>13, <2>1 DEF TickExpire, SetStatus, Comes, Judged
<1>14. CASE TickExpireDrop
  <2>1. \A p \in Orders : place[p].pc = "new" => p \notin DOMAIN tick'.rows /\ ~TickAt(p)'
    BY <1>14, PassKept DEF TickExpireDrop
  <2> QED
    BY <1>14, <2>1 DEF TickExpireDrop, RemoveFromBook, NoRow
<1>15. ASSUME NEW o \in Orders, TickRestartFill(o) PROVE NewInv'
  <2>1. o \in Orders /\ place[o].pc # "new" /\ StartPendingFill(o)
    BY <1>15 DEF TickRestartFill, Comes, TickOK
  <2>2. \A p \in Orders : place[p].pc = "new" =>
          \A t \in Tasks : task'[t].pc # "idle" => task'[t].order # p
    BY <2>1, StartForKnown
  <2>3. book' = book
    BY <1>15 DEF TickRestartFill, PatchBook, Watched
  <2>4. \A p \in Orders : place[p].pc = "new" => p \notin DOMAIN tick'.rows /\ ~TickAt(p)'
    BY <1>15, PassKept DEF TickRestartFill, Comes
  <2>5. row' = row /\ place' = place
    BY <1>15 DEF TickRestartFill
  <2> QED
    BY <2>2, <2>3, <2>4, <2>5
<1>16. ASSUME NEW o \in Orders, TickPass(o) PROVE NewInv'
  <2>1. \A p \in Orders : place[p].pc = "new" => p \notin DOMAIN tick'.rows /\ ~TickAt(p)'
    BY <1>16, PassKept DEF TickPass, Judged, Comes
  <2> QED
    BY <1>16, <2>1 DEF TickPass, Comes, Judged
<1>17. ASSUME NEW o \in Orders, TickArm(o) PROVE NewInv'
  <2>1. \A p \in Orders : place[p].pc = "new" => p \notin DOMAIN tick'.rows /\ ~TickAt(p)'
    BY <1>17, PassKept DEF TickArm, Judged, Comes
  <2>2. row'[o] = row[o] \/ (row[o].status = "PENDING" /\ row'[o].status = "PENDING")
    BY <1>17 DEF TickArm, RowRecords
  <2>3. \A p \in Orders : row'[p].status = row[p].status
    <3>1. \A p \in Orders \ {o} : row'[p] = row[p]
      BY <1>17 DEF TickArm
    <3> QED
      BY <2>2, <3>1
  <2>4. UNCHANGED <<place, book, task>>
    BY <1>17 DEF TickArm
  <2> QED
    BY <2>1, <2>3, <2>4
<1>18. CASE TickArmPatch
  <2>1. \A p \in Orders : place[p].pc = "new" => p \notin DOMAIN tick'.rows /\ ~TickAt(p)'
    BY <1>18, PassKept DEF TickArmPatch
  <2> QED
    BY <1>18, <2>1 DEF TickArmPatch, PatchBook, Watched, BookRows
<1>19. ASSUME NEW o \in Orders, TickFire(o) PROVE NewInv'
  <2>1. \A p \in Orders : place[p].pc = "new" => p \notin DOMAIN tick'.rows /\ ~TickAt(p)'
    BY <1>19, PassKept DEF TickFire, Judged, Comes
  <2> QED
    BY <1>19, <2>1 DEF TickFire, SetStatus, Judged, Comes, RowRecords
<1>20. CASE TickFirePatch
  <2>1. tick.order \in Orders /\ place[tick.order].pc # "new" /\ StartPendingFill(tick.order)
    BY <1>20 DEF TickFirePatch, Comes, TickOK
  <2>2. \A p \in Orders : place[p].pc = "new" =>
          \A t \in Tasks : task'[t].pc # "idle" => task'[t].order # p
    BY <2>1, StartForKnown
  <2>3. \A p \in Orders : book[p].status = "absent" => book'[p].status = "absent"
    BY <1>20 DEF TickFirePatch, PatchBook, Watched
  <2>4. \A p \in Orders : place[p].pc = "new" => p \notin DOMAIN tick'.rows /\ ~TickAt(p)'
    BY <1>20, PassKept DEF TickFirePatch
  <2>5. row' = row /\ place' = place
    BY <1>20 DEF TickFirePatch
  <2> QED
    BY <2>2, <2>3, <2>4, <2>5
<1>21. CASE TickAbort
  BY <1>21 DEF TickAbort, IdleTick
<1>22. ASSUME NEW t \in Tasks, FillRead(t) PROVE NewInv'
  BY <1>22 DEF FillRead, At, Goto, Forget, TaskRecords, TasksOK, IdleTask, SetStatus, RemoveFromBook, NoRow, RowRecords, OpenPosition
<1>23. ASSUME NEW t \in Tasks, FillRecheck(t) PROVE NewInv'
  <2>0. \E pc \in TaskPcs : Goto(t, pc) \/ Forget(t, pc)
    BY <1>23 DEF FillRecheck, TaskPcs
  <2>1. \A u \in Tasks : task'[u].order = task[u].order
    BY <2>0 DEF Goto, Forget, TaskRecords
  <2>2. \A u \in Tasks : task'[u].pc # "idle" => task[u].pc # "idle"
    BY <1>23 DEF FillRecheck, At, Goto, Forget, TaskRecords
  <2>3. UNCHANGED <<row, place, book, tick>>
    BY <1>23 DEF FillRecheck
  <2> QED
    BY <2>1, <2>2, <2>3
<1>24. ASSUME NEW t \in Tasks, FillCommit(t) PROVE NewInv'
  BY <1>24 DEF FillCommit, At, Goto, Forget, TaskRecords, TasksOK, IdleTask, SetStatus, RemoveFromBook, NoRow, RowRecords, OpenPosition
<1>25. ASSUME NEW t \in Tasks, FillCommitUnheard(t) PROVE NewInv'
  BY <1>25 DEF FillCommitUnheard, At, Goto, Forget, TaskRecords, TasksOK, IdleTask, SetStatus, RemoveFromBook, NoRow, RowRecords, OpenPosition
<1>26. ASSUME NEW t \in Tasks, FillRefuse(t) PROVE NewInv'
  BY <1>26 DEF FillRefuse, At, Goto, Forget, TaskRecords, TasksOK, IdleTask, SetStatus, RemoveFromBook, NoRow, RowRecords, OpenPosition
<1>27. ASSUME NEW t \in Tasks, FillError(t) PROVE NewInv'
  BY <1>27 DEF FillError, At, Goto, Forget, TaskRecords, TasksOK, IdleTask, SetStatus, RemoveFromBook, NoRow, RowRecords, OpenPosition
<1>28. ASSUME NEW t \in Tasks, FillRecord(t) PROVE NewInv'
  BY <1>28 DEF FillRecord, At, Goto, Forget, TaskRecords, TasksOK, IdleTask, SetStatus, RemoveFromBook, NoRow, RowRecords, OpenPosition
<1>29. ASSUME NEW t \in Tasks, FillReject(t) PROVE NewInv'
  BY <1>29 DEF FillReject, At, Goto, Forget, TaskRecords, TasksOK, IdleTask, SetStatus, RemoveFromBook, NoRow, RowRecords, OpenPosition
<1>30. ASSUME NEW t \in Tasks, FillDrop(t) PROVE NewInv'
  BY <1>30 DEF FillDrop, At, Goto, Forget, TaskRecords, TasksOK, IdleTask, SetStatus, RemoveFromBook, NoRow, RowRecords, OpenPosition
<1>31. ASSUME NEW t \in Tasks, FillDone(t) PROVE NewInv'
  BY <1>31 DEF FillDone, At, Goto, Forget, TaskRecords, TasksOK, IdleTask, SetStatus, RemoveFromBook, NoRow, RowRecords, OpenPosition
<1>32. CASE Crash
  BY <1>32 DEF Crash, NoRow, IdleTask, IdleTick, Placed, database
<1>33. CASE Hydrate
  BY <1>33 DEF Hydrate, NoRow, Resumable, Hydrated, database, Working
<1>34. CASE UNCHANGED vars
  BY <1>34 DEF vars
<1>35. ASSUME NEW o \in Orders, PlaceUnheard(o) PROVE NewInv'
  <2>1. /\ \A p \in Orders \ {o} : row'[p] = row[p] /\ place'[p] = place[p]
        /\ place'[o].pc # "new"
    BY <1>35 DEF PlaceUnheard, SetStatus, Placed, PlaceRecords
  <2> QED
    BY <1>35, <2>1 DEF PlaceUnheard
<1>36. ASSUME NEW o \in Orders, CancelUnheard(o) PROVE NewInv'
  <2>1. row[o].status # "none" /\ \A p \in Orders \ {o} : row'[p] = row[p]
    BY <1>36 DEF CancelUnheard, Cancellable, SetStatus
  <2> QED
    BY <1>36, <2>1 DEF CancelUnheard
<1>37. ASSUME NEW e \in Editors, EditUnheard(e) PROVE NewInv'
  <2>1. \A p \in Orders : row'[p].status = row[p].status
    BY <1>37 DEF EditUnheard, RowRecords
  <2>2. UNCHANGED <<place, book, task, tick>>
    BY <1>37 DEF EditUnheard
  <2> QED
    BY <2>1, <2>2
<1>38. ASSUME NEW o \in Orders, TickUnheard(o) PROVE NewInv'
  <2>1. \A p \in Orders \ {o} : row'[p] = row[p]
    BY <1>38 DEF TickUnheard, SetStatus
  <2>2. place[o].pc # "new"
    BY <1>38 DEF TickUnheard, Judged, Comes
  <2>3. UNCHANGED <<place, book, task>> /\ tick' = IdleTick
    BY <1>38 DEF TickUnheard
  <2>4. DOMAIN IdleTick.rows = {} /\ IdleTick.pc = "idle"
    BY DEF IdleTick
  <2> QED
    BY <2>1, <2>2, <2>3, <2>4
<1> QED
  BY <1>1, <1>2, <1>3, <1>4, <1>5, <1>6, <1>7, <1>8, <1>9, <1>10, <1>11, <1>12, <1>13, <1>14, <1>15, <1>16, <1>17, <1>18, <1>19, <1>20, <1>21, <1>22, <1>23, <1>24, <1>25, <1>26, <1>27, <1>28, <1>29, <1>30, <1>31, <1>32, <1>33, <1>34, <1>35, <1>36, <1>37, <1>38
  DEF Next, PlaceStep, TickStep, FillStep

-----------------------------------------------------------------------------
(* One fill per order: the inductive invariant.                             *)

Busy(t) == task[t].pc # "idle"

\* A fill task is registered in the in-flight set until it has ended.
TasksInFlight == \A t \in Tasks : Busy(t) => task[t].order \in inflight

OneTaskPerOrder ==
  \A t, u \in Tasks : Busy(t) /\ Busy(u) /\ task[t].order = task[u].order => t = u

LinkedHasEnded == \A o \in Orders : row[o].linked => row[o].status \in Terminal

\* A task about to commit, or about to record what it committed, works for an
\* order that has no position on record.
FillsUnlinked ==
  \A t \in Tasks : task[t].pc \in {"commit", "record"} => ~row[task[t].order].linked

\* Every position of an order is on record, or about to be, or an orphan.
PositionsAccounted ==
  \A o \in Orders :
    opened[o] = orphans[o] + (IF row[o].linked \/ Recording(o) THEN 1 ELSE 0)

FillInv ==
  /\ TasksInFlight
  /\ OneTaskPerOrder
  /\ LinkedHasEnded
  /\ FillsUnlinked
  /\ PositionsAccounted

\* What a step may do to the row of an order that FillInv does not notice.
RowKept(o) ==
  /\ row'[o].linked = row[o].linked
  /\ row[o].status \in Terminal => row'[o].status \in Terminal

LEMMA QuietStep ==
  ASSUME TypeInv, FillInv, UNCHANGED <<task, inflight, opened, orphans>>,
         \A o \in Orders : RowKept(o)
  PROVE  FillInv'
<1>1. TasksInFlight' /\ OneTaskPerOrder'
  BY DEF FillInv, TasksInFlight, OneTaskPerOrder, Busy
<1>2. LinkedHasEnded'
  BY DEF FillInv, LinkedHasEnded, RowKept
<1>3. FillsUnlinked'
  BY DEF FillInv, FillsUnlinked, RowKept, TypeInv, TasksOK
<1>4. PositionsAccounted'
  BY DEF FillInv, PositionsAccounted, RowKept, Recording, At
<1> QED
  BY <1>1, <1>2, <1>3, <1>4 DEF FillInv

LEMMA StartStep ==
  ASSUME TypeInv, FillInv, NEW o \in Orders, StartPendingFill(o),
         UNCHANGED <<row, opened, orphans>>,
         \A p \in Orders : RowKept(p)
  PROVE  FillInv'
<1>1. CASE o \in inflight
  BY <1>1, QuietStep DEF StartPendingFill
<1>2. CASE o \notin inflight
  <2> DEFINE r == [pc |-> "read", order |-> o, terms |-> "none"]
  <2>1. PICK t \in Tasks : /\ task[t].pc = "idle"
                           /\ inflight' = inflight \cup {o}
                           /\ task' = [task EXCEPT ![t] = r]
    BY <1>2 DEF StartPendingFill
  <2>2. task'[t] = r /\ \A u \in Tasks \ {t} : task'[u] = task[u]
    BY <2>1 DEF TypeInv, TypeOK
  <2>3. r.pc = "read" /\ r.order = o
    OBVIOUS
  <2> HIDE DEF r
  <2>4. TasksInFlight'
    BY <2>1, <2>2, <2>3 DEF FillInv, TasksInFlight, Busy
  <2>5. OneTaskPerOrder'
    BY <1>2, <2>2, <2>3 DEF FillInv, OneTaskPerOrder, TasksInFlight, Busy
  <2>6. LinkedHasEnded'
    BY DEF FillInv, LinkedHasEnded, RowKept
  <2>7. FillsUnlinked'
    BY <2>2, <2>3 DEF FillInv, FillsUnlinked
  <2>8. \A p \in Orders : Recording(p)' <=> Recording(p)
    BY <2>1, <2>2, <2>3 DEF Recording, At
  <2>9. PositionsAccounted'
    BY <2>8 DEF FillInv, PositionsAccounted
  <2> QED
    BY <2>4, <2>5, <2>6, <2>7, <2>9 DEF FillInv
<1> QED
  BY <1>1, <1>2

\* A task that moves on without opening or recording a position.
LEMMA MoveStep ==
  ASSUME TypeInv, FillInv, NEW t \in Tasks, NEW r \in TaskRecords,
         task' = [task EXCEPT ![t] = r],
         task[t].pc \notin {"idle", "record"},
         r.pc \notin {"idle", "record"},
         r.order = task[t].order,
         r.pc = "commit" => ~row[task[t].order].linked,
         UNCHANGED <<inflight, opened, orphans>>,
         \A o \in Orders : RowKept(o)
  PROVE  FillInv'
<1>1. task'[t] = r /\ \A u \in Tasks \ {t} : task'[u] = task[u]
  BY DEF TypeInv, TypeOK
<1>2. TasksInFlight' /\ OneTaskPerOrder'
  BY <1>1 DEF FillInv, TasksInFlight, OneTaskPerOrder, Busy
<1>3. LinkedHasEnded'
  BY DEF FillInv, LinkedHasEnded, RowKept
<1>4. FillsUnlinked'
  BY <1>1 DEF FillInv, FillsUnlinked, RowKept, TypeInv, TasksOK
<1>5. \A o \in Orders : Recording(o)' <=> Recording(o)
  BY <1>1 DEF Recording, At
<1>6. PositionsAccounted'
  BY <1>5 DEF FillInv, PositionsAccounted, RowKept
<1> QED
  BY <1>2, <1>3, <1>4, <1>6 DEF FillInv

LEMMA InitFill == Init => FillInv
BY DEF Init, FillInv, TasksInFlight, OneTaskPerOrder, LinkedHasEnded,
       FillsUnlinked, PositionsAccounted, Recording, At, Busy, IdleTask

\* No step but the record of a fill links a row, and none takes back an end.
LEMMA RowStep ==
  ASSUME TypeInv, NewInv, FillInv, [Next]_vars
  PROVE  /\ \A o \in Orders : row[o].status \in Terminal => row'[o].status \in Terminal
         /\ (\A t \in Tasks : ~FillRecord(t)) => \A o \in Orders : RowKept(o)
<1> DEFINE Ends  == \A o \in Orders : row[o].status \in Terminal => row'[o].status \in Terminal
           Links == \A o \in Orders : row'[o].linked = row[o].linked
           Goal  == Ends /\ ((\A t \in Tasks : ~FillRecord(t)) => \A o \in Orders : RowKept(o))
<1> USE DEF TypeInv, TypeOK
<1>0. Ends /\ Links => Goal
  BY DEF RowKept
<1> HIDE DEF Goal
<1>1. ASSUME UNCHANGED row PROVE Goal
  BY <1>0, <1>1
<1>2. ASSUME NEW o \in Orders, NEW s \in Terminal, SetStatus(o, s) PROVE Goal
  BY <1>0, <1>2 DEF SetStatus, RowRecords
<1>3. ASSUME NEW o \in Orders, row[o].status \in Working, SetStatus(o, "PARTIAL") PROVE Goal
  BY <1>0, <1>3 DEF SetStatus, RowRecords, Working, Terminal
<1>4. ASSUME NEW o \in Orders, PlaceInsert(o) PROVE Goal
  <2>1. row[o].status = "none" /\ ~row[o].linked
    BY <1>4 DEF PlaceInsert, NewInv, Untouched, FillInv, LinkedHasEnded, Terminal, RowRecords
  <2> QED
    <3>1. PICK v \in Terms : row' = [row EXCEPT ![o] = [status |-> "PENDING", armed |-> FALSE,
                                                        terms |-> v, linked |-> FALSE]]
      BY <1>4 DEF PlaceInsert
    <3>2. row[o].linked = FALSE
      BY <2>1 DEF RowRecords
    <3>3. Ends
      BY <2>1, <3>1 DEF Terminal
    <3>4. Links
      BY <3>1, <3>2
    <3> QED
      BY <1>0, <3>3, <3>4
<1>5. ASSUME NEW o \in Orders, TickArm(o) PROVE Goal
  <2>1. \/ row' = row
        \/ row' = [row EXCEPT ![o] = [row[o] EXCEPT !.armed = TRUE]]
    BY <1>5 DEF TickArm
  <2>2. /\ [row[o] EXCEPT !.armed = TRUE].status = row[o].status
        /\ [row[o] EXCEPT !.armed = TRUE].linked = row[o].linked
    BY DEF RowRecords
  <2>3. CASE row' = [row EXCEPT ![o] = [row[o] EXCEPT !.armed = TRUE]]
    BY <1>0, <2>2, <2>3
  <2> QED
    BY <1>1, <2>1, <2>3
<1>6. ASSUME NEW e \in Editors, EditWrite(e) PROVE Goal
  BY <1>0, <1>6 DEF EditWrite, RowRecords
<1>7. ASSUME NEW t \in Tasks, FillRecord(t) PROVE Goal
  <2>1. task[t].order \in Orders
    BY <1>7 DEF FillRecord, At, TasksOK
  <2>2. row' = row \/ row' = [row EXCEPT ![task[t].order] =
                               [row[task[t].order] EXCEPT !.status = "FILLED", !.linked = TRUE]]
    <3> HIDE DEF TypeInv, TypeOK
    <3> QED
      BY <1>7 DEF FillRecord
  <2>3. [row[task[t].order] EXCEPT !.status = "FILLED", !.linked = TRUE].status = "FILLED"
    BY <2>1 DEF RowRecords
  <2>4. Ends
    BY <2>1, <2>2, <2>3 DEF Terminal
  <2> QED
    BY <1>7, <2>4 DEF Goal
<1>8. ASSUME NEW o \in Orders,
             PlaceKill(o) \/ PlaceUpsert(o) \/ PlaceFire(o) \/ PlaceStart(o)
      PROVE  Goal
  BY <1>8, <1>1, <1>2, <1>3 DEF PlaceKill, PlaceUpsert, PlaceFire, PlaceStart, Terminal
<1>9. ASSUME NEW o \in Orders, CancelWrite(o) \/ CancelDrop(o) \/ FallDue(o) PROVE Goal
  BY <1>9, <1>1, <1>2 DEF CancelWrite, CancelDrop, FallDue, Terminal
<1>10. ASSUME NEW e \in Editors, EditPatch(e) \/ \E o \in Orders : EditRead(e, o) PROVE Goal
  BY <1>10, <1>1 DEF EditPatch, EditRead
<1>11. ASSUME NEW o \in Orders, TickExpire(o) \/ TickRestartFill(o) \/ TickPass(o) \/ TickFire(o)
       PROVE  Goal
  BY <1>11, <1>1, <1>2, <1>3 DEF TickExpire, TickRestartFill, TickPass, TickFire, Terminal
<1>12. ASSUME TickBegin \/ TickExpireDrop \/ TickArmPatch \/ TickFirePatch \/ TickAbort PROVE Goal
  <2>1. row' = row
    BY <1>12 DEF TickBegin, TickExpireDrop, TickArmPatch, TickFirePatch, TickAbort
  <2> QED
    BY <1>1, <2>1
<1>13. ASSUME NEW t \in Tasks,
              \/ FillRead(t) \/ FillRecheck(t) \/ FillCommit(t) \/ FillCommitUnheard(t)
              \/ FillRefuse(t) \/ FillError(t) \/ FillDrop(t) \/ FillDone(t)
       PROVE  Goal
  BY <1>13, <1>1 DEF FillRead, FillRecheck, FillCommit, FillCommitUnheard, FillRefuse,
                     FillError, FillDrop, FillDone
<1>14. ASSUME NEW t \in Tasks, FillReject(t) PROVE Goal
  <2>1. task[t].order \in Orders
    BY <1>14 DEF FillReject, At, TasksOK
  <2> QED
    BY <1>14, <2>1, <1>1, <1>2 DEF FillReject, Terminal
<1>15. ASSUME Crash \/ Hydrate \/ UNCHANGED vars PROVE Goal
  <2>1. row' = row
    BY <1>15 DEF Crash, Hydrate, database, vars
  <2> QED
    BY <1>1, <2>1
<1>17. ASSUME NEW o \in Orders, PlaceUnheard(o) PROVE Goal
  <2>1. CASE place[o].pc = "new"
    <3>1. row[o].status = "none" /\ row[o].linked = FALSE
      BY <2>1 DEF NewInv, Untouched, FillInv, LinkedHasEnded, Terminal, RowRecords
    <3>2. PICK v \in Terms : row' = [row EXCEPT ![o] = [status |-> "PENDING", armed |-> FALSE,
                                                        terms |-> v, linked |-> FALSE]]
      BY <1>17, <2>1 DEF PlaceUnheard
    <3>3. Ends
      BY <3>1, <3>2 DEF Terminal
    <3>4. Links
      BY <3>1, <3>2
    <3> QED
      BY <1>0, <3>3, <3>4
  <2>2. CASE place[o].pc # "new"
    BY <1>17, <2>2, <1>1, <1>3 DEF PlaceUnheard
  <2> QED
    BY <2>1, <2>2
<1>18. ASSUME NEW o \in Orders, CancelUnheard(o) PROVE Goal
  BY <1>18, <1>2 DEF CancelUnheard, Terminal
<1>19. ASSUME NEW e \in Editors, EditUnheard(e) PROVE Goal
  <2>1. \A p \in Orders : row'[p].status = row[p].status /\ row'[p].linked = row[p].linked
    BY <1>19 DEF EditUnheard, RowRecords
  <2> QED
    BY <1>0, <2>1
<1>20. ASSUME NEW o \in Orders, TickUnheard(o) PROVE Goal
  <2>1. /\ [row[o] EXCEPT !.armed = TRUE].status = row[o].status
        /\ [row[o] EXCEPT !.armed = TRUE].linked = row[o].linked
    BY DEF RowRecords
  <2>2. CASE row' = [row EXCEPT ![o] = [row[o] EXCEPT !.armed = TRUE]]
    BY <1>0, <2>1, <2>2
  <2> QED
    BY <1>20, <2>2, <1>3 DEF TickUnheard
<1> HIDE DEF TypeInv, TypeOK
<1>16. Goal
  BY <1>4, <1>5, <1>6, <1>7, <1>8, <1>9, <1>10, <1>11, <1>12, <1>13, <1>14, <1>15, <1>17, <1>18, <1>19, <1>20
  DEF Next, PlaceStep, TickStep, FillStep
<1> QED
  BY <1>16 DEF Goal

\* The steps of a fill task that open, record or end.
LEMMA CommitStep ==
  ASSUME TypeInv, FillInv, NEW t \in Tasks, FillCommit(t)
  PROVE  FillInv'
<1> DEFINE o == task[t].order
           r == [task[t] EXCEPT !.pc = "record", !.terms = "none"]
<1>1. task[t].pc = "commit" /\ o \in Orders
  BY DEF FillCommit, At, TypeInv, TasksOK
<1>2. r.pc = "record" /\ r.order = o
  BY DEF TypeInv, TypeOK, TaskRecords
<1>3. task'[t] = r /\ \A u \in Tasks \ {t} : task'[u] = task[u]
  BY DEF FillCommit, Forget, TypeInv, TypeOK
<1>4. UNCHANGED <<row, inflight, orphans>>
  BY DEF FillCommit
<1>5. opened' = [opened EXCEPT ![o] = opened[o] + 1]
  BY DEF FillCommit, OpenPosition
<1> HIDE DEF r
<1>6. TasksInFlight' /\ OneTaskPerOrder'
  BY <1>1, <1>2, <1>3, <1>4 DEF FillInv, TasksInFlight, OneTaskPerOrder, Busy
<1>7. LinkedHasEnded' /\ FillsUnlinked'
  BY <1>1, <1>2, <1>3, <1>4 DEF FillInv, LinkedHasEnded, FillsUnlinked
<1>8. ~row[o].linked /\ ~Recording(o) /\ Recording(o)'
  <2>1. ~row[o].linked
    BY <1>1 DEF FillInv, FillsUnlinked
  <2>2. ~Recording(o)
    BY <1>1 DEF FillInv, OneTaskPerOrder, Busy, Recording, At
  <2>3. Recording(o)'
    BY <1>2, <1>3, <1>4 DEF Recording, At
  <2> QED
    BY <2>1, <2>2, <2>3
<1>9. \A p \in Orders \ {o} : Recording(p)' <=> Recording(p)
  BY <1>1, <1>2, <1>3 DEF Recording, At
<1>10. PositionsAccounted'
  <2>1. opened[o] = orphans[o] /\ opened'[o] = orphans'[o] + 1
    BY <1>1, <1>4, <1>5, <1>8 DEF FillInv, PositionsAccounted, TypeInv, TypeOK
  <2>2. \A p \in Orders \ {o} : opened'[p] = opened[p]
    BY <1>5 DEF TypeInv, TypeOK
  <2>3. \A p \in Orders \ {o} :
          opened'[p] = orphans'[p] + (IF row'[p].linked \/ Recording(p)' THEN 1 ELSE 0)
    BY <1>4, <1>9, <2>2 DEF FillInv, PositionsAccounted
  <2>4. opened'[o] = orphans'[o] + (IF row'[o].linked \/ Recording(o)' THEN 1 ELSE 0)
    BY <1>8, <2>1
  <2> QED
    BY <1>2, <1>3, <2>3, <2>4 DEF PositionsAccounted
<1> QED
  BY <1>6, <1>7, <1>10 DEF FillInv

LEMMA CommitUnheardStep ==
  ASSUME TypeInv, FillInv, NEW t \in Tasks, FillCommitUnheard(t)
  PROVE  FillInv'
<1> DEFINE o == task[t].order
           r == [task[t] EXCEPT !.pc = "done", !.terms = "none"]
<1>1. task[t].pc = "commit" /\ o \in Orders
  BY DEF FillCommitUnheard, At, TypeInv, TasksOK
<1>2. r.pc = "done" /\ r.order = o
  BY DEF TypeInv, TypeOK, TaskRecords
<1>3. task'[t] = r /\ \A u \in Tasks \ {t} : task'[u] = task[u]
  BY DEF FillCommitUnheard, Forget, TypeInv, TypeOK
<1>4. UNCHANGED <<row, inflight>>
  BY DEF FillCommitUnheard
<1>5. /\ opened' = [opened EXCEPT ![o] = opened[o] + 1]
      /\ orphans' = [orphans EXCEPT ![o] = orphans[o] + 1]
  BY DEF FillCommitUnheard, OpenPosition
<1> HIDE DEF r
<1>6. TasksInFlight' /\ OneTaskPerOrder'
  BY <1>1, <1>2, <1>3, <1>4 DEF FillInv, TasksInFlight, OneTaskPerOrder, Busy
<1>7. LinkedHasEnded' /\ FillsUnlinked'
  BY <1>1, <1>2, <1>3, <1>4 DEF FillInv, LinkedHasEnded, FillsUnlinked
<1>8. \A p \in Orders : Recording(p)' <=> Recording(p)
  BY <1>1, <1>2, <1>3 DEF Recording, At
<1>9. PositionsAccounted'
  <2>1. opened'[o] = opened[o] + 1 /\ orphans'[o] = orphans[o] + 1
    BY <1>1, <1>5 DEF TypeInv, TypeOK
  <2>2. \A p \in Orders \ {o} : opened'[p] = opened[p] /\ orphans'[p] = orphans[p]
    BY <1>5 DEF TypeInv, TypeOK
  <2>3. \A p \in Orders : opened[p] \in Nat /\ orphans[p] \in Nat
    BY DEF TypeInv, TypeOK
  <2> QED
    BY <1>4, <1>8, <2>1, <2>2, <2>3 DEF FillInv, PositionsAccounted
<1> QED
  BY <1>6, <1>7, <1>9 DEF FillInv

LEMMA RecordStep ==
  ASSUME TypeInv, FillInv, NEW t \in Tasks, FillRecord(t)
  PROVE  FillInv'
<1> DEFINE o == task[t].order
           r == [task[t] EXCEPT !.pc = "drop"]
           f == [row[o] EXCEPT !.status = "FILLED", !.linked = TRUE]
<1>1. task[t].pc = "record" /\ o \in Orders
  BY DEF FillRecord, At, TypeInv, TasksOK
<1>2. r.pc = "drop" /\ r.order = o
  BY DEF TypeInv, TypeOK, TaskRecords
<1>3. task'[t] = r /\ \A u \in Tasks \ {t} : task'[u] = task[u]
  BY DEF FillRecord, Goto, TypeInv, TypeOK
<1>4. UNCHANGED <<inflight, opened>>
  BY DEF FillRecord
<1>5. f.status = "FILLED" /\ f.linked
  BY <1>1 DEF TypeInv, TypeOK, RowRecords
<1>6. \/ row' = [row EXCEPT ![o] = f] /\ orphans' = orphans
      \/ row' = row /\ orphans' = [orphans EXCEPT ![o] = orphans[o] + 1]
  BY DEF FillRecord
<1> HIDE DEF r, f
<1>7. TasksInFlight' /\ OneTaskPerOrder'
  BY <1>1, <1>2, <1>3, <1>4 DEF FillInv, TasksInFlight, OneTaskPerOrder, Busy
<1>8. \A u \in Tasks \ {t} : task[u].pc # "idle" => task[u].order # o
  BY <1>1 DEF FillInv, OneTaskPerOrder, Busy
<1>9. ~row[o].linked /\ Recording(o) /\ ~Recording(o)'
  BY <1>1, <1>2, <1>3, <1>8 DEF FillInv, FillsUnlinked, Recording, At
<1>10. \A p \in Orders \ {o} : Recording(p)' <=> Recording(p)
  BY <1>1, <1>2, <1>3 DEF Recording, At
<1>11. opened[o] = orphans[o] + 1
  BY <1>1, <1>9 DEF FillInv, PositionsAccounted
<1>12. CASE row' = [row EXCEPT ![o] = f] /\ orphans' = orphans
  <2>1. row'[o] = f /\ \A p \in Orders \ {o} : row'[p] = row[p]
    BY <1>1, <1>12 DEF TypeInv, TypeOK
  <2>2. LinkedHasEnded'
    BY <1>5, <2>1 DEF FillInv, LinkedHasEnded, Terminal
  <2>3. FillsUnlinked'
    <3> SUFFICES ASSUME NEW u \in Tasks, task'[u].pc \in {"commit", "record"}
                 PROVE  ~row'[task'[u].order].linked
      BY DEF FillsUnlinked
    <3>1. u # t /\ task'[u] = task[u]
      BY <1>2, <1>3
    <3>2. task[u].order # o /\ task[u].order \in Orders
      BY <1>8, <3>1 DEF TypeInv, TasksOK
    <3> QED
      BY <2>1, <3>1, <3>2 DEF FillInv, FillsUnlinked
  <2>4. PositionsAccounted'
    BY <1>4, <1>5, <1>9, <1>10, <1>11, <1>12, <2>1 DEF FillInv, PositionsAccounted
  <2> QED
    BY <1>7, <2>2, <2>3, <2>4 DEF FillInv
<1>13. CASE row' = row /\ orphans' = [orphans EXCEPT ![o] = orphans[o] + 1]
  <2>1. LinkedHasEnded' /\ FillsUnlinked'
    BY <1>2, <1>3, <1>13 DEF FillInv, LinkedHasEnded, FillsUnlinked
  <2>2. orphans'[o] = orphans[o] + 1 /\ \A p \in Orders \ {o} : orphans'[p] = orphans[p]
    BY <1>1, <1>13 DEF TypeInv, TypeOK
  <2>3. \A p \in Orders : opened[p] \in Nat /\ orphans[p] \in Nat
    BY DEF TypeInv, TypeOK
  <2>4. \A p \in Orders \ {o} :
          opened'[p] = orphans'[p] + (IF row'[p].linked \/ Recording(p)' THEN 1 ELSE 0)
    BY <1>4, <1>10, <1>13, <2>2 DEF FillInv, PositionsAccounted
  <2>5. opened'[o] = orphans'[o] + (IF row'[o].linked \/ Recording(o)' THEN 1 ELSE 0)
    BY <1>1, <1>4, <1>9, <1>11, <1>13, <2>2, <2>3
  <2>6. PositionsAccounted'
    BY <1>2, <1>3, <2>4, <2>5 DEF PositionsAccounted
  <2> QED
    BY <1>7, <2>1, <2>6 DEF FillInv
<1> QED
  BY <1>6, <1>12, <1>13

LEMMA DoneStep ==
  ASSUME TypeInv, FillInv, NEW t \in Tasks, FillDone(t)
  PROVE  FillInv'
<1>1. task[t].pc = "done"
  BY DEF FillDone, At
<1>2. task'[t].pc = "idle" /\ \A u \in Tasks \ {t} : task'[u] = task[u]
  BY IdleTaskType DEF FillDone, TypeInv, TypeOK
<1>3. UNCHANGED <<row, opened, orphans>> /\ inflight' = inflight \ {task[t].order}
  BY DEF FillDone
<1>4. TasksInFlight' /\ OneTaskPerOrder'
  BY <1>1, <1>2, <1>3 DEF FillInv, TasksInFlight, OneTaskPerOrder, Busy
<1>5. LinkedHasEnded' /\ FillsUnlinked'
  BY <1>2, <1>3 DEF FillInv, LinkedHasEnded, FillsUnlinked
<1>6. \A o \in Orders : Recording(o)' <=> Recording(o)
  BY <1>1, <1>2 DEF Recording, At
<1>7. PositionsAccounted'
  BY <1>3, <1>6 DEF FillInv, PositionsAccounted
<1> QED
  BY <1>4, <1>5, <1>7 DEF FillInv

LEMMA CrashStep ==
  ASSUME TypeInv, FillInv, Crash
  PROVE  FillInv'
<1>1. \A t \in Tasks : task'[t].pc = "idle"
  BY IdleTaskType DEF Crash
<1>2. UNCHANGED <<row, opened>>
  BY DEF Crash, database
<1>3. TasksInFlight' /\ OneTaskPerOrder' /\ FillsUnlinked' /\ LinkedHasEnded'
  BY <1>1, <1>2 DEF FillInv, TasksInFlight, OneTaskPerOrder, FillsUnlinked, LinkedHasEnded, Busy
<1>4. \A o \in Orders : ~Recording(o)'
  BY <1>1 DEF Recording, At
<1>5. \A o \in Orders : Recording(o) => ~row[o].linked
  BY DEF Recording, At, FillInv, FillsUnlinked
<1>6. \A o \in Orders : orphans'[o] = orphans[o] + (IF Recording(o) THEN 1 ELSE 0)
  BY DEF Crash
<1>7. \A o \in Orders : orphans[o] \in Nat
  BY DEF TypeInv, TypeOK
<1>8. PositionsAccounted'
  BY <1>2, <1>4, <1>5, <1>6, <1>7 DEF FillInv, PositionsAccounted
<1> QED
  BY <1>3, <1>8 DEF FillInv

LEMMA FillStepInv ==
  ASSUME TypeInv, NewInv, FillInv, [Next]_vars
  PROVE  FillInv'
<1> DEFINE Fixed == UNCHANGED <<task, inflight, opened, orphans>>
<1>1. ASSUME NEW t \in Tasks, FillRecord(t) PROVE FillInv'
  BY <1>1, RecordStep
<1>2. CASE \E t \in Tasks : FillRecord(t)
  BY <1>1, <1>2
<1>3. CASE \A t \in Tasks : ~FillRecord(t)
  <2>0. \A o \in Orders : RowKept(o)
    BY <1>3, RowStep
  <2>1. ASSUME Fixed PROVE FillInv'
    BY <2>0, <2>1, QuietStep
  <2>2. ASSUME NEW o \in Orders,
               \/ PlaceInsert(o) \/ PlaceKill(o) \/ PlaceUpsert(o) \/ PlaceFire(o)
               \/ PlaceUnheard(o) \/ CancelUnheard(o) \/ TickUnheard(o)
               \/ CancelWrite(o) \/ CancelDrop(o) \/ FallDue(o)
               \/ TickExpire(o) \/ TickPass(o) \/ TickArm(o) \/ TickFire(o)
        PROVE  FillInv'
    <3>1. Fixed
      BY <2>2 DEF PlaceInsert, PlaceKill, PlaceUpsert, PlaceFire, CancelWrite, CancelDrop,
                  FallDue, TickExpire, TickPass, TickArm, TickFire,
                  PlaceUnheard, CancelUnheard, TickUnheard
    <3> QED
      BY <2>1, <3>1
  <2>3. ASSUME NEW e \in Editors,
               \/ EditWrite(e) \/ EditUnheard(e) \/ EditPatch(e)
               \/ \E o \in Orders : EditRead(e, o)
        PROVE  FillInv'
    <3>1. Fixed
      BY <2>3 DEF EditRead, EditWrite, EditUnheard, EditPatch
    <3> QED
      BY <2>1, <3>1
  <2>4. ASSUME \/ TickBegin \/ TickExpireDrop \/ TickArmPatch \/ TickAbort
               \/ Hydrate \/ UNCHANGED vars
        PROVE  FillInv'
    <3>1. Fixed
      BY <2>4 DEF TickBegin, TickExpireDrop, TickArmPatch, TickAbort, Hydrate, database, vars
    <3> QED
      BY <2>1, <3>1
  <2>5. ASSUME NEW o \in Orders, PlaceStart(o) \/ TickRestartFill(o) PROVE FillInv'
    <3>1. StartPendingFill(o) /\ UNCHANGED <<row, opened, orphans>>
      BY <2>5 DEF PlaceStart, TickRestartFill
    <3> QED
      BY <2>0, <3>1, StartStep
  <2>6. ASSUME TickFirePatch PROVE FillInv'
    <3>1. StartPendingFill(tick.order) /\ UNCHANGED <<row, opened, orphans>>
      BY <2>6 DEF TickFirePatch
    <3>2. tick.order \in Orders
      BY <2>6 DEF TickFirePatch, TypeInv, TickOK
    <3> QED
      BY <2>0, <3>1, <3>2, StartStep
  <2>7. ASSUME NEW t \in Tasks, FillRead(t) PROVE FillInv'
    <3> DEFINE w == [task[t] EXCEPT !.pc = "wait", !.terms = row[task[t].order].terms]
               d == [task[t] EXCEPT !.pc = "drop"]
    <3>1. task[t].pc = "read" /\ task[t].order \in Orders
      BY <2>7 DEF FillRead, At, TypeInv, TasksOK
    <3>2. row[task[t].order].terms \in TermsOrNone
      BY <3>1 DEF TypeInv, TypeOK, RowRecords
    <3>3. /\ w \in TaskRecords /\ w.pc = "wait" /\ w.order = task[t].order
          /\ d \in TaskRecords /\ d.pc = "drop" /\ d.order = task[t].order
      BY <3>2 DEF TypeInv, TypeOK, TaskRecords, TaskPcs
    <3>4. task' = [task EXCEPT ![t] = w] \/ task' = [task EXCEPT ![t] = d]
      BY <2>7 DEF FillRead
    <3>5. UNCHANGED <<inflight, opened, orphans>>
      BY <2>7 DEF FillRead
    <3> HIDE DEF w, d
    <3> QED
      BY <2>0, <3>1, <3>3, <3>4, <3>5, MoveStep
  <2>8. ASSUME NEW t \in Tasks,
               \/ FillRecheck(t) \/ FillRefuse(t) \/ FillError(t)
               \/ FillReject(t) \/ FillDrop(t)
        PROVE  FillInv'
    <3>1. task[t].pc \in {"read", "wait", "commit", "refuse", "drop"}
      BY <2>8 DEF FillRecheck, FillRefuse, FillError, FillReject, FillDrop, At
    <3>2. \E pc \in TaskPcs : /\ Goto(t, pc) \/ Forget(t, pc)
                              /\ pc \notin {"idle", "record"}
                              /\ pc = "commit" => row[task[t].order].status \in Working
      BY <2>8 DEF FillRecheck, FillRefuse, FillError, FillReject, FillDrop, TaskPcs
    <3>3. PICK pc \in TaskPcs : /\ Goto(t, pc) \/ Forget(t, pc)
                                /\ pc \notin {"idle", "record"}
                                /\ pc = "commit" => row[task[t].order].status \in Working
      BY <3>2
    <3> DEFINE g == [task[t] EXCEPT !.pc = pc]
               f == [task[t] EXCEPT !.pc = pc, !.terms = "none"]
    <3>4. /\ g \in TaskRecords /\ g.pc = pc /\ g.order = task[t].order
          /\ f \in TaskRecords /\ f.pc = pc /\ f.order = task[t].order
      <4>1. task[t] \in TaskRecords
        BY DEF TypeInv, TypeOK
      <4>2. g \in TaskRecords /\ g.pc = pc /\ g.order = task[t].order
        BY <4>1 DEF TaskRecords
      <4>3. f \in TaskRecords /\ f.pc = pc /\ f.order = task[t].order
        BY <4>1 DEF TaskRecords, TermsOrNone
      <4> QED
        BY <4>2, <4>3
    <3>5. task' = [task EXCEPT ![t] = g] \/ task' = [task EXCEPT ![t] = f]
      BY <3>3 DEF Goto, Forget
    <3>6. UNCHANGED <<inflight, opened, orphans>>
      BY <2>8 DEF FillRecheck, FillRefuse, FillError, FillReject, FillDrop
    <3>7. task[t].order \in Orders
      BY <3>1 DEF TypeInv, TasksOK
    <3>8. pc = "commit" => ~row[task[t].order].linked
      BY <3>3, <3>7 DEF FillInv, LinkedHasEnded, Working, Terminal
    <3> HIDE DEF g, f
    <3> QED
      BY <2>0, <3>1, <3>3, <3>4, <3>5, <3>6, <3>8, MoveStep
  <2>9. ASSUME NEW t \in Tasks, FillCommit(t) \/ FillCommitUnheard(t) \/ FillDone(t)
        PROVE  FillInv'
    BY <2>9, CommitStep, CommitUnheardStep, DoneStep
  <2>10. ASSUME Crash PROVE FillInv'
    BY <2>10, CrashStep
  <2> QED
    BY <1>3, <2>2, <2>3, <2>4, <2>5, <2>6, <2>7, <2>8, <2>9, <2>10
    DEF Next, PlaceStep, TickStep, FillStep
<1> QED
  BY <1>2, <1>3

\* The invariant the theorems below rest on.
Inv == TypeInv /\ NewInv /\ FillInv

LEMMA Invariance == Spec => []Inv
<1>1. Init => Inv
  BY InitType, InitNew, InitFill DEF Inv
<1>2. Inv /\ [Next]_vars => Inv'
  BY StepType, NewStep, FillStepInv DEF Inv
<1> QED
  BY <1>1, <1>2, PTL DEF Spec

\* A resting order is filled once, whatever its tasks, ticks, handlers and
\* crashes do, unless a commit lost its FILLED row: then once more for each.
THEOREM OneFill == Spec => []OneFillPerRecordedOrder
<1>1. Inv => OneFillPerRecordedOrder
  BY DEF Inv, TypeInv, TypeOK, FillInv, PositionsAccounted, OneFillPerRecordedOrder
<1> QED
  BY <1>1, Invariance, PTL

\* No step reopens an order that has ended.
THEOREM EndedStaysEnded == Spec => NeverReopened
<1> DEFINE Kept == \A o \in Orders : row[o].status \in Terminal => row'[o].status \in Terminal
<1>1. Inv /\ [Next]_vars => [Kept]_vars
  BY RowStep DEF Inv
<1> QED
  BY <1>1, Invariance, PTL DEF Spec, NeverReopened

\* The other tasks are left alone, and the one that starts has yet to look at
\* the row.
LEMMA StartCommitsNothing ==
  ASSUME Inv, NEW p, StartPendingFill(p)
  PROVE  \A t \in Tasks : task'[t] = task[t] \/ task'[t].pc = "read"
BY DEF Inv, TypeInv, TypeOK, StartPendingFill

LEMMA SettledStep ==
  ASSUME Inv, [Next]_vars, NEW o \in Orders, Settled(o)
  PROVE  Settled(o)' /\ opened'[o] = opened[o]
<1> DEFINE Calm == /\ opened'[o] = opened[o]
                   /\ \A t \in Tasks : ~(task'[t].pc = "commit" /\ task'[t].order = o)
<1> USE DEF Settled
<1>1. row'[o].status \in Terminal
  BY RowStep DEF Inv
<1>2. ASSUME UNCHANGED <<opened, task>> PROVE Calm
  BY <1>2
<1>3. ASSUME NEW p, StartPendingFill(p), UNCHANGED opened PROVE Calm
  BY <1>3, StartCommitsNothing
<1>4. ASSUME NEW t \in Tasks,
             FillCommit(t) \/ FillCommitUnheard(t)
      PROVE  Calm
  <2>1. At(t, "commit") /\ task[t].order # o /\ OpenPosition(t)
    BY <1>4 DEF FillCommit, FillCommitUnheard, At
  <2>2. opened'[o] = opened[o]
    BY <2>1 DEF OpenPosition, Inv, TypeInv, TypeOK
  <2>3. \A u \in Tasks : task'[u] = task[u] \/ task'[u].pc # "commit"
    BY <1>4 DEF FillCommit, FillCommitUnheard, Forget, Inv, TypeInv, TypeOK, TaskRecords
  <2> QED
    BY <2>2, <2>3
<1>5. ASSUME NEW t \in Tasks, FillRecheck(t) PROVE Calm
  <2>1. CASE row[task[t].order].status \in Working
    <3>1. task[t].order # o
      BY <2>1 DEF Working, Terminal
    <3>2. \A u \in Tasks : task'[u].order = task[u].order /\ (u # t => task'[u] = task[u])
      BY <1>5, <2>1 DEF FillRecheck, Goto, Inv, TypeInv, TypeOK, TaskRecords
    <3> QED
      BY <1>5, <3>1, <3>2 DEF FillRecheck
  <2>2. CASE row[task[t].order].status \notin Working
    <3>1. \A u \in Tasks : task'[u] = task[u] \/ task'[u].pc = "drop"
      BY <1>5, <2>2 DEF FillRecheck, Forget, Inv, TypeInv, TypeOK, TaskRecords
    <3> QED
      BY <1>5, <3>1 DEF FillRecheck
  <2> QED
    BY <2>1, <2>2
<1>6. ASSUME NEW t \in Tasks,
             \/ FillRead(t) \/ FillRefuse(t) \/ FillError(t) \/ FillRecord(t)
             \/ FillReject(t) \/ FillDrop(t) \/ FillDone(t)
      PROVE  Calm
  <2>1. \A u \in Tasks : task'[u] = task[u] \/ task'[u].pc # "commit"
    <3>1. task \in [Tasks -> TaskRecords]
      BY DEF Inv, TypeInv, TypeOK
    <3>2. CASE FillRead(t)
      BY <3>1, <3>2 DEF FillRead, TaskRecords
    <3>3. CASE \/ FillRefuse(t) \/ FillError(t) \/ FillRecord(t)
               \/ FillReject(t) \/ FillDrop(t)
      <4>1. \E pc \in {"refuse", "done", "drop"} : Goto(t, pc) \/ Forget(t, pc)
        BY <3>3 DEF FillRefuse, FillError, FillRecord, FillReject, FillDrop
      <4> QED
        BY <3>1, <4>1 DEF Goto, Forget, TaskRecords
    <3>4. CASE FillDone(t)
      BY <3>1, <3>4 DEF FillDone, IdleTask
    <3> QED
      BY <1>6, <3>2, <3>3, <3>4
  <2>2. opened' = opened
    BY <1>6 DEF FillRead, FillRefuse, FillError, FillRecord, FillReject, FillDrop, FillDone
  <2> QED
    BY <2>1, <2>2
<1>7. ASSUME Crash PROVE Calm
  BY <1>7 DEF Crash, IdleTask, database
<1>8. ASSUME NEW p \in Orders, PlaceStart(p) \/ TickRestartFill(p) PROVE Calm
  BY <1>3, <1>8 DEF PlaceStart, TickRestartFill
<1>9. ASSUME TickFirePatch PROVE Calm
  BY <1>3, <1>9 DEF TickFirePatch
<1>10. ASSUME NEW p \in Orders,
              \/ PlaceInsert(p) \/ PlaceKill(p) \/ PlaceUpsert(p) \/ PlaceFire(p)
              \/ PlaceUnheard(p) \/ CancelUnheard(p) \/ TickUnheard(p)
              \/ CancelWrite(p) \/ CancelDrop(p) \/ FallDue(p)
              \/ TickExpire(p) \/ TickPass(p) \/ TickArm(p) \/ TickFire(p)
       PROVE  UNCHANGED <<opened, task>>
  BY <1>10 DEF PlaceInsert, PlaceKill, PlaceUpsert, PlaceFire, CancelWrite, CancelDrop,
               FallDue, TickExpire, TickPass, TickArm, TickFire,
               PlaceUnheard, CancelUnheard, TickUnheard
<1>11. ASSUME NEW e \in Editors,
              \/ EditWrite(e) \/ EditUnheard(e) \/ EditPatch(e)
              \/ \E p \in Orders : EditRead(e, p)
       PROVE  UNCHANGED <<opened, task>>
  BY <1>11 DEF EditRead, EditWrite, EditUnheard, EditPatch
<1>12. ASSUME \/ TickBegin \/ TickExpireDrop \/ TickArmPatch \/ TickAbort
              \/ Hydrate \/ UNCHANGED vars
       PROVE  UNCHANGED <<opened, task>>
  BY <1>12 DEF TickBegin, TickExpireDrop, TickArmPatch, TickAbort, Hydrate, database, vars
<1> HIDE DEF Calm
<1>13. Calm
  BY <1>2, <1>4, <1>5, <1>6, <1>7, <1>8, <1>9, <1>10, <1>11, <1>12
  DEF Next, PlaceStep, TickStep, FillStep
<1> QED
  BY <1>1, <1>13 DEF Calm

\* An order that ended while no task was about to commit is never filled again.
THEOREM SettledStaysSettled == Spec => SettledForGood
<1> DEFINE Kept == \A o \in Orders : Settled(o) => Settled(o)' /\ opened'[o] = opened[o]
<1>1. Inv /\ [Next]_vars => [Kept]_vars
  BY SettledStep
<1> QED
  BY <1>1, Invariance, PTL DEF Spec, SettledForGood
=============================================================================
