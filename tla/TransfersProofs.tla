-------------------------- MODULE TransfersProofs ---------------------------
(***************************************************************************)
(* Theorems about Transfers, for any transfers, handlers, amounts, crashes *)
(* and calls that fail: that they implement TransferPromise, and that what *)
(* leaves the wallet or the commissions is covered by what is there.       *)
(***************************************************************************)
EXTENDS Transfers, SumProofs, TLAPS

USE TransfersAssumption

-----------------------------------------------------------------------------
(* The invariant                                                            *)

With(t) == {h \in Handlers : handler[h].t = t}

\* The rows of the user are locked by one handler at a time.
OneAtATime == \A h, g \in Handlers : HasRows(h) /\ HasRows(g) => h = g

\* What a handler may rely on: the status cannot change under its locks.
KnowsStatus ==
  \A h \in Handlers :
    LET s == status[handler[h].t] IN
    /\ handler[h].at # "idle" => s # "NONE"
    /\ handler[h].at = "instant" => s = "ASKED"
    /\ handler[h].at \in {"approve", "reject"} => s \in {"PENDING", "APPROVED", "REJECTED"}
    /\ HasRows(h) => s \in {"ASKED", "PENDING"}

\* The handler of a transfer that has no row is the only one.
FirstIsAlone ==
  \A h, g \in Handlers : handler[h].at = "instant" /\ handler[g].t = handler[h].t => h = g

\* What a handler of t owes at each of its steps; only one handler owes anything.
Shape(t) ==
  /\ awaiting[t] \subseteq Moves(t)
  /\ \A k \in {"out", "in"} : Reverse(k) \in refs[t] => k \in refs[t]
  /\ \A h \in With(t) :
       /\ Owes(h) \subseteq Moves(t) /\ ("in" \in Owes(h) => Owes(h) = Moves(t))
       /\ handler[h].at \notin {"credit", "reverse", "reverse late"} => handler[h].undo = {}
       /\ handler[h].at = "credit" => handler[h].undo = Moves(t) \cap {"out"}
       /\ handler[h].at \in {"save", "failed"} => awaiting[t] = Moves(t)
       /\ handler[h].at = "settle" => status[t] = "APPROVED"
       /\ \A g \in With(t) : Owes(h) # {} /\ Owes(g) # {} => h = g

\* What the gateway has moved is what an approved transfer moves, and otherwise what somebody
\* owes.
Account(t) ==
  IF status[t] = "APPROVED"
    THEN /\ Live(t) = Moves(t) /\ (Wallet \in {From[t], To[t]} => t \in booked)
         /\ \A h \in With(t) : Owes(h) = {}
    ELSE /\ t \notin booked
         /\ \A k \in {"out", "in"} : k \in Live(t) <=> \E h \in With(t) : k \in Owes(h)

Straight(t) == t \notin odd => Shape(t) /\ Account(t)

Rows == OneAtATime /\ KnowsStatus /\ FirstIsAlone

Inv == RecordsType /\ Rows /\ \A t \in TransferIds : Straight(t)

-----------------------------------------------------------------------------
(* The types                                                                *)

\* A record of a handler is what its fields say.
LEMMA RecordFields ==
  ASSUME NEW r \in Records
  PROVE  /\ r.at \in Ats /\ r.t \in TransferIds \cup {NoTransfer}
         /\ r.accts \in SUBSET Trading /\ r.undo \in SUBSET {"out", "in"}
BY DEF Records

\* What is written into a handler is a record of one.
LEMMA RecordIs ==
  ASSUME NEW at \in Ats, NEW t \in TransferIds \cup {NoTransfer}, NEW accts \in SUBSET Trading,
         NEW undo \in SUBSET {"out", "in"}
  PROVE  [at |-> at, t |-> t, accts |-> accts, undo |-> undo] \in Records
BY DEF Records

\* An idle handler is a record.
LEMMA IdleIs == Idle \in Records /\ Idle.at = "idle" /\ Idle.t = NoTransfer /\ Idle.undo = {}
BY DEF Idle, Records, Ats

\* A handler that goes on keeps its type.
LEMMA BecomesType ==
  ASSUME HandlerType, NEW h \in Handlers, handler[h].at # "idle", NEW at \in Ats \ {"idle"},
         NEW accts \in SUBSET Trading, NEW undo \in SUBSET {"out", "in"},
         Becomes(h, at, accts, undo)
  PROVE  HandlerType'
<1> DEFINE r == [at |-> at, t |-> handler[h].t, accts |-> accts, undo |-> undo]
<1>1. handler[h] \in Records /\ handler[h].t \in TransferIds
  BY RecordFields DEF HandlerType
<1>2. r \in Records /\ r.at # "idle" /\ r.t # NoTransfer
  BY <1>1, RecordIs
<1>3. handler' = [handler EXCEPT ![h] = r]
  BY DEF Becomes
<1> HIDE DEF r
<1> QED
  BY <1>2, <1>3 DEF HandlerType, Records

\* So does one that begins,
LEMMA BeginsType ==
  ASSUME HandlerType, NEW h \in Handlers, NEW at \in Ats \ {"idle"}, NEW t \in TransferIds,
         Begins(h, at, t)
  PROVE  HandlerType'
<1> DEFINE r == [at |-> at, t |-> t, accts |-> {}, undo |-> {}]
<1>2. r \in Records /\ r.at # "idle" /\ r.t # NoTransfer
  BY RecordIs
<1>3. handler' = [handler EXCEPT ![h] = r]
  BY DEF Begins
<1> HIDE DEF r
<1> QED
  BY <1>2, <1>3 DEF HandlerType, Records

\* and one that ends.
LEMMA DoneType ==
  ASSUME HandlerType, NEW h \in Handlers, Done(h)
  PROVE  HandlerType'
BY IdleIs DEF HandlerType, Done, Records

\* Every handler's steps keep the type of the handlers.
LEMMA HandlerTypeStep == RecordsType /\ [Next]_vars => HandlerType'
<1> SUFFICES ASSUME RecordsType, [Next]_vars PROVE HandlerType'
  OBVIOUS
<1>1. /\ HandlerType /\ active \in SUBSET Trading
      /\ awaiting \in [TransferIds -> SUBSET {"out", "in"}]
  BY DEF RecordsType
<1>2. \A h \in Handlers : /\ handler[h].accts \in SUBSET Trading
                          /\ handler[h].undo \in SUBSET {"out", "in"}
                          /\ handler[h].at \in Ats
                          /\ handler[h].at # "idle" => handler[h].t \in TransferIds
  BY <1>1, RecordFields DEF HandlerType
<1> DEFINE Goes(h) == \E at \in Ats \ {"idle"}, accts \in SUBSET Trading,
                        undo \in SUBSET {"out", "in"} :
                         handler[h].at # "idle" /\ Becomes(h, at, accts, undo)
<1>3. ASSUME NEW h \in Handlers, Goes(h) PROVE HandlerType'
  BY <1>1, <1>3, BecomesType
<1>4. ASSUME NEW t \in TransferIds, NEW h \in Handlers, Instant(h, t) \/ Decide(h, t)
      PROVE  HandlerType'
  BY <1>1, <1>4, BeginsType DEF Instant, Decide, Ats
<1> DEFINE Ended(h) == Done(h)
<1>5. ASSUME NEW h \in Handlers, Done(h) PROVE HandlerType'
  BY <1>1, <1>5, DoneType
<1>6. ASSUME NEW h \in Handlers, ApplyStep(h) PROVE Goes(h)
  <2> {"reverse", "credit", "save"} \subseteq Ats \ {"idle"}
    BY DEF Ats
  <2>1. CASE DebitInCrm(h)
    BY <1>2, <2>1 DEF DebitInCrm, Goto, GivesUp
  <2>2. CASE DebitAccount(h)
    BY <1>2, <2>2 DEF DebitAccount, Goto, GivesUp
  <2>3. CASE CreditInCrm(h)
    BY <1>2, <2>3 DEF CreditInCrm, Goto, GivesUp, Applied
  <2>4. CASE CreditAccount(h)
    BY <1>2, <2>4 DEF CreditAccount, Goto, GivesUp, Applied
  <2>5. CASE CreditBreaks(h)
    BY <1>2, <2>5 DEF CreditBreaks, Goto, GivesUp
  <2> QED
    BY <1>6, <2>1, <2>2, <2>3, <2>4, <2>5 DEF ApplyStep
<1>7. ASSUME NEW h \in Handlers, UndoStep(h) PROVE Goes(h) \/ Done(h)
  <2> {"reverse", "reverse late"} \subseteq Ats \ {"idle"}
    BY DEF Ats
  <2>1. CASE TakeMoves(h)
    BY <1>1, <1>2, <2>1 DEF TakeMoves
  <2>2. CASE PutBack(h)
    BY <1>2, <2>2 DEF PutBack, PutsBack
  <2> QED
    BY <1>7, <2>1, <2>2 DEF UndoStep, PutBackEnds
<1>8. ASSUME NEW h \in Handlers, SaveStep(h) PROVE Goes(h) \/ Done(h)
  <2> {"settle", "failed"} \subseteq Ats \ {"idle"}
    BY DEF Ats
  <2> QED
    BY <1>2, <1>8 DEF SaveStep, Save, SaveFails, SaveUnheard, Settle
<1>9. ASSUME NEW h \in Handlers, Lock(h) PROVE Goes(h) \/ Done(h)
  <2> "debit" \in Ats \ {"idle"}
    BY DEF Ats
  <2> QED
    BY <1>1, <1>2, <1>9 DEF Lock
<1>10. ASSUME Crash PROVE HandlerType'
  BY <1>1, <1>10, IdleIs DEF Crash, HandlerType, Records
<1>11. ASSUME UNCHANGED handler PROVE HandlerType'
  BY <1>1, <1>11 DEF HandlerType
<1> HIDE DEF Goes
<1>12. ASSUME NEW h \in Handlers,
              Reject(h) \/ Lock(h) \/ ApplyStep(h) \/ UndoStep(h) \/ SaveStep(h)
       PROVE  HandlerType'
  BY <1>3, <1>5, <1>6, <1>7, <1>8, <1>9, <1>12 DEF Reject
<1>13. CASE UNCHANGED vars
  BY <1>11, <1>13 DEF vars
<1>14. CASE Next
  BY <1>4, <1>10, <1>11, <1>12, <1>14 DEF Next, Submit, ServeLate, SwitchAccount
<1> QED
  BY <1>13, <1>14

\* The records of the CRM and of the gateway keep their types.
LEMMA RecordsTypeStep == RecordsType /\ [Next]_vars => RecordsType'
<1> SUFFICES ASSUME RecordsType, [Next]_vars PROVE RecordsType'
  OBVIOUS
<1>0. HandlerType'
  BY HandlerTypeStep
<1>1. \A h \in Handlers : /\ handler[h].undo \in SUBSET {"out", "in"}
                          /\ handler[h].at # "idle" => handler[h].t \in TransferIds
  BY RecordFields DEF RecordsType, HandlerType
<1> DEFINE Statuses == {"NONE", "ASKED", "PENDING", "APPROVED", "REJECTED"}
           CrmTypes == status \in [TransferIds -> Statuses] /\ booked \subseteq TransferIds
           GwTypes ==
             refs \in [TransferIds -> SUBSET Calls] /\ late \subseteq TransferIds \X Calls
           RestTypes == /\ active \subseteq Trading
                        /\ awaiting \in [TransferIds -> SUBSET {"out", "in"}]
                        /\ faults \in 0..MaxFaults /\ crashes \in 0..MaxCrashes
                        /\ switches \in 0..MaxSwitches /\ odd \subseteq TransferIds
<1>2. CrmTypes /\ GwTypes /\ RestTypes
  BY DEF RecordsType
<1>3. {"out", "in", "out back", "in back"} = Calls
  BY DEF Calls
<1>4. ASSUME NEW t \in TransferIds,
             Submit(t) \/ \E h \in Handlers : Instant(h, t) \/ Decide(h, t)
      PROVE  CrmTypes' /\ GwTypes' /\ RestTypes'
  BY <1>2, <1>4 DEF Submit, Instant, Decide, crm, gateway, spent
<1>5. ASSUME NEW h \in Handlers, Reject(h) \/ Lock(h)
      PROVE  CrmTypes' /\ GwTypes' /\ RestTypes'
  BY <1>1, <1>2, <1>5 DEF Reject, Lock, crm, gateway, spent
<1>6. ASSUME NEW t \in TransferIds, NEW k \in Calls,
             Serve(t, k) \/ TimeOut(t, k) \/ Refuse(t, k) \/ PutBackFails(t, k)
      PROVE  GwTypes' /\ faults' \in 0..MaxFaults /\ odd' \subseteq TransferIds
  <2>1. CASE Serve(t, k)
    BY <1>2, <2>1 DEF Serve
  <2>2. CASE TimeOut(t, k)
    BY <1>2, <2>2 DEF TimeOut, Fault
  <2>3. CASE Refuse(t, k)
    BY <1>2, <2>3 DEF Refuse, gateway
  <2>4. CASE PutBackFails(t, k)
    <3>1. odd' \subseteq TransferIds /\ refs' \in [TransferIds -> SUBSET Calls]
      BY <1>2, <2>4 DEF PutBackFails
    <3>4. UNCHANGED <<late, faults>> \/ (Fault /\ late' = late \cup {<<t, k>>})
      BY <2>4 DEF PutBackFails
    <3>2. faults' \in 0..MaxFaults
      BY <1>2, <3>4 DEF Fault
    <3>3. late' \subseteq TransferIds \X Calls
      BY <1>2, <3>4
    <3> QED
      BY <3>1, <3>2, <3>3
  <2> QED
    BY <1>6, <2>1, <2>2, <2>3, <2>4
<1>7. ASSUME NEW h \in Handlers, ApplyStep(h) PROVE CrmTypes' /\ GwTypes' /\ RestTypes'
  <2>1. ASSUME NEW moves \in SUBSET {"out", "in"}, Applied(h, moves),
               handler[h].t \in TransferIds
        PROVE  awaiting' \in [TransferIds -> SUBSET {"out", "in"}]
    BY <1>2, <2>1 DEF Applied
  <2>2. CASE DebitInCrm(h) \/ CreditBreaks(h)
    BY <1>2, <2>2 DEF DebitInCrm, CreditBreaks, Fault, crm, gateway, spent
  <2>3. CASE DebitAccount(h)
    BY <1>1, <1>2, <1>3, <1>6, <2>3 DEF DebitAccount, crm, gateway, spent
  <2>4. CASE CreditInCrm(h)
    BY <1>1, <1>2, <2>1, <2>4 DEF CreditInCrm, crm, gateway, spent
  <2>5. CASE CreditAccount(h)
    BY <1>1, <1>2, <1>3, <1>6, <2>1, <2>5 DEF CreditAccount, crm, gateway, spent
  <2> QED
    BY <1>7, <2>2, <2>3, <2>4, <2>5 DEF ApplyStep
<1>8. ASSUME NEW h \in Handlers, UndoStep(h) PROVE CrmTypes' /\ GwTypes' /\ RestTypes'
  <2>1. CASE TakeMoves(h) \/ PutBackEnds(h)
    BY <1>1, <1>2, <2>1 DEF TakeMoves, PutBackEnds, crm, gateway, spent
  <2>2. CASE PutBack(h)
    <3> DEFINE k == Reverse(Newest(handler[h].undo))
    <3>1. k \in Calls /\ handler[h].t \in TransferIds
      BY <1>1, <1>3, <2>2 DEF PutBack, PutsBack, Reverse, Newest
    <3>2. Serve(handler[h].t, k) \/ PutBackFails(handler[h].t, k)
      BY <2>2 DEF PutBack, PutsBack
    <3> HIDE DEF k
    <3> QED
      BY <1>2, <1>6, <2>2, <3>1, <3>2 DEF PutBack, PutsBack, crm
  <2> QED
    BY <1>8, <2>1, <2>2 DEF UndoStep
<1>9. ASSUME NEW h \in Handlers, SaveStep(h) PROVE CrmTypes' /\ GwTypes' /\ RestTypes'
  BY <1>1, <1>2, <1>9
     DEF SaveStep, Save, SaveFails, SaveUnheard, Settle, Record, Fault, crm, gateway, spent
<1>10. ASSUME NEW t \in TransferIds, NEW k \in Calls, ServeLate(t, k)
       PROVE  CrmTypes' /\ GwTypes' /\ RestTypes'
  BY <1>2, <1>10 DEF ServeLate, crm, spent
<1>11. ASSUME NEW a \in Trading, SwitchAccount(a) PROVE CrmTypes' /\ GwTypes' /\ RestTypes'
  BY <1>2, <1>11 DEF SwitchAccount, crm, gateway
<1>12. ASSUME Crash PROVE CrmTypes' /\ GwTypes' /\ RestTypes'
  BY <1>2, <1>12 DEF Crash, crm, gateway
<1>13. ASSUME UNCHANGED vars PROVE CrmTypes' /\ GwTypes' /\ RestTypes'
  BY <1>2, <1>13 DEF vars, crm, gateway, spent
<1> HIDE DEF CrmTypes, GwTypes, RestTypes
<1>14. ASSUME Next PROVE CrmTypes' /\ GwTypes' /\ RestTypes'
  BY <1>4, <1>5, <1>7, <1>8, <1>9, <1>10, <1>11, <1>12, <1>14 DEF Next
<1>15. CrmTypes' /\ GwTypes' /\ RestTypes'
  BY <1>13, <1>14
<1> QED
  BY <1>0, <1>15 DEF RecordsType, CrmTypes, GwTypes, RestTypes

-----------------------------------------------------------------------------
(* What a step does to the handlers                                         *)

\* A handler that goes on; the others stay.
LEMMA BecomesIs ==
  ASSUME HandlerType, NEW h \in Handlers, NEW at, NEW accts, NEW undo,
         Becomes(h, at, accts, undo)
  PROVE  /\ \A g \in Handlers : g # h => handler'[g] = handler[g]
         /\ handler'[h].at = at /\ handler'[h].t = handler[h].t
         /\ handler'[h].accts = accts /\ handler'[h].undo = undo
BY DEF HandlerType, Becomes

\* A handler that begins, or ends.
LEMMA BeginsIs ==
  ASSUME HandlerType, NEW h \in Handlers
  PROVE  /\ \A at, t : Begins(h, at, t) =>
              /\ \A g \in Handlers : g # h => handler'[g] = handler[g]
              /\ handler'[h].at = at /\ handler'[h].t = t /\ handler'[h].undo = {}
         /\ Done(h) =>
              /\ \A g \in Handlers : g # h => handler'[g] = handler[g]
              /\ handler'[h] = Idle
BY DEF HandlerType, Begins, Done

\* What a handler owes, before and after a step.
LEMMA OwesIs ==
  /\ \A h \in Handlers : Owes(h) = IF handler[h].at \in {"save", "failed"}
                                    THEN awaiting[handler[h].t] ELSE handler[h].undo
  /\ \A h \in Handlers : Owes(h)' = IF handler'[h].at \in {"save", "failed"}
                                     THEN awaiting'[handler'[h].t] ELSE handler'[h].undo
BY DEF Owes

\* A handler of t that owes nothing.
Neutral(t, r) ==
  /\ r.undo = {} /\ r.at \notin {"save", "failed", "settle"}
  /\ r.at = "credit" => "out" \notin Moves(t)

\* A handler that goes on and owes what it owed.
StillOwes(g) ==
  /\ handler'[g].t = handler[g].t /\ Owes(g)' = Owes(g)
  /\ handler'[g].at \in {"failed", "reverse", "reverse late"}
  /\ handler'[g].at = "failed" => handler[g].at = "save" /\ handler'[g].undo = {}

\* What Shape says of one handler.
ShapeOf(t, h) ==
  /\ Owes(h) \subseteq Moves(t) /\ ("in" \in Owes(h) => Owes(h) = Moves(t))
  /\ handler[h].at \notin {"credit", "reverse", "reverse late"} => handler[h].undo = {}
  /\ handler[h].at = "credit" => handler[h].undo = Moves(t) \cap {"out"}
  /\ handler[h].at \in {"save", "failed"} => awaiting[t] = Moves(t)
  /\ handler[h].at = "settle" => status[t] = "APPROVED"

\* Shape, handler by handler.
LEMMA ShapeIs ==
  ASSUME NEW t \in TransferIds
  PROVE  /\ Shape(t) <=>
              /\ awaiting[t] \subseteq Moves(t)
              /\ \A k \in {"out", "in"} : Reverse(k) \in refs[t] => k \in refs[t]
              /\ \A h \in Handlers : handler[h].t = t => ShapeOf(t, h)
              /\ \A h, g \in Handlers :
                   handler[h].t = t /\ handler[g].t = t /\ Owes(h) # {} /\ Owes(g) # {} => h = g
         /\ Shape(t)' <=>
              /\ awaiting'[t] \subseteq Moves(t)
              /\ \A k \in {"out", "in"} : Reverse(k) \in refs'[t] => k \in refs'[t]
              /\ \A h \in Handlers : handler'[h].t = t => ShapeOf(t, h)'
              /\ \A h, g \in Handlers :
                   handler'[h].t = t /\ handler'[g].t = t /\ Owes(h)' # {} /\ Owes(g)' # {}
                     => h = g
<1>1. Moves(t)' = Moves(t)
  BY DEF Moves
<1> QED
  BY <1>1, Zenon DEF Shape, ShapeOf, With

\* ShapeOf after a step.
LEMMA ShapeOfIs ==
  ASSUME NEW t \in TransferIds, NEW h \in Handlers
  PROVE  ShapeOf(t, h)' <=>
           /\ Owes(h)' \subseteq Moves(t) /\ ("in" \in Owes(h)' => Owes(h)' = Moves(t))
           /\ handler'[h].at \notin {"credit", "reverse", "reverse late"}
                => handler'[h].undo = {}
           /\ handler'[h].at = "credit" => handler'[h].undo = Moves(t) \cap {"out"}
           /\ handler'[h].at \in {"save", "failed"} => awaiting'[t] = Moves(t)
           /\ handler'[h].at = "settle" => status'[t] = "APPROVED"
<1>1. Moves(t)' = Moves(t)
  BY DEF Moves
<1> QED
  BY <1>1, Zenon DEF ShapeOf

\* Account, before and after a step.
LEMMA AccountIs ==
  ASSUME NEW t \in TransferIds
  PROVE  /\ status[t] = "APPROVED" =>
              (Account(t) <=>
                 /\ Live(t) = Moves(t) /\ (Wallet \in {From[t], To[t]} => t \in booked)
                 /\ \A h \in Handlers : handler[h].t = t => Owes(h) = {})
         /\ status[t] # "APPROVED" =>
              (Account(t) <=>
                 /\ t \notin booked
                 /\ \A k \in {"out", "in"} :
                      k \in Live(t) <=> \E h \in Handlers : handler[h].t = t /\ k \in Owes(h))
         /\ status'[t] = "APPROVED" =>
              (Account(t)' <=>
                 /\ Live(t)' = Moves(t) /\ (Wallet \in {From[t], To[t]} => t \in booked')
                 /\ \A h \in Handlers : handler'[h].t = t => Owes(h)' = {})
         /\ status'[t] # "APPROVED" =>
              (Account(t)' <=>
                 /\ t \notin booked'
                 /\ \A k \in {"out", "in"} :
                      k \in Live(t)' <=>
                        \E h \in Handlers : handler'[h].t = t /\ k \in Owes(h)')
<1>1. Moves(t)' = Moves(t)
  BY DEF Moves
<1> QED
  BY <1>1, Zenon DEF Account, With

\* A step that leaves the rows, the references and the moves of t alone, and the handlers too,
\* but for those that go on owing what they owed, or owe nothing before and after.
LEMMA Untouched ==
  ASSUME RecordsType, NEW t \in TransferIds, Shape(t), Account(t),
         (status'[t] = "APPROVED") <=> (status[t] = "APPROVED"),
         refs'[t] = refs[t], awaiting'[t] = awaiting[t], t \in booked' <=> t \in booked,
         \A g \in Handlers : \/ handler'[g] = handler[g]
                             \/ handler[g].t = t /\ StillOwes(g)
                             \/ /\ handler[g].t = t => Owes(g) = {}
                                /\ handler'[g].t = t => Neutral(t, handler'[g])
  PROVE  Shape(t)' /\ Account(t)'
<1>1. ASSUME NEW g \in Handlers, handler'[g].t = t
      PROVE  /\ ShapeOf(t, g)'
             /\ Owes(g)' # {} => handler[g].t = t /\ Owes(g)' = Owes(g)
  <2>1. handler[g].t = t => ShapeOf(t, g)
    BY ShapeIs
  <2>2. CASE handler'[g] = handler[g]
    <3>1. handler[g].t = t /\ Owes(g)' = Owes(g)
      BY <1>1, <2>2, OwesIs
    <3>2. ShapeOf(t, g)
      BY <2>1, <3>1
    <3>3. /\ Owes(g) \subseteq Moves(t) /\ ("in" \in Owes(g) => Owes(g) = Moves(t))
          /\ handler[g].at \notin {"credit", "reverse", "reverse late"} => handler[g].undo = {}
          /\ handler[g].at = "credit" => handler[g].undo = Moves(t) \cap {"out"}
          /\ handler[g].at \in {"save", "failed"} => awaiting[t] = Moves(t)
          /\ handler[g].at = "settle" => status[t] = "APPROVED"
      BY <3>2, Zenon DEF ShapeOf
    <3>4. handler'[g].at = handler[g].at /\ handler'[g].undo = handler[g].undo
      BY <2>2
    <3>5. /\ Owes(g)' \subseteq Moves(t) /\ ("in" \in Owes(g)' => Owes(g)' = Moves(t))
          /\ handler'[g].at \notin {"credit", "reverse", "reverse late"} => handler'[g].undo = {}
          /\ handler'[g].at = "credit" => handler'[g].undo = Moves(t) \cap {"out"}
      BY <3>1, <3>3, <3>4
    <3>6. /\ handler'[g].at \in {"save", "failed"} => awaiting'[t] = Moves(t)
          /\ handler'[g].at = "settle" => status'[t] = "APPROVED"
      BY <3>3, <3>4
    <3>7. ShapeOf(t, g)'
      BY <3>5, <3>6, ShapeOfIs
    <3> QED
      BY <3>1, <3>7
  <2>3. CASE handler[g].t = t /\ StillOwes(g)
    <3>1. /\ Owes(g)' = Owes(g) /\ handler'[g].at \in {"failed", "reverse", "reverse late"}
          /\ handler'[g].at = "failed" => handler[g].at = "save" /\ handler'[g].undo = {}
      BY <2>3 DEF StillOwes
    <3>2. /\ Owes(g) \subseteq Moves(t) /\ ("in" \in Owes(g) => Owes(g) = Moves(t))
          /\ handler[g].at \in {"save", "failed"} => awaiting[t] = Moves(t)
      BY <2>1, <2>3 DEF ShapeOf
    <3>3. handler[g].t = t
      BY <2>3
    <3>4. ShapeOf(t, g)'
      BY <3>1, <3>2, ShapeOfIs
    <3> QED
      BY <3>1, <3>3, <3>4
  <2>4. CASE Neutral(t, handler'[g])
    <3>1. Owes(g)' = {} /\ handler'[g].undo = {}
      BY <2>4, OwesIs DEF Neutral
    <3>2. handler'[g].at = "credit" => Moves(t) \cap {"out"} = {}
      BY <2>4 DEF Neutral
    <3>3. handler'[g].at \notin {"save", "failed", "settle"}
      BY <2>4 DEF Neutral
    <3>4. ShapeOf(t, g)'
      BY <3>1, <3>2, <3>3, ShapeOfIs
    <3> QED
      BY <3>1, <3>4
  <2> QED
    BY <1>1, <2>2, <2>3, <2>4
<1>2. ASSUME NEW g \in Handlers, handler[g].t = t, Owes(g) # {}
      PROVE  handler'[g].t = t /\ Owes(g)' = Owes(g)
  <2>1. CASE handler'[g] = handler[g]
    BY <1>2, <2>1, OwesIs
  <2>2. CASE StillOwes(g)
    BY <1>2, <2>2 DEF StillOwes
  <2> QED
    BY <1>2, <2>1, <2>2
<1>3. Live(t)' = Live(t)
  BY DEF Live
<1>4. Shape(t)'
  BY <1>1, ShapeIs
<1>5. Account(t)'
  <2>1. \A k, g : g \in Handlers /\ handler'[g].t = t /\ k \in Owes(g)'
                    => handler[g].t = t /\ k \in Owes(g)
    BY <1>1
  <2>2. \A k, g : g \in Handlers /\ handler[g].t = t /\ k \in Owes(g)
                    => handler'[g].t = t /\ k \in Owes(g)'
    BY <1>2
  <2>3. CASE status[t] = "APPROVED"
    BY <1>1, <1>3, <2>3, AccountIs
  <2>4. CASE status[t] # "APPROVED"
    <3>1. /\ t \notin booked /\ status'[t] # "APPROVED"
          /\ \A k \in {"out", "in"} :
               k \in Live(t) <=> \E f \in Handlers : handler[f].t = t /\ k \in Owes(f)
      BY <2>4, AccountIs
    <3>2. \A k \in {"out", "in"} :
            k \in Live(t)' <=> \E f \in Handlers : handler'[f].t = t /\ k \in Owes(f)'
      BY <1>3, <2>1, <2>2, <3>1
    <3> QED
      BY <3>1, <3>2, AccountIs
  <2> QED
    BY <2>3, <2>4
<1> QED
  BY <1>4, <1>5

\* A step in which a handler h of t changes what it owes, and nobody else owes anything.
LEMMA Owns ==
  ASSUME RecordsType, NEW t \in TransferIds, Shape(t), NEW h \in Handlers,
         handler[h].t = t, handler'[h].t = t,
         \A g \in Handlers : g # h => handler'[g] = handler[g],
         \A g \in Handlers : g # h /\ handler[g].t = t =>
           /\ Owes(g) = {} /\ handler[g].at \notin {"save", "settle"}
           /\ handler[g].at = "failed" => awaiting'[t] = awaiting[t],
         status'[t] # "APPROVED", t \notin booked', awaiting'[t] \subseteq Moves(t),
         \A k \in {"out", "in"} :
           /\ Reverse(k) \in refs'[t] => k \in refs'[t]
           /\ k \in Live(t)' <=> k \in Owes(h)',
         ShapeOf(t, h)'
  PROVE  Shape(t)' /\ Account(t)'
<1>1. ASSUME NEW g \in Handlers, g # h, handler'[g].t = t
      PROVE  Owes(g)' = {} /\ ShapeOf(t, g)'
  <2>1. handler'[g] = handler[g] /\ ShapeOf(t, g) /\ Owes(g) = {}
    BY <1>1, ShapeIs
  <2>2. Owes(g)' = {}
    BY <1>1, <2>1, OwesIs
  <2> QED
    BY <1>1, <2>1, <2>2, ShapeOfIs DEF ShapeOf
<1>2. Shape(t)'
  BY <1>1, ShapeIs
<1>3. \A k \in {"out", "in"} :
        k \in Live(t)' <=> \E g \in Handlers : handler'[g].t = t /\ k \in Owes(g)'
  BY <1>1
<1> QED
  BY <1>2, <1>3, AccountIs

\* An approved transfer of which a handler ends.
LEMMA Approved ==
  ASSUME RecordsType, NEW t \in TransferIds, Shape(t), Account(t),
         status[t] = "APPROVED", status'[t] = "APPROVED", refs'[t] = refs[t],
         t \in booked' <=> t \in booked, awaiting'[t] \in {awaiting[t], {}},
         \A g \in Handlers : /\ handler'[g] = handler[g] \/ handler'[g].t # t
                             /\ handler[g].t = t => handler[g].at # "save"
  PROVE  Shape(t)' /\ Account(t)'
<1>1. ASSUME NEW g \in Handlers, handler'[g].t = t
      PROVE  Owes(g)' = {} /\ ShapeOf(t, g)'
  <2>1. handler'[g] = handler[g] /\ ShapeOf(t, g) /\ Owes(g) = {} /\ handler[g].at # "save"
    BY <1>1, ShapeIs, AccountIs
  <2>2. Owes(g)' = {}
    BY <1>1, <2>1, OwesIs
  <2>3. handler[g].at = "failed" => awaiting'[t] = Moves(t)
    <3>1. handler[g].at = "failed" => awaiting[t] = Moves(t) /\ Owes(g) = awaiting[t]
      BY <1>1, <2>1, OwesIs DEF ShapeOf
    <3> QED
      BY <2>1, <3>1
  <2> QED
    <3>1. /\ handler[g].at \notin {"credit", "reverse", "reverse late"}
               => handler[g].undo = {}
          /\ handler[g].at = "credit" => handler[g].undo = Moves(t) \cap {"out"}
      BY <2>1 DEF ShapeOf
    <3> QED
      BY <2>1, <2>2, <2>3, <3>1, ShapeOfIs
<1>2. Shape(t)'
  BY <1>1, ShapeIs
<1>3. Live(t)' = Live(t)
  BY DEF Live
<1> QED
  BY <1>1, <1>2, <1>3, AccountIs

-----------------------------------------------------------------------------
(* The steps keep every transfer straight                                   *)

\* What has gone astray stays so.
LEMMA OddGrows == [Next]_vars => odd \subseteq odd'
<1> SUFFICES ASSUME [Next]_vars PROVE odd \subseteq odd'
  OBVIOUS
<1>1. ASSUME NEW t, NEW k, Serve(t, k) \/ TimeOut(t, k) \/ Refuse(t, k) \/ PutBackFails(t, k)
      PROVE  odd \subseteq odd'
  BY <1>1 DEF Serve, TimeOut, Refuse, PutBackFails
<1>2. ASSUME NEW h \in Handlers, ApplyStep(h) PROVE odd \subseteq odd'
  BY <1>1, <1>2
     DEF ApplyStep, DebitInCrm, DebitAccount, CreditInCrm, CreditAccount, CreditBreaks
<1>3. ASSUME NEW h \in Handlers, UndoStep(h) PROVE odd \subseteq odd'
  BY <1>1, <1>3 DEF UndoStep, TakeMoves, PutBack, PutsBack, PutBackEnds
<1>4. ASSUME NEW h \in Handlers, SaveStep(h) PROVE odd \subseteq odd'
  BY <1>4 DEF SaveStep, Save, SaveFails, SaveUnheard, Settle
<1>5. ASSUME NEW h \in Handlers, Reject(h) \/ Lock(h) PROVE odd \subseteq odd'
  BY <1>5 DEF Reject, Lock
<1>6. ASSUME NEW t \in TransferIds, Submit(t) \/ \E h \in Handlers : Instant(h, t) \/ Decide(h, t)
      PROVE  odd \subseteq odd'
  BY <1>6 DEF Submit, Instant, Decide
<1>7. ASSUME NEW t \in TransferIds, NEW k \in Calls, ServeLate(t, k) PROVE odd \subseteq odd'
  BY <1>7 DEF ServeLate
<1>8. ASSUME Crash PROVE odd \subseteq odd'
  BY <1>8 DEF Crash
<1>9. ASSUME NEW a \in Trading, SwitchAccount(a) PROVE odd \subseteq odd'
  BY <1>9 DEF SwitchAccount
<1>10. CASE UNCHANGED vars
  BY <1>10 DEF vars
<1>11. CASE Next
  BY <1>2, <1>3, <1>4, <1>5, <1>6, <1>7, <1>8, <1>9, <1>11 DEF Next
<1> QED
  BY <1>10, <1>11

\* A step of a handler concerns its own transfer alone.
LEMMA OwnTransfer ==
  ASSUME Inv, NEW h \in Handlers, NEW u \in TransferIds, handler[h].t = u,
         \A g \in Handlers : g # h => handler'[g] = handler[g],
         handler'[h].t \in {u, NoTransfer}, odd \subseteq odd',
         \A t \in TransferIds : t # u =>
           /\ status'[t] = status[t] /\ refs'[t] = refs[t] /\ awaiting'[t] = awaiting[t]
           /\ t \in booked' <=> t \in booked,
         u \notin odd' /\ Shape(u) /\ Account(u) => Shape(u)' /\ Account(u)'
  PROVE  \A t \in TransferIds : Straight(t)'
<1>1. ASSUME NEW t \in TransferIds, t # u, t \notin odd'
      PROVE  Shape(t)' /\ Account(t)'
  <2>1. Shape(t) /\ Account(t) /\ RecordsType
    BY <1>1 DEF Inv, Straight
  <2>2. handler[h].t # t /\ handler'[h].t # t
    BY <1>1
  <2>3. \A g \in Handlers : \/ handler'[g] = handler[g]
                            \/ handler[g].t = t /\ StillOwes(g)
                            \/ /\ handler[g].t = t => Owes(g) = {}
                               /\ handler'[g].t = t => Neutral(t, handler'[g])
    BY <2>2
  <2>4. /\ status'[t] = status[t] /\ refs'[t] = refs[t] /\ awaiting'[t] = awaiting[t]
        /\ t \in booked' <=> t \in booked
    BY <1>1
  <2> QED
    BY <2>1, <2>3, <2>4, Untouched
<1>2. u \notin odd' => Shape(u)' /\ Account(u)'
  BY DEF Inv, Straight
<1> QED
  BY <1>1, <1>2 DEF Straight

\* A handler whose record is h goes on or ends, and nothing else of its transfer is touched.
LEMMA OwnUntouched ==
  ASSUME Inv, NEW h \in Handlers, NEW u \in TransferIds, handler[h].t = u, odd \subseteq odd',
         \A g \in Handlers : g # h => handler'[g] = handler[g],
         handler'[h].t \in {u, NoTransfer},
         status' = status, refs' = refs, awaiting' = awaiting, booked' = booked,
         Shape(u) => \/ StillOwes(h)
                     \/ Owes(h) = {} /\ (handler'[h].t = u => Neutral(u, handler'[h]))
  PROVE  \A t \in TransferIds : Straight(t)'
<1>1. ASSUME Shape(u), Account(u) PROVE Shape(u)' /\ Account(u)'
  <2>1. \A g \in Handlers : \/ handler'[g] = handler[g]
                            \/ handler[g].t = u /\ StillOwes(g)
                            \/ /\ handler[g].t = u => Owes(g) = {}
                               /\ handler'[g].t = u => Neutral(u, handler'[g])
    BY <1>1
  <2> QED
    BY <1>1, <2>1, Untouched DEF Inv
<1> QED
  BY <1>1, OwnTransfer

\* What a handler knows of itself from Shape.
LEMMA OwnShape ==
  ASSUME NEW t \in TransferIds, Shape(t), NEW h \in Handlers, handler[h].t = t
  PROVE  /\ ShapeOf(t, h)
         /\ handler[h].at \notin {"credit", "save", "reverse", "failed", "reverse late"}
              => Owes(h) = {}
<1>1. ShapeOf(t, h)
  BY ShapeIs
<1>2. handler[h].at \notin {"credit", "reverse", "reverse late"} => handler[h].undo = {}
  BY <1>1 DEF ShapeOf
<1> QED
  BY <1>1, <1>2, OwesIs

\* The requests begin with nothing owed.
LEMMA AskSteps ==
  ASSUME Inv, NEW u \in TransferIds,
         Submit(u) \/ \E h \in Handlers : Instant(h, u) \/ Decide(h, u)
  PROVE  \A t \in TransferIds : Straight(t)'
<1>1. /\ HandlerType
      /\ status \in [TransferIds -> {"NONE", "ASKED", "PENDING", "APPROVED", "REJECTED"}]
  BY DEF Inv, RecordsType
<1>2. /\ odd' = odd /\ refs' = refs /\ awaiting' = awaiting /\ booked' = booked
      /\ \A t \in TransferIds : status'[t] = "APPROVED" <=> status[t] = "APPROVED"
  BY <1>1 DEF Submit, Instant, Decide, Asked, crm, gateway
<1>3. \A g \in Handlers : \/ handler'[g] = handler[g]
                          \/ /\ handler[g].t = NoTransfer /\ handler'[g].undo = {}
                             /\ handler'[g].at \in {"instant", "approve", "reject"}
  <2>1. CASE Submit(u)
    BY <2>1 DEF Submit
  <2>2. ASSUME NEW h \in Handlers, Instant(h, u) \/ Decide(h, u)
        PROVE  \A g \in Handlers : \/ handler'[g] = handler[g]
                          \/ /\ handler[g].t = NoTransfer /\ handler'[g].undo = {}
                             /\ handler'[g].at \in {"instant", "approve", "reject"}
    <3>1. handler[h].t = NoTransfer
      BY <2>2, IdleIs DEF Instant, Decide
    <3>2. \E at \in {"instant", "approve", "reject"} : Begins(h, at, u)
      BY <2>2 DEF Instant, Decide
    <3> QED
      BY <1>1, <3>1, <3>2, BeginsIs
  <2> QED
    BY <2>1, <2>2
<1>4. ASSUME NEW t \in TransferIds, t \notin odd' PROVE Shape(t)' /\ Account(t)'
  <2>1. RecordsType /\ Shape(t) /\ Account(t)
    BY <1>2, <1>4 DEF Inv, Straight
  <2>2. \A g \in Handlers : \/ handler'[g] = handler[g]
                            \/ handler[g].t = t /\ StillOwes(g)
                            \/ /\ handler[g].t = t => Owes(g) = {}
                               /\ handler'[g].t = t => Neutral(t, handler'[g])
    BY <1>3 DEF Neutral
  <2> QED
    BY <1>2, <2>1, <2>2, Untouched
<1> QED
  BY <1>4 DEF Straight

\* The answer of an administrator who rejects, and the locks.
LEMMA RowSteps ==
  ASSUME Inv, NEW h \in Handlers, Reject(h) \/ Lock(h), odd \subseteq odd'
  PROVE  \A t \in TransferIds : Straight(t)'
<1>1. /\ HandlerType
      /\ status \in [TransferIds -> {"NONE", "ASKED", "PENDING", "APPROVED", "REJECTED"}]
  BY DEF Inv, RecordsType
<1>2. /\ handler[h].t \in TransferIds /\ handler[h].t # NoTransfer
      /\ handler[h].at \in {"reject", "approve", "instant"}
  BY <1>1, RecordFields DEF Reject, Lock, HandlerType
<1> PICK u \in TransferIds : u = handler[h].t
  BY <1>2
<1>3. /\ \A g \in Handlers : g # h => handler'[g] = handler[g]
      /\ \/ handler'[h].t = NoTransfer
         \/ handler'[h].t = u /\ handler'[h].at = "debit" /\ handler'[h].undo = {}
  BY <1>1, BecomesIs, BeginsIs, IdleIs DEF Reject, Lock
<1>4. refs' = refs /\ awaiting' = awaiting /\ booked' = booked
  BY DEF Reject, Lock, crm, gateway
<1>5. /\ \A t \in TransferIds : t # u => status'[t] = status[t]
      /\ u \in odd' \/ (status'[u] = "APPROVED" <=> status[u] = "APPROVED")
  BY <1>1, <1>2 DEF Reject, Lock, crm
<1>6. ASSUME u \notin odd', Shape(u), Account(u) PROVE Shape(u)' /\ Account(u)'
  <2>1. Owes(h) = {}
    BY <1>2, <1>6, OwnShape
  <2>2. \A g \in Handlers : \/ handler'[g] = handler[g]
                            \/ handler[g].t = u /\ StillOwes(g)
                            \/ /\ handler[g].t = u => Owes(g) = {}
                               /\ handler'[g].t = u => Neutral(u, handler'[g])
    BY <1>2, <1>3, <2>1 DEF Neutral
  <2>3. (status'[u] = "APPROVED") <=> (status[u] = "APPROVED")
    BY <1>5, <1>6
  <2>4. RecordsType
    BY DEF Inv
  <2> QED
    BY <1>2, <1>4, <1>6, <2>2, <2>3, <2>4, Untouched
<1>7. handler[h].t = u
  OBVIOUS
<1>8. handler'[h].t \in {u, NoTransfer}
  BY <1>3
<1>9. \A t \in TransferIds : t # u =>
        /\ status'[t] = status[t] /\ refs'[t] = refs[t] /\ awaiting'[t] = awaiting[t]
        /\ t \in booked' <=> t \in booked
  BY <1>4, <1>5
<1> QED
  BY <1>2, <1>3, <1>6, <1>7, <1>8, <1>9, OwnTransfer

\* A handler that is not idle has a transfer.
LEMMA HasTransfer ==
  ASSUME Inv, NEW h \in Handlers, handler[h].at # "idle"
  PROVE  handler[h].t \in TransferIds /\ handler[h].t # NoTransfer
BY RecordFields DEF Inv, RecordsType, HandlerType

\* While a handler has the rows its transfer is not approved, and no other handler is saving or
\* has saved it.
LEMMA RowsHeld ==
  ASSUME Inv, NEW u \in TransferIds, NEW h \in Handlers, handler[h].t = u, HasRows(h),
         Shape(u), Account(u)
  PROVE  /\ status[u] # "APPROVED" /\ u \notin booked
         /\ \A k \in {"out", "in"} :
              k \in Live(u) <=> \E g \in Handlers : handler[g].t = u /\ k \in Owes(g)
         /\ \A g \in Handlers : g # h /\ handler[g].t = u =>
                 handler[g].at \notin {"save", "settle"}
<1>1. status[u] # "APPROVED"
  BY DEF Inv, Rows, KnowsStatus
<1>2. \A g \in Handlers : handler[g].at = "save" => HasRows(g)
  BY DEF HasRows
<1>3. \A g \in Handlers : handler[g].t = u => ShapeOf(u, g)
  BY ShapeIs
<1>4. /\ u \notin booked
      /\ \A k \in {"out", "in"} :
           k \in Live(u) <=> \E g \in Handlers : handler[g].t = u /\ k \in Owes(g)
  BY <1>1, AccountIs
<1>5. ASSUME NEW g \in Handlers, g # h, handler[g].t = u
      PROVE  handler[g].at \notin {"save", "settle"}
  <2>1. handler[g].at # "save"
    BY <1>2, <1>5 DEF Inv, Rows, OneAtATime
  <2>2. handler[g].at = "settle" => status[u] = "APPROVED"
    BY <1>3, <1>5 DEF ShapeOf
  <2> QED
    BY <1>1, <2>1, <2>2
<1> QED
  BY <1>1, <1>4, <1>5

\* Whoever owes anything owes what its transfer moves first.
LEMMA OwesFirst ==
  ASSUME NEW u \in TransferIds, NEW g \in Handlers, handler[g].t = u, Shape(u), Owes(g) # {}
  PROVE  \/ "out" \in Owes(g)
         \/ "out" \notin Moves(u) /\ "in" \in Owes(g)
<1>1. Owes(g) \subseteq Moves(u) /\ ("in" \in Owes(g) => Owes(g) = Moves(u))
  BY ShapeIs DEF ShapeOf
<1>2. Moves(u) \subseteq {"out", "in"}
  BY DEF Moves
<1> QED
  BY <1>1, <1>2

\* What the gateway does with a call whose reference is new to it.
LEMMA ServeIs ==
  ASSUME RecordsType, NEW u \in TransferIds, NEW k \in Calls, Serve(u, k), u \notin odd'
  PROVE  /\ k \notin refs[u] /\ refs'[u] = refs[u] \cup {k} /\ odd' = odd
         /\ \A t \in TransferIds : t # u => refs'[t] = refs[t]
BY DEF Serve, RecordsType

\* It writes down the reference of no other transfer.
LEMMA ServeOthers ==
  ASSUME RecordsType, NEW u \in TransferIds, NEW k \in Calls, Serve(u, k)
  PROVE  \A t \in TransferIds : t # u => refs'[t] = refs[t]
BY DEF Serve, RecordsType

\* A debit that the CRM decides on.
LEMMA DebitInCrmStep ==
  ASSUME Inv, NEW h \in Handlers, DebitInCrm(h), odd \subseteq odd'
  PROVE  \A t \in TransferIds : Straight(t)'
<1>1. HandlerType
  BY DEF Inv, RecordsType
<1> PICK u \in TransferIds : handler[h].t = u
  BY HasTransfer DEF DebitInCrm
<1>2. /\ status' = status /\ refs' = refs /\ awaiting' = awaiting /\ booked' = booked
      /\ handler[h].at = "debit"
  BY DEF DebitInCrm, crm, gateway
<1>3. \/ Becomes(h, "credit", handler[h].accts, handler[h].undo) /\ From[u] \in {Wallet, IbWallet}
      \/ Becomes(h, "reverse", handler[h].accts, handler[h].undo)
  BY DEF DebitInCrm, Goto, GivesUp
<1>4. From[u] \in {Wallet, IbWallet} => "out" \notin Moves(u)
  BY DEF Moves
<1>5. /\ \A g \in Handlers : g # h => handler'[g] = handler[g]
      /\ handler'[h].t = u /\ handler'[h].undo = handler[h].undo
      /\ \/ handler'[h].at = "credit" /\ "out" \notin Moves(u)
         \/ handler'[h].at = "reverse"
  BY <1>1, <1>3, <1>4, BecomesIs
<1>6. ASSUME Shape(u) PROVE Owes(h) = {} /\ Neutral(u, handler'[h])
  <2>1. handler[h].undo = {} /\ Owes(h) = {}
    BY <1>2, <1>6, OwnShape DEF ShapeOf
  <2> QED
    BY <1>5, <2>1 DEF Neutral
<1> QED
  BY <1>2, <1>5, <1>6, OwnUntouched

\* A debit of an account.
LEMMA DebitAccountStep ==
  ASSUME Inv, NEW h \in Handlers, DebitAccount(h), odd \subseteq odd'
  PROVE  \A t \in TransferIds : Straight(t)'
<1>1. HandlerType /\ RecordsType
  BY DEF Inv, RecordsType
<1> PICK u \in TransferIds : handler[h].t = u
  BY HasTransfer DEF DebitAccount
<1>2. /\ status' = status /\ awaiting' = awaiting /\ booked' = booked
      /\ handler[h].at = "debit" /\ HasRows(h)
  BY DEF DebitAccount, HasRows, crm
<1>3. "out" \in Moves(u) /\ Moves(u) \subseteq {"out", "in"}
  BY <1>1, RecordFields DEF DebitAccount, HandlerType, Moves
<1>4. CASE Serve(u, "out") /\ Becomes(h, "credit", handler[h].accts, {"out"})
  <2>1. /\ \A g \in Handlers : g # h => handler'[g] = handler[g]
        /\ handler'[h].t = u /\ handler'[h].undo = {"out"} /\ handler'[h].at = "credit"
    BY <1>1, <1>4, BecomesIs
  <2>2. "out" \in Calls
    BY DEF Calls
  <2>3. ASSUME u \notin odd', Shape(u), Account(u) PROVE Shape(u)' /\ Account(u)'
    <3>1. "out" \notin refs[u] /\ refs'[u] = refs[u] \cup {"out"}
      BY <1>1, <1>4, <2>2, <2>3, ServeIs
    <3>2. /\ status[u] # "APPROVED" /\ u \notin booked
          /\ \A k \in {"out", "in"} :
               k \in Live(u) <=> \E g \in Handlers : handler[g].t = u /\ k \in Owes(g)
          /\ \A g \in Handlers : g # h /\ handler[g].t = u =>
                  handler[g].at \notin {"save", "settle"}
      BY <1>2, <2>3, RowsHeld
    <3>3. "out" \notin Live(u)
      BY <3>1 DEF Live
    <3>4. \A g \in Handlers : handler[g].t = u => Owes(g) = {}
      BY <1>3, <2>3, <3>2, <3>3, OwesFirst
    <3>5. /\ awaiting[u] \subseteq Moves(u)
          /\ \A k \in {"out", "in"} : Reverse(k) \in refs[u] => k \in refs[u]
      BY <2>3, ShapeIs
    <3>6. Owes(h)' = {"out"}
      BY <2>1, OwesIs
    <3>7. ShapeOf(u, h)'
      <4>1. Moves(u) \cap {"out"} = {"out"}
        BY <1>3
      <4> QED
        BY <1>3, <2>1, <3>6, <4>1, ShapeOfIs
    <3>8. \A k \in {"out", "in"} :
            /\ Reverse(k) \in refs'[u] => k \in refs'[u]
            /\ k \in Live(u)' <=> k \in Owes(h)'
      <4>1. "out back" \notin refs[u]
        BY <3>1, <3>5 DEF Reverse
      <4>2. "in" \notin Live(u)
        BY <3>2, <3>4
      <4> QED
        BY <3>1, <3>5, <3>6, <4>1, <4>2 DEF Live, Reverse
    <3>9. \A g \in Handlers : g # h /\ handler[g].t = u =>
            /\ Owes(g) = {} /\ handler[g].at \notin {"save", "settle"}
            /\ handler[g].at = "failed" => awaiting'[u] = awaiting[u]
      BY <1>2, <3>2, <3>4
    <3>10. status'[u] # "APPROVED" /\ u \notin booked' /\ awaiting'[u] \subseteq Moves(u)
      BY <1>2, <3>2, <3>5
    <3> QED
      BY <1>1, <2>1, <2>3, <3>7, <3>8, <3>9, <3>10, Owns
  <2> QED
    BY <1>1, <1>2, <1>4, <2>1, <2>2, <2>3, ServeOthers, OwnTransfer
<1>5. CASE refs' = refs /\ Becomes(h, "reverse", handler[h].accts, handler[h].undo)
  <2>1. /\ \A g \in Handlers : g # h => handler'[g] = handler[g]
        /\ handler'[h].t = u /\ handler'[h].undo = handler[h].undo /\ handler'[h].at = "reverse"
    BY <1>1, <1>5, BecomesIs
  <2>2. ASSUME Shape(u) PROVE Owes(h) = {} /\ Neutral(u, handler'[h])
    <3>1. handler[h].undo = {} /\ Owes(h) = {}
      BY <1>2, <2>2, OwnShape DEF ShapeOf
    <3> QED
      BY <2>1, <3>1 DEF Neutral
  <2> QED
    BY <1>2, <1>5, <2>1, <2>2, OwnUntouched
<1> QED
  BY <1>4, <1>5 DEF DebitAccount, TimeOut, Refuse, GivesUp, Goto, gateway

\* Giving up after the debit: what was moved is still owed.
LEMMA GivesUpStep ==
  ASSUME Inv, NEW h \in Handlers, handler[h].at = "credit", GivesUp(h), odd \subseteq odd',
         status' = status, refs' = refs, awaiting' = awaiting, booked' = booked
  PROVE  \A t \in TransferIds : Straight(t)'
<1>1. HandlerType
  BY DEF Inv, RecordsType
<1> PICK u \in TransferIds : handler[h].t = u
  BY HasTransfer
<1>2. /\ \A g \in Handlers : g # h => handler'[g] = handler[g]
      /\ handler'[h].t = u /\ handler'[h].undo = handler[h].undo /\ handler'[h].at = "reverse"
  BY <1>1, BecomesIs DEF GivesUp, Goto
<1>3. StillOwes(h)
  BY <1>2, OwesIs DEF StillOwes
<1> QED
  BY <1>2, <1>3, OwnUntouched

\* A credit that the CRM decides on.
LEMMA CreditInCrmStep ==
  ASSUME Inv, NEW h \in Handlers, CreditInCrm(h), odd \subseteq odd'
  PROVE  \A t \in TransferIds : Straight(t)'
<1>1. HandlerType /\ RecordsType
  BY DEF Inv, RecordsType
<1> PICK u \in TransferIds : handler[h].t = u
  BY HasTransfer DEF CreditInCrm
<1>2. /\ status' = status /\ refs' = refs /\ booked' = booked
      /\ handler[h].at = "credit" /\ HasRows(h)
  BY DEF CreditInCrm, HasRows, crm, gateway
<1>3. CASE To[u] = Wallet /\ Applied(h, handler[h].undo)
  <2>1. /\ \A g \in Handlers : g # h => handler'[g] = handler[g]
        /\ handler'[h].t = u /\ handler'[h].undo = {} /\ handler'[h].at = "save"
    BY <1>1, <1>3, BecomesIs DEF Applied
  <2>2. Moves(u) \subseteq {"out"}
    BY <1>3 DEF Moves
  <2>3. \A t \in TransferIds : t # u => awaiting'[t] = awaiting[t]
    BY <1>1, <1>3 DEF Applied, RecordsType
  <2>4. ASSUME Shape(u), Account(u) PROVE Shape(u)' /\ Account(u)'
    <3>1. /\ status[u] # "APPROVED" /\ u \notin booked
          /\ \A k \in {"out", "in"} :
               k \in Live(u) <=> \E g \in Handlers : handler[g].t = u /\ k \in Owes(g)
          /\ \A g \in Handlers : g # h /\ handler[g].t = u =>
                  handler[g].at \notin {"save", "settle"}
      BY <1>2, <2>4, RowsHeld
    <3>2. /\ awaiting[u] \subseteq Moves(u)
          /\ \A k \in {"out", "in"} : Reverse(k) \in refs[u] => k \in refs[u]
          /\ \A g \in Handlers : handler[g].t = u => ShapeOf(u, g)
          /\ \A g \in Handlers : handler[g].t = u /\ Owes(g) # {} /\ Owes(h) # {} => g = h
      BY <2>4, ShapeIs
    <3>3. handler[h].undo = Moves(u) /\ Owes(h) = Moves(u)
      <4>1. handler[h].undo = Moves(u) \cap {"out"}
        BY <1>2, <3>2 DEF ShapeOf
      <4> QED
        BY <1>2, <2>2, <4>1, OwesIs
    <3>4. awaiting'[u] = Moves(u)
      <4>1. /\ Moves(u) = {} => awaiting' = awaiting
            /\ Moves(u) # {} => awaiting' = [awaiting EXCEPT ![u] = Moves(u)]
        BY <1>3, <3>3 DEF Applied
      <4>2. CASE Moves(u) = {}
        BY <3>2, <4>1, <4>2
      <4>3. CASE Moves(u) # {}
        BY <1>1, <4>1, <4>3 DEF RecordsType
      <4> QED
        BY <4>2, <4>3
    <3>5. \A g \in Handlers : handler[g].t = u => Owes(g) \subseteq Moves(u)
      BY <3>2 DEF ShapeOf
    <3>6. \A g \in Handlers : g # h /\ handler[g].t = u => Owes(g) = {}
      BY <3>2, <3>3, <3>5
    <3>7. \A g \in Handlers : g # h /\ handler[g].t = u =>
            /\ Owes(g) = {} /\ handler[g].at \notin {"save", "settle"}
            /\ handler[g].at = "failed" => awaiting'[u] = awaiting[u]
      <4>1. ASSUME NEW g \in Handlers, g # h, handler[g].t = u, handler[g].at = "failed"
            PROVE  awaiting'[u] = awaiting[u]
        BY <3>2, <3>4, <4>1 DEF ShapeOf
      <4> QED
        BY <3>1, <3>6, <4>1
    <3>8. Owes(h)' = Moves(u)
      BY <2>1, <3>4, OwesIs
    <3>9. ShapeOf(u, h)'
      BY <2>1, <3>4, <3>8, ShapeOfIs
    <3>10. \A k \in {"out", "in"} :
             /\ Reverse(k) \in refs'[u] => k \in refs'[u]
             /\ k \in Live(u)' <=> k \in Owes(h)'
      <4>1. Live(u)' = Live(u)
        BY <1>2 DEF Live
      <4>2. \A k \in {"out", "in"} : k \in Live(u) <=> k \in Moves(u)
        BY <3>1, <3>3, <3>6
      <4> QED
        BY <1>2, <3>2, <3>8, <4>1, <4>2
    <3>11. status'[u] # "APPROVED" /\ u \notin booked' /\ awaiting'[u] \subseteq Moves(u)
      BY <1>2, <3>1, <3>4
    <3> QED
      BY <1>1, <2>1, <2>4, <3>7, <3>9, <3>10, <3>11, Owns
  <2> QED
    BY <1>2, <2>1, <2>3, <2>4, OwnTransfer
<1>4. CASE GivesUp(h) /\ UNCHANGED awaiting
  BY <1>2, <1>4, GivesUpStep
<1> QED
  BY <1>3, <1>4 DEF CreditInCrm

\* A credit of an account.
LEMMA CreditAccountStep ==
  ASSUME Inv, NEW h \in Handlers, CreditAccount(h), odd \subseteq odd'
  PROVE  \A t \in TransferIds : Straight(t)'
<1>1. HandlerType /\ RecordsType
  BY DEF Inv, RecordsType
<1> PICK u \in TransferIds : handler[h].t = u
  BY HasTransfer DEF CreditAccount
<1>2. /\ status' = status /\ booked' = booked
      /\ handler[h].at = "credit" /\ HasRows(h)
  BY DEF CreditAccount, HasRows, crm
<1>3. "in" \in Moves(u) /\ Moves(u) \subseteq {"out", "in"}
  BY <1>1, RecordFields DEF CreditAccount, HandlerType, Moves
<1>4. CASE Serve(u, "in") /\ Applied(h, handler[h].undo \cup {"in"})
  <2>1. /\ \A g \in Handlers : g # h => handler'[g] = handler[g]
        /\ handler'[h].t = u /\ handler'[h].undo = {} /\ handler'[h].at = "save"
    BY <1>1, <1>4, BecomesIs DEF Applied
  <2>2. "in" \in Calls
    BY DEF Calls
  <2>3. /\ \A t \in TransferIds : t # u => awaiting'[t] = awaiting[t]
        /\ awaiting'[u] = handler[h].undo \cup {"in"}
    BY <1>1, <1>4 DEF Applied, RecordsType
  <2>4. ASSUME u \notin odd', Shape(u), Account(u) PROVE Shape(u)' /\ Account(u)'
    <3>1. /\ status[u] # "APPROVED" /\ u \notin booked
          /\ \A k \in {"out", "in"} :
               k \in Live(u) <=> \E g \in Handlers : handler[g].t = u /\ k \in Owes(g)
          /\ \A g \in Handlers : g # h /\ handler[g].t = u =>
                  handler[g].at \notin {"save", "settle"}
      BY <1>2, <2>4, RowsHeld
    <3>2. /\ \A k \in {"out", "in"} : Reverse(k) \in refs[u] => k \in refs[u]
          /\ \A g \in Handlers : handler[g].t = u => ShapeOf(u, g)
          /\ \A g \in Handlers : handler[g].t = u /\ Owes(g) # {} /\ Owes(h) # {} => g = h
      BY <2>4, ShapeIs
    <3>3. handler[h].undo = Moves(u) \cap {"out"} /\ Owes(h) = Moves(u) \cap {"out"}
      BY <1>2, <3>2, OwesIs DEF ShapeOf
    <3>4. awaiting'[u] = Moves(u)
      BY <1>3, <2>3, <3>3
    <3>5. "in" \notin refs[u] /\ refs'[u] = refs[u] \cup {"in"}
      BY <1>1, <1>4, <2>2, <2>4, ServeIs
    <3>6. "in" \notin Live(u)
      BY <3>5 DEF Live
    <3>7. \A g \in Handlers : g # h /\ handler[g].t = u => Owes(g) = {}
      <4>1. ASSUME NEW g \in Handlers, g # h, handler[g].t = u, Owes(g) # {} PROVE FALSE
        <5>1. "in" \notin Owes(g)
          BY <3>1, <3>6, <4>1
        <5>2. "out" \in Owes(g)
          BY <2>4, <4>1, <5>1, OwesFirst
        <5>3. "out" \in Moves(u)
          BY <3>2, <4>1, <5>2 DEF ShapeOf
        <5> QED
          BY <3>2, <3>3, <4>1, <5>3
      <4> QED
        BY <4>1
    <3>8. \A g \in Handlers : g # h /\ handler[g].t = u =>
            /\ Owes(g) = {} /\ handler[g].at \notin {"save", "settle"}
            /\ handler[g].at = "failed" => awaiting'[u] = awaiting[u]
      <4>1. ASSUME NEW g \in Handlers, g # h, handler[g].t = u
            PROVE  handler[g].at # "failed"
        <5>1. handler[g].at = "failed" => Owes(g) = Moves(u)
          BY <3>2, <4>1, OwesIs DEF ShapeOf
        <5> QED
          BY <1>3, <3>7, <4>1, <5>1
      <4> QED
        BY <3>1, <3>7, <4>1
    <3>9. Owes(h)' = Moves(u)
      BY <2>1, <3>4, OwesIs
    <3>10. ShapeOf(u, h)'
      BY <2>1, <3>4, <3>9, ShapeOfIs
    <3>11. \A k \in {"out", "in"} :
             /\ Reverse(k) \in refs'[u] => k \in refs'[u]
             /\ k \in Live(u)' <=> k \in Owes(h)'
      <4>1. "in back" \notin refs[u]
        BY <3>2, <3>5 DEF Reverse
      <4>2. "out" \in Live(u) <=> "out" \in Moves(u)
        BY <3>1, <3>3, <3>7
      <4> QED
        BY <1>3, <3>2, <3>5, <3>9, <4>1, <4>2 DEF Live, Reverse
    <3>12. status'[u] # "APPROVED" /\ u \notin booked' /\ awaiting'[u] \subseteq Moves(u)
      BY <1>2, <3>1, <3>4
    <3> QED
      BY <1>1, <2>1, <2>4, <3>8, <3>10, <3>11, <3>12, Owns
  <2>5. \A t \in TransferIds : t # u => refs'[t] = refs[t]
    BY <1>1, <1>4, <2>2, ServeOthers
  <2> QED
    BY <1>2, <2>1, <2>3, <2>4, <2>5, OwnTransfer
<1>5. CASE refs' = refs /\ GivesUp(h) /\ UNCHANGED awaiting
  BY <1>2, <1>5, GivesUpStep
<1> QED
  BY <1>4, <1>5 DEF CreditAccount, TimeOut

\* A transfer that is refused or breaks after its debit.
LEMMA CreditBreaksStep ==
  ASSUME Inv, NEW h \in Handlers, CreditBreaks(h), odd \subseteq odd'
  PROVE  \A t \in TransferIds : Straight(t)'
BY GivesUpStep DEF CreditBreaks, crm, gateway

\* A handler that owes anything is the only one, and its transfer is not approved.
LEMMA Debtor ==
  ASSUME RecordsType, NEW u \in TransferIds, NEW h \in Handlers, handler[h].t = u,
         Shape(u), Account(u), Owes(h) # {}
  PROVE  /\ status[u] # "APPROVED" /\ u \notin booked
         /\ \A k \in {"out", "in"} : k \in Live(u) <=> k \in Owes(h)
         /\ \A g \in Handlers : g # h /\ handler[g].t = u =>
              Owes(g) = {} /\ handler[g].at \notin {"save", "failed", "settle"}
<1>1. /\ \A g \in Handlers : handler[g].t = u => ShapeOf(u, g)
      /\ \A g \in Handlers : handler[g].t = u /\ Owes(g) # {} => g = h
  BY ShapeIs
<1>2. status[u] # "APPROVED"
  BY AccountIs
<1>3. /\ u \notin booked
      /\ \A k \in {"out", "in"} :
           k \in Live(u) <=> \E g \in Handlers : handler[g].t = u /\ k \in Owes(g)
  BY <1>2, AccountIs
<1>4. Moves(u) # {}
  BY <1>1 DEF ShapeOf
<1>5. ASSUME NEW g \in Handlers, g # h, handler[g].t = u
      PROVE  Owes(g) = {} /\ handler[g].at \notin {"save", "failed", "settle"}
  <2>1. Owes(g) = {} /\ ShapeOf(u, g)
    BY <1>1, <1>5
  <2>2. handler[g].at \in {"save", "failed"} => Owes(g) = Moves(u)
    BY <1>5, <2>1, OwesIs DEF ShapeOf
  <2> QED
    BY <1>2, <1>4, <2>1, <2>2 DEF ShapeOf
<1> QED
  BY <1>1, <1>2, <1>3, <1>5

\* The record is not saved: a handler takes over what is to be put back.
LEMMA TakeMovesStep ==
  ASSUME Inv, NEW h \in Handlers, TakeMoves(h), odd \subseteq odd'
  PROVE  \A t \in TransferIds : Straight(t)'
<1>1. HandlerType /\ RecordsType
  BY DEF Inv, RecordsType
<1> PICK u \in TransferIds : handler[h].t = u
  BY HasTransfer DEF TakeMoves
<1>2. /\ status' = status /\ booked' = booked /\ refs' = refs
      /\ handler[h].at = "failed" /\ Owes(h) = awaiting[u]
  BY OwesIs DEF TakeMoves, crm, gateway
<1>3. /\ \A g \in Handlers : g # h => handler'[g] = handler[g]
      /\ handler'[h].t = u /\ handler'[h].undo = awaiting[u] /\ handler'[h].at = "reverse late"
  <2>1. Becomes(h, "reverse late", {}, awaiting[u])
    BY DEF TakeMoves
  <2> QED
    BY <1>1, <2>1 DEF Becomes, HandlerType
<1>4. awaiting'[u] = {} /\ \A t \in TransferIds : t # u => awaiting'[t] = awaiting[t]
  BY <1>1 DEF TakeMoves, RecordsType
<1>5. Owes(h)' = awaiting[u]
  BY <1>3, OwesIs
<1>6. ASSUME Shape(u), Account(u) PROVE Shape(u)' /\ Account(u)'
  <2>1. CASE awaiting[u] = {}
    <3>1. StillOwes(h)
      BY <1>2, <1>3, <1>5 DEF StillOwes
    <3>2. \A g \in Handlers : \/ handler'[g] = handler[g]
                              \/ handler[g].t = u /\ StillOwes(g)
                              \/ /\ handler[g].t = u => Owes(g) = {}
                                 /\ handler'[g].t = u => Neutral(u, handler'[g])
      BY <1>3, <3>1
    <3>3. awaiting'[u] = awaiting[u] /\ (u \in booked' <=> u \in booked)
      BY <1>2, <1>4, <2>1
    <3> QED
      BY <1>1, <1>2, <1>6, <3>2, <3>3, Untouched
  <2>2. CASE awaiting[u] # {}
    <3>1. /\ status[u] # "APPROVED" /\ u \notin booked
          /\ \A k \in {"out", "in"} : k \in Live(u) <=> k \in Owes(h)
          /\ \A g \in Handlers : g # h /\ handler[g].t = u =>
               Owes(g) = {} /\ handler[g].at \notin {"save", "failed", "settle"}
      BY <1>1, <1>2, <1>6, <2>2, Debtor
    <3>2. \A g \in Handlers : g # h /\ handler[g].t = u =>
            /\ Owes(g) = {} /\ handler[g].at \notin {"save", "settle"}
            /\ handler[g].at = "failed" => awaiting'[u] = awaiting[u]
      BY <3>1
    <3>3. /\ \A k \in {"out", "in"} : Reverse(k) \in refs[u] => k \in refs[u]
          /\ ShapeOf(u, h)
      BY <1>6, ShapeIs
    <3>4. ShapeOf(u, h)'
      <4>1. Owes(h) \subseteq Moves(u) /\ ("in" \in Owes(h) => Owes(h) = Moves(u))
        BY <3>3 DEF ShapeOf
      <4>2. Owes(h)' \subseteq Moves(u) /\ ("in" \in Owes(h)' => Owes(h)' = Moves(u))
        BY <1>2, <1>5, <4>1
      <4> QED
        BY <1>3, <4>2, ShapeOfIs
    <3>5. \A k \in {"out", "in"} :
            /\ Reverse(k) \in refs'[u] => k \in refs'[u]
            /\ k \in Live(u)' <=> k \in Owes(h)'
      <4>1. Live(u)' = Live(u)
        BY <1>2 DEF Live
      <4> QED
        BY <1>2, <1>5, <3>1, <3>3, <4>1
    <3>6. status'[u] # "APPROVED" /\ u \notin booked' /\ awaiting'[u] \subseteq Moves(u)
      BY <1>2, <1>4, <3>1
    <3> QED
      BY <1>1, <1>3, <1>6, <3>2, <3>4, <3>5, <3>6, Owns
  <2> QED
    BY <2>1, <2>2
<1> QED
  BY <1>2, <1>3, <1>4, <1>6, OwnTransfer

\* One move is put back.
LEMMA PutBackStep ==
  ASSUME Inv, NEW h \in Handlers, PutBack(h), odd \subseteq odd'
  PROVE  \A t \in TransferIds : Straight(t)'
<1>1. HandlerType /\ RecordsType
  BY DEF Inv, RecordsType
<1> PICK u \in TransferIds : handler[h].t = u
  BY HasTransfer DEF PutBack, PutsBack
<1> PICK n \in {"out", "in"} : n = Newest(handler[h].undo)
  BY DEF Newest
<1>2. /\ status' = status /\ booked' = booked /\ awaiting' = awaiting
      /\ handler[h].at \in {"reverse", "reverse late"} /\ handler[h].undo # {}
      /\ Owes(h) = handler[h].undo
  BY OwesIs DEF PutBack, PutsBack, crm
<1>3. /\ \A g \in Handlers : g # h => handler'[g] = handler[g]
      /\ handler'[h].t = u /\ handler'[h].undo = handler[h].undo \ {n}
      /\ handler'[h].at = handler[h].at
  <2>1. Becomes(h, handler[h].at, handler[h].accts, handler[h].undo \ {n})
    BY DEF PutBack, PutsBack
  <2> QED
    BY <1>1, <2>1, BecomesIs
<1>4. handler[h].undo \in SUBSET {"out", "in"}
  BY <1>1, RecordFields DEF HandlerType
<1>5. n \in handler[h].undo /\ ("in" \in handler[h].undo => n = "in")
  BY <1>2, <1>4 DEF Newest
<1>6. Serve(u, Reverse(n)) \/ PutBackFails(u, Reverse(n))
  BY DEF PutBack, PutsBack
<1>7. Reverse(n) \in Calls
  BY DEF Reverse, Calls
<1>8. ASSUME u \notin odd', Shape(u), Account(u) PROVE Shape(u)' /\ Account(u)'
  <2>1. Serve(u, Reverse(n))
    BY <1>6, <1>8 DEF PutBackFails
  <2>2. Reverse(n) \notin refs[u] /\ refs'[u] = refs[u] \cup {Reverse(n)}
    BY <1>1, <1>7, <1>8, <2>1, ServeIs
  <2>3. /\ status[u] # "APPROVED" /\ u \notin booked
        /\ \A k \in {"out", "in"} : k \in Live(u) <=> k \in Owes(h)
        /\ \A g \in Handlers : g # h /\ handler[g].t = u =>
             Owes(g) = {} /\ handler[g].at \notin {"save", "failed", "settle"}
    BY <1>1, <1>2, <1>8, Debtor
  <2>4. \A g \in Handlers : g # h /\ handler[g].t = u =>
          /\ Owes(g) = {} /\ handler[g].at \notin {"save", "settle"}
          /\ handler[g].at = "failed" => awaiting'[u] = awaiting[u]
    BY <2>3
  <2>5. /\ awaiting[u] \subseteq Moves(u) /\ ShapeOf(u, h)
        /\ \A k \in {"out", "in"} : Reverse(k) \in refs[u] => k \in refs[u]
    BY <1>8, ShapeIs
  <2>6. Owes(h)' = handler[h].undo \ {n}
    BY <1>2, <1>3, OwesIs
  <2>7. ShapeOf(u, h)'
    <3>1. handler[h].undo \subseteq Moves(u)
      BY <1>2, <2>5 DEF ShapeOf
    <3> QED
      BY <1>2, <1>3, <1>5, <2>6, <3>1, ShapeOfIs
  <2>8. \A k \in {"out", "in"} :
          /\ Reverse(k) \in refs'[u] => k \in refs'[u]
          /\ k \in Live(u)' <=> k \in Owes(h)'
    <3>1. n \in refs[u]
      BY <1>2, <1>5, <2>3 DEF Live
    <3>2. \A k \in {"out", "in"} : Reverse(k) = Reverse(n) => k = n
      <4>1. Reverse("out") = "out back" /\ Reverse("in") = "in back"
        BY DEF Reverse
      <4> QED
        BY <4>1
    <3>3. Reverse(n) \notin {"out", "in"}
      BY DEF Reverse
    <3>4. ASSUME NEW k \in {"out", "in"} PROVE k \in Live(u)' <=> k \in Live(u) /\ k # n
      BY <2>2, <3>2, <3>3 DEF Live
    <3> QED
      BY <1>2, <2>2, <2>3, <2>5, <2>6, <3>1, <3>2, <3>4
  <2>9. status'[u] # "APPROVED" /\ u \notin booked' /\ awaiting'[u] \subseteq Moves(u)
    BY <1>2, <2>3, <2>5
  <2> QED
    BY <1>1, <1>3, <1>8, <2>4, <2>7, <2>8, <2>9, Owns
<1>9. \A t \in TransferIds : t # u => refs'[t] = refs[t]
  <2>1. CASE Serve(u, Reverse(n))
    BY <1>1, <1>7, <2>1, ServeOthers
  <2>2. CASE PutBackFails(u, Reverse(n))
    BY <2>2 DEF PutBackFails
  <2> QED
    BY <1>6, <2>1, <2>2
<1>10. /\ \A g \in Handlers : g # h => handler'[g] = handler[g]
       /\ handler'[h].t \in {u, NoTransfer}
  BY <1>3
<1>11. \A t \in TransferIds : t # u =>
         /\ status'[t] = status[t] /\ refs'[t] = refs[t] /\ awaiting'[t] = awaiting[t]
         /\ t \in booked' <=> t \in booked
  BY <1>2, <1>9
<1>12. u \notin odd' /\ Shape(u) /\ Account(u) => Shape(u)' /\ Account(u)'
  BY <1>8
<1> QED
  BY <1>10, <1>11, <1>12, OwnTransfer

\* Everything is put back.
LEMMA PutBackEndsStep ==
  ASSUME Inv, NEW h \in Handlers, PutBackEnds(h), odd \subseteq odd'
  PROVE  \A t \in TransferIds : Straight(t)'
<1>1. HandlerType
  BY DEF Inv, RecordsType
<1> PICK u \in TransferIds : handler[h].t = u
  BY HasTransfer DEF PutBackEnds
<1>2. /\ status' = status /\ booked' = booked /\ refs' = refs /\ awaiting' = awaiting
      /\ Owes(h) = {}
  BY OwesIs DEF PutBackEnds, crm, gateway
<1>3. /\ \A g \in Handlers : g # h => handler'[g] = handler[g]
      /\ handler'[h].t = NoTransfer
  BY <1>1, BeginsIs, IdleIs DEF PutBackEnds
<1>4. NoTransfer # u
  OBVIOUS
<1> QED
  BY <1>2, <1>3, <1>4, OwnUntouched

\* The record is saved: the transfer has moved as a whole and nobody owes anything of it.
LEMMA SaveStepStraight ==
  ASSUME Inv, NEW h \in Handlers, Save(h), odd \subseteq odd'
  PROVE  \A t \in TransferIds : Straight(t)'
<1>1. HandlerType /\ RecordsType
  BY DEF Inv, RecordsType
<1> PICK u \in TransferIds : handler[h].t = u
  BY HasTransfer DEF Save
<1>2. /\ refs' = refs /\ awaiting' = awaiting /\ status'[u] = "APPROVED"
      /\ handler[h].at = "save" /\ HasRows(h) /\ Owes(h) = awaiting[u]
      /\ \A t \in TransferIds : t # u =>
              status'[t] = status[t] /\ (t \in booked' <=> t \in booked)
      /\ Wallet \in {From[u], To[u]} => u \in booked'
  BY <1>1, OwesIs DEF Save, Record, HasRows, RecordsType, gateway
<1>3. /\ \A g \in Handlers : g # h => handler'[g] = handler[g]
      /\ handler'[h].t = u /\ handler'[h].undo = {} /\ handler'[h].at = "settle"
  <2>1. Becomes(h, "settle", {}, {})
    BY DEF Save
  <2> QED
    BY <1>1, <2>1, BecomesIs
<1>4. ASSUME Shape(u), Account(u) PROVE Shape(u)' /\ Account(u)'
  <2>1. /\ \A k \in {"out", "in"} :
             k \in Live(u) <=> \E g \in Handlers : handler[g].t = u /\ k \in Owes(g)
        /\ \A g \in Handlers : g # h /\ handler[g].t = u =>
                handler[g].at \notin {"save", "settle"}
    BY <1>2, <1>4, RowsHeld
  <2>2. /\ awaiting[u] \subseteq Moves(u)
        /\ \A k \in {"out", "in"} : Reverse(k) \in refs[u] => k \in refs[u]
        /\ \A g \in Handlers : handler[g].t = u => ShapeOf(u, g)
        /\ \A g \in Handlers : handler[g].t = u /\ Owes(g) # {} /\ Owes(h) # {} => g = h
    BY <1>4, ShapeIs
  <2>3. Owes(h) = Moves(u)
    BY <1>2, <2>2 DEF ShapeOf
  <2>4. \A g \in Handlers : g # h /\ handler[g].t = u => Owes(g) = {}
    <3>1. \A g \in Handlers : handler[g].t = u => Owes(g) \subseteq Moves(u)
      BY <2>2 DEF ShapeOf
    <3> QED
      BY <2>2, <2>3, <3>1
  <2>5. Live(u)' = Moves(u)
    <3>1. /\ Live(u)' = Live(u)
          /\ Live(u) \subseteq {"out", "in"} /\ Moves(u) \subseteq {"out", "in"}
      BY <1>2 DEF Live, Moves
    <3>2. \A k \in {"out", "in"} : k \in Live(u) <=> k \in Moves(u)
      BY <2>1, <2>3, <2>4
    <3> QED
      BY <3>1, <3>2
  <2>6. ASSUME NEW g \in Handlers, handler'[g].t = u PROVE Owes(g)' = {} /\ ShapeOf(u, g)'
    <3>1. CASE g = h
      <4>1. Owes(g)' = {}
        BY <1>3, <3>1, OwesIs
      <4> QED
        BY <1>2, <1>3, <3>1, <4>1, ShapeOfIs
    <3>2. CASE g # h
      <4>1. handler'[g] = handler[g] /\ ShapeOf(u, g) /\ Owes(g) = {}
        BY <1>3, <2>2, <2>4, <2>6, <3>2
      <4>2. Owes(g)' = {}
        BY <1>2, <2>6, <4>1, OwesIs
      <4> QED
        BY <1>2, <4>1, <4>2, ShapeOfIs DEF ShapeOf
    <3> QED
      BY <3>1, <3>2
  <2>7. Shape(u)'
    BY <1>2, <2>2, <2>6, ShapeIs
  <2> QED
    BY <1>2, <2>5, <2>6, <2>7, AccountIs
<1> QED
  BY <1>2, <1>3, <1>4, OwnTransfer

\* A commit that failed, or whose answer was lost.
LEMMA SaveFailsStep ==
  ASSUME Inv, NEW h \in Handlers, SaveFails(h) \/ SaveUnheard(h), odd \subseteq odd'
  PROVE  \A t \in TransferIds : Straight(t)'
<1>1. HandlerType /\ RecordsType
  BY DEF Inv, RecordsType
<1> PICK u \in TransferIds : handler[h].t = u
  BY HasTransfer DEF SaveFails, SaveUnheard
<1>2. handler[h].at = "save" /\ Becomes(h, "failed", {}, {})
  BY DEF SaveFails, SaveUnheard
<1>3. /\ \A g \in Handlers : g # h => handler'[g] = handler[g]
      /\ handler'[h].t = u /\ handler'[h].undo = {} /\ handler'[h].at = "failed"
  BY <1>1, <1>2, BecomesIs
<1>4. CASE SaveFails(h)
  <2>1. status' = status /\ booked' = booked /\ refs' = refs /\ awaiting' = awaiting
    BY <1>4 DEF SaveFails, crm, gateway
  <2>2. StillOwes(h)
    BY <1>2, <1>3, <2>1, OwesIs DEF StillOwes
  <2> QED
    BY <1>3, <2>1, <2>2, OwnUntouched
<1>5. CASE SaveUnheard(h)
  <2>1. /\ refs' = refs /\ awaiting' = awaiting /\ u \in odd'
        /\ \A t \in TransferIds : t # u =>
                status'[t] = status[t] /\ (t \in booked' <=> t \in booked)
    BY <1>1, <1>5 DEF SaveUnheard, Record, RecordsType, gateway
  <2> QED
    BY <1>3, <2>1, OwnTransfer
<1> QED
  BY <1>4, <1>5

\* The moves of a saved transfer are forgotten.
LEMMA SettleStep ==
  ASSUME Inv, NEW h \in Handlers, Settle(h), odd \subseteq odd'
  PROVE  \A t \in TransferIds : Straight(t)'
<1>1. HandlerType /\ RecordsType
  BY DEF Inv, RecordsType
<1> PICK u \in TransferIds : handler[h].t = u
  BY HasTransfer DEF Settle
<1>2. /\ refs' = refs /\ status' = status /\ booked' = booked /\ handler[h].at = "settle"
      /\ awaiting'[u] = {} /\ \A t \in TransferIds : t # u => awaiting'[t] = awaiting[t]
  BY <1>1 DEF Settle, RecordsType, crm, gateway
<1>3. /\ \A g \in Handlers : g # h => handler'[g] = handler[g]
      /\ handler'[h].t = NoTransfer
  BY <1>1, BeginsIs, IdleIs DEF Settle
<1>4. ASSUME Shape(u), Account(u) PROVE Shape(u)' /\ Account(u)'
  <2>1. status[u] = "APPROVED"
    <3>1. ShapeOf(u, h)
      BY <1>4, ShapeIs
    <3> QED
      BY <1>2, <3>1 DEF ShapeOf
  <2>2. \A g \in Handlers : handler[g].t = u => handler[g].at # "save"
    BY <2>1 DEF Inv, Rows, KnowsStatus, HasRows
  <2>3. \A g \in Handlers : /\ handler'[g] = handler[g] \/ handler'[g].t # u
                            /\ handler[g].t = u => handler[g].at # "save"
    BY <1>3, <2>2
  <2>4. status'[u] = "APPROVED" /\ (u \in booked' <=> u \in booked)
    BY <1>2, <2>1
  <2> QED
    BY <1>1, <1>2, <1>4, <2>1, <2>3, <2>4, Approved
<1>5. handler'[h].t \in {u, NoTransfer}
  BY <1>3
<1> QED
  BY <1>2, <1>3, <1>4, <1>5, OwnTransfer

\* A step that touches neither the handlers nor the records.
LEMMA Elsewhere ==
  ASSUME Inv, odd \subseteq odd', handler' = handler, status' = status, booked' = booked,
         awaiting' = awaiting,
         \A t \in TransferIds : t \in odd' \/ refs'[t] = refs[t]
  PROVE  \A t \in TransferIds : Straight(t)'
<1>1. ASSUME NEW t \in TransferIds, t \notin odd' PROVE Shape(t)' /\ Account(t)'
  <2>1. RecordsType /\ Shape(t) /\ Account(t)
    BY <1>1 DEF Inv, Straight
  <2> QED
    BY <1>1, <2>1, Untouched
<1> QED
  BY <1>1 DEF Straight

\* A call that is served late, an account that is switched, and a step of nobody.
LEMMA ElsewhereSteps ==
  ASSUME Inv, odd \subseteq odd',
         \/ \E t \in TransferIds, k \in Calls : ServeLate(t, k)
         \/ \E a \in Trading : SwitchAccount(a)
         \/ UNCHANGED vars
  PROVE  \A t \in TransferIds : Straight(t)'
<1>1. ASSUME NEW u \in TransferIds, NEW k \in Calls, ServeLate(u, k)
      PROVE  \A t \in TransferIds : Straight(t)'
  <2>1. refs \in [TransferIds -> SUBSET Calls]
    BY DEF Inv, RecordsType
  <2>2. \A t \in TransferIds : t \in odd' \/ refs'[t] = refs[t]
    BY <1>1, <2>1 DEF ServeLate
  <2> QED
    BY <1>1, <2>2, Elsewhere DEF ServeLate, crm
<1>2. ASSUME NEW a \in Trading, SwitchAccount(a) PROVE \A t \in TransferIds : Straight(t)'
  BY <1>2, Elsewhere DEF SwitchAccount, crm, gateway
<1>3. CASE UNCHANGED vars
  BY <1>3, Elsewhere DEF vars, crm, gateway
<1> QED
  BY <1>1, <1>2, <1>3

\* A process of the CRM that stops.
LEMMA CrashStep ==
  ASSUME Inv, Crash
  PROVE  \A t \in TransferIds : Straight(t)'
<1>1. HandlerType /\ RecordsType
  BY DEF Inv, RecordsType
<1> PICK dead \in SUBSET Handlers :
       /\ handler' = [h \in Handlers |-> IF h \in dead THEN Idle ELSE handler[h]]
       /\ awaiting' = [t \in TransferIds |->
                         IF \E h \in dead : Keeps(h, t) THEN {} ELSE awaiting[t]]
       /\ odd' = odd \cup {t \in TransferIds : \E h \in dead :
                             handler[h].t = t /\ Owes(h) # {}}
  BY DEF Crash
<1>2. status' = status /\ booked' = booked /\ refs' = refs
  BY DEF Crash, crm, gateway
<1>3. \A h \in Handlers : \/ h \in dead /\ handler'[h] = Idle /\ handler'[h].t = NoTransfer
                          \/ h \notin dead /\ handler'[h] = handler[h]
  BY IdleIs
<1>4. ASSUME NEW t \in TransferIds, t \notin odd' PROVE Shape(t)' /\ Account(t)'
  <2>1. Shape(t) /\ Account(t)
    BY <1>4 DEF Inv, Straight
  <2>2. \A h \in dead : handler[h].t = t => Owes(h) = {}
    BY <1>4
  <2>3. awaiting'[t] = awaiting[t] \/ (awaiting'[t] = {} /\ \E h \in dead : Keeps(h, t))
    OBVIOUS
  <2>4. CASE status[t] = "APPROVED"
    <3>1. \A g \in Handlers : handler[g].t = t => handler[g].at # "save"
      BY <2>4 DEF Inv, Rows, KnowsStatus, HasRows
    <3>2. \A g \in Handlers : /\ handler'[g] = handler[g] \/ handler'[g].t # t
                              /\ handler[g].t = t => handler[g].at # "save"
      BY <1>3, <3>1
    <3>3. awaiting'[t] \in {awaiting[t], {}}
      BY <2>3
    <3>4. status'[t] = "APPROVED" /\ refs'[t] = refs[t] /\ (t \in booked' <=> t \in booked)
      BY <1>2, <2>4
    <3> QED
      BY <1>1, <2>1, <2>4, <3>2, <3>3, <3>4, Approved
  <2>5. CASE status[t] # "APPROVED"
    <3>1. ASSUME NEW h \in dead, Keeps(h, t) PROVE awaiting[t] = {}
      <4>1. handler[h].t = t /\ ShapeOf(t, h) /\ Owes(h) = {}
        BY <2>1, <2>2, <3>1, ShapeIs DEF Keeps
      <4>2. handler[h].at # "settle"
        BY <2>5, <4>1 DEF ShapeOf
      <4> QED
        BY <3>1, <4>1, <4>2, OwesIs DEF Keeps
    <3>2. awaiting'[t] = awaiting[t]
      BY <2>3, <3>1
    <3>3. \A g \in Handlers : \/ handler'[g] = handler[g]
                              \/ handler[g].t = t /\ StillOwes(g)
                              \/ /\ handler[g].t = t => Owes(g) = {}
                                 /\ handler'[g].t = t => Neutral(t, handler'[g])
      BY <1>3, <2>2
    <3>4. /\ (status'[t] = "APPROVED") <=> (status[t] = "APPROVED")
          /\ refs'[t] = refs[t] /\ (t \in booked' <=> t \in booked)
      BY <1>2
    <3> QED
      BY <1>1, <2>1, <3>2, <3>3, <3>4, Untouched
  <2> QED
    BY <2>4, <2>5
<1> QED
  BY <1>4 DEF Straight

\* Every step keeps every transfer straight.
LEMMA StraightStep == Inv /\ [Next]_vars => \A t \in TransferIds : Straight(t)'
<1> SUFFICES ASSUME Inv, [Next]_vars PROVE \A t \in TransferIds : Straight(t)'
  OBVIOUS
<1>0. odd \subseteq odd'
  BY OddGrows
<1>1. ASSUME NEW h \in Handlers, ApplyStep(h) PROVE \A t \in TransferIds : Straight(t)'
  BY <1>0, <1>1, DebitInCrmStep, DebitAccountStep, CreditInCrmStep, CreditAccountStep,
     CreditBreaksStep DEF ApplyStep
<1>2. ASSUME NEW h \in Handlers, UndoStep(h) PROVE \A t \in TransferIds : Straight(t)'
  BY <1>0, <1>2, TakeMovesStep, PutBackStep, PutBackEndsStep DEF UndoStep
<1>3. ASSUME NEW h \in Handlers, SaveStep(h) PROVE \A t \in TransferIds : Straight(t)'
  BY <1>0, <1>3, SaveStepStraight, SaveFailsStep, SettleStep DEF SaveStep
<1>4. CASE Next
  BY <1>0, <1>1, <1>2, <1>3, <1>4, AskSteps, RowSteps, ElsewhereSteps, CrashStep DEF Next
<1>5. CASE UNCHANGED vars
  BY <1>0, <1>5, ElsewhereSteps
<1> QED
  BY <1>4, <1>5

-----------------------------------------------------------------------------
(* The rows and their locks                                                 *)

\* Rows after a step.
LEMMA RowsIs ==
  /\ \A h \in Handlers : HasRows(h)' <=> handler'[h].at \in {"debit", "credit", "save", "reverse"}
  /\ Rows' <=>
       /\ \A h, g \in Handlers : HasRows(h)' /\ HasRows(g)' => h = g
       /\ \A h \in Handlers :
            /\ handler'[h].at # "idle" => status'[handler'[h].t] # "NONE"
            /\ handler'[h].at = "instant" => status'[handler'[h].t] = "ASKED"
            /\ handler'[h].at \in {"approve", "reject"}
                 => status'[handler'[h].t] \in {"PENDING", "APPROVED", "REJECTED"}
            /\ HasRows(h)' => status'[handler'[h].t] \in {"ASKED", "PENDING"}
       /\ \A h, g \in Handlers :
            handler'[h].at = "instant" /\ handler'[g].t = handler'[h].t => h = g
<1>1. \A h \in Handlers : HasRows(h)'
        <=> handler'[h].at \in {"debit", "credit", "save", "reverse"}
  BY DEF HasRows
<1> QED
  BY <1>1, Zenon DEF Rows, OneAtATime, KnowsStatus, FirstIsAlone

\* A handler that goes on with its transfer takes no rows it did not have.
GoesOn(g) ==
  /\ handler[g].at # "idle" /\ handler'[g].t = handler[g].t
  /\ handler'[g].at \notin {"instant", "approve", "reject"}
  /\ HasRows(g)' => HasRows(g)

\* A step that leaves the status alone, and in which handlers go on or end.
LEMMA QuietRows ==
  ASSUME Rows, HandlerType, status' = status,
         \A g \in Handlers : handler'[g] = handler[g] \/ handler'[g] = Idle \/ GoesOn(g)
  PROVE  Rows'
<1>1. \A g \in Handlers : /\ HasRows(g)' => HasRows(g)
                          /\ HasRows(g)' => handler'[g].t = handler[g].t
  BY RowsIs, IdleIs DEF GoesOn, HasRows
<1>2. \A h, g \in Handlers : HasRows(h)' /\ HasRows(g)' => h = g
  BY <1>1 DEF Rows, OneAtATime
<1>3. ASSUME NEW h \in Handlers
      PROVE  /\ handler'[h].at # "idle" => status'[handler'[h].t] # "NONE"
             /\ handler'[h].at = "instant" => status'[handler'[h].t] = "ASKED"
             /\ handler'[h].at \in {"approve", "reject"}
                  => status'[handler'[h].t] \in {"PENDING", "APPROVED", "REJECTED"}
             /\ HasRows(h)' => status'[handler'[h].t] \in {"ASKED", "PENDING"}
  BY <1>1, IdleIs DEF GoesOn, Rows, KnowsStatus
<1>4. \A h, g \in Handlers :
        handler'[h].at = "instant" /\ handler'[g].t = handler'[h].t => h = g
  <2>1. ASSUME NEW h \in Handlers, NEW g \in Handlers, handler'[h].at = "instant",
               handler'[g].t = handler'[h].t
        PROVE  h = g
    <3>1. handler'[h] = handler[h]
      BY <2>1, IdleIs DEF GoesOn
    <3>2. handler'[h].t # NoTransfer
      BY <2>1, <3>1 DEF HandlerType
    <3>3. handler'[g].t = handler[g].t
      BY <2>1, <3>2, IdleIs DEF GoesOn
    <3> QED
      BY <2>1, <3>1, <3>3 DEF Rows, FirstIsAlone
  <2> QED
    BY <2>1
<1> QED
  BY <1>2, <1>3, <1>4, RowsIs

\* The requests begin without rows.
LEMMA AskRows ==
  ASSUME RecordsType, Rows, NEW u \in TransferIds,
         Submit(u) \/ \E h \in Handlers : Instant(h, u) \/ Decide(h, u)
  PROVE  Rows'
<1>1. /\ HandlerType
      /\ status \in [TransferIds -> {"NONE", "ASKED", "PENDING", "APPROVED", "REJECTED"}]
  BY DEF RecordsType
<1>2. \A g \in Handlers : handler[g].t = u => handler[g].at # "idle"
  BY <1>1 DEF HandlerType
<1>3. CASE Submit(u)
  <2>1. status' = [status EXCEPT ![u] = "PENDING"] /\ handler' = handler /\ status[u] = "NONE"
    BY <1>3 DEF Submit, Asked
  <2>2. \A g \in Handlers : handler[g].t # u
    BY <1>2, <2>1 DEF Rows, KnowsStatus
  <2>3. \A g \in Handlers : status'[handler[g].t] = status[handler[g].t]
    BY <1>1, <2>1, <2>2
  <2>4. \A g \in Handlers : HasRows(g)' <=> HasRows(g)
    BY <2>1, RowsIs DEF HasRows
  <2> QED
    BY <2>1, <2>3, <2>4, RowsIs DEF Rows, OneAtATime, KnowsStatus, FirstIsAlone
<1>4. ASSUME NEW h \in Handlers, Instant(h, u) PROVE Rows'
  <2>1. status' = [status EXCEPT ![u] = "ASKED"] /\ status[u] = "NONE" /\ handler[h] = Idle
    BY <1>4 DEF Instant, Asked
  <2>2. \A g \in Handlers : handler[g].t # u
    BY <1>2, <2>1 DEF Rows, KnowsStatus
  <2>3. /\ \A g \in Handlers : g # h => handler'[g] = handler[g]
        /\ handler'[h].at = "instant" /\ handler'[h].t = u
    BY <1>1, <1>4, BeginsIs DEF Instant
  <2>4. \A g \in Handlers : g # h => status'[handler'[g].t] = status[handler[g].t]
    BY <1>1, <2>1, <2>2, <2>3
  <2>5. status'[handler'[h].t] = "ASKED"
    BY <1>1, <2>1, <2>3
  <2>6. \A g \in Handlers : HasRows(g)' <=> g # h /\ HasRows(g)
    BY <2>3, RowsIs DEF HasRows
  <2>7. \A f, g \in Handlers : HasRows(f)' /\ HasRows(g)' => f = g
    BY <2>6 DEF Rows, OneAtATime
  <2>8. \A g \in Handlers :
          /\ handler'[g].at # "idle" => status'[handler'[g].t] # "NONE"
          /\ handler'[g].at = "instant" => status'[handler'[g].t] = "ASKED"
          /\ handler'[g].at \in {"approve", "reject"}
               => status'[handler'[g].t] \in {"PENDING", "APPROVED", "REJECTED"}
          /\ HasRows(g)' => status'[handler'[g].t] \in {"ASKED", "PENDING"}
    BY <2>3, <2>4, <2>5, <2>6 DEF Rows, KnowsStatus
  <2>9. \A f, g \in Handlers :
          handler'[f].at = "instant" /\ handler'[g].t = handler'[f].t => f = g
    BY <2>2, <2>3 DEF Rows, FirstIsAlone
  <2> QED
    BY <2>7, <2>8, <2>9, RowsIs
<1>5. ASSUME NEW h \in Handlers, Decide(h, u) PROVE Rows'
  <2>1. status' = status /\ status[u] = "PENDING"
    BY <1>5 DEF Decide, crm
  <2>3. /\ \A g \in Handlers : g # h => handler'[g] = handler[g]
        /\ handler'[h].at \in {"approve", "reject"} /\ handler'[h].t = u
    BY <1>1, <1>5, BeginsIs DEF Decide
  <2>6. \A g \in Handlers : HasRows(g)' <=> g # h /\ HasRows(g)
    BY <2>3, RowsIs DEF HasRows
  <2>7. \A f, g \in Handlers : HasRows(f)' /\ HasRows(g)' => f = g
    BY <2>6 DEF Rows, OneAtATime
  <2>8. \A g \in Handlers :
          /\ handler'[g].at # "idle" => status'[handler'[g].t] # "NONE"
          /\ handler'[g].at = "instant" => status'[handler'[g].t] = "ASKED"
          /\ handler'[g].at \in {"approve", "reject"}
               => status'[handler'[g].t] \in {"PENDING", "APPROVED", "REJECTED"}
          /\ HasRows(g)' => status'[handler'[g].t] \in {"ASKED", "PENDING"}
    BY <2>1, <2>3, <2>6 DEF Rows, KnowsStatus
  <2>9. \A f, g \in Handlers :
          handler'[f].at = "instant" /\ handler'[g].t = handler'[f].t => f = g
    <3>1. \A f \in Handlers : handler'[f].at = "instant" => f # h /\ handler'[f].t # u
      BY <2>1, <2>3 DEF Rows, KnowsStatus
    <3> QED
      BY <2>3, <3>1 DEF Rows, FirstIsAlone
  <2> QED
    BY <2>7, <2>8, <2>9, RowsIs
<1> QED
  BY <1>3, <1>4, <1>5

\* A status is overwritten under the row's lock; nobody who relies on it is left.
LEMMA WritesRows ==
  ASSUME RecordsType, Rows, NEW h \in Handlers, NEW u \in TransferIds, handler[h].t = u,
         status'[u] \in {"APPROVED", "REJECTED"},
         \A t \in TransferIds : t # u => status'[t] = status[t],
         \A g \in Handlers : g # h => handler'[g] = handler[g],
         handler'[h] = Idle \/ (GoesOn(h) /\ ~HasRows(h)'),
         \A g \in Handlers : g # h /\ handler[g].t = u =>
           ~HasRows(g) /\ handler[g].at # "instant"
  PROVE  Rows'
<1>1. /\ HandlerType
      /\ status \in [TransferIds -> {"NONE", "ASKED", "PENDING", "APPROVED", "REJECTED"}]
  BY DEF RecordsType
<1>2. \A g \in Handlers : g # h => (HasRows(g)' <=> HasRows(g))
  BY RowsIs DEF HasRows
<1>3. ~HasRows(h)'
  BY RowsIs, IdleIs
<1>4. \A f, g \in Handlers : HasRows(f)' /\ HasRows(g)' => f = g
  BY <1>2, <1>3 DEF Rows, OneAtATime
<1>5. ASSUME NEW g \in Handlers, g # h, handler[g].t # u, handler[g].at # "idle"
      PROVE  status'[handler'[g].t] = status[handler[g].t]
  BY <1>1, <1>5, RecordFields DEF HandlerType
<1>6. \A g \in Handlers :
        /\ handler'[g].at # "idle" => status'[handler'[g].t] # "NONE"
        /\ handler'[g].at = "instant" => status'[handler'[g].t] = "ASKED"
        /\ handler'[g].at \in {"approve", "reject"}
             => status'[handler'[g].t] \in {"PENDING", "APPROVED", "REJECTED"}
        /\ HasRows(g)' => status'[handler'[g].t] \in {"ASKED", "PENDING"}
  <2>1. ASSUME NEW g \in Handlers, g # h
        PROVE  /\ handler'[g].at # "idle" => status'[handler'[g].t] # "NONE"
               /\ handler'[g].at = "instant" => status'[handler'[g].t] = "ASKED"
               /\ handler'[g].at \in {"approve", "reject"}
                    => status'[handler'[g].t] \in {"PENDING", "APPROVED", "REJECTED"}
               /\ HasRows(g)' => status'[handler'[g].t] \in {"ASKED", "PENDING"}
    <3>1. CASE handler[g].t = u
      BY <1>2, <2>1, <3>1
    <3>2. CASE handler[g].t # u
      BY <1>2, <1>5, <2>1, <3>2 DEF Rows, KnowsStatus, HasRows
    <3> QED
      BY <3>1, <3>2
  <2>2. /\ handler'[h].at # "idle" => status'[handler'[h].t] # "NONE"
        /\ handler'[h].at \notin {"instant", "approve", "reject"}
    BY IdleIs DEF GoesOn
  <2> QED
    BY <1>3, <2>1, <2>2
<1>7. \A f, g \in Handlers :
        handler'[f].at = "instant" /\ handler'[g].t = handler'[f].t => f = g
  <2>1. ASSUME NEW f \in Handlers, NEW g \in Handlers, handler'[f].at = "instant",
               handler'[g].t = handler'[f].t
        PROVE  f = g
    <3>1. f # h /\ handler'[f] = handler[f] /\ handler[f].t # u /\ handler[f].t # NoTransfer
      BY <1>1, <2>1, IdleIs DEF GoesOn, HandlerType
    <3>2. handler'[g].t = handler[g].t
      BY <2>1, <3>1, IdleIs DEF GoesOn
    <3> QED
      BY <2>1, <3>1, <3>2 DEF Rows, FirstIsAlone
  <2> QED
    BY <2>1
<1> QED
  BY <1>4, <1>6, <1>7, RowsIs

\* Handlers that go on with their rows, or leave them.
LEMMA HandlerRows ==
  ASSUME RecordsType, Rows, NEW h \in Handlers,
         ApplyStep(h) \/ UndoStep(h) \/ SaveFails(h) \/ Settle(h)
  PROVE  Rows'
<1>1. HandlerType
  BY DEF RecordsType
<1>2. status' = status
  BY DEF ApplyStep, DebitInCrm, DebitAccount, CreditInCrm, CreditAccount, CreditBreaks, UndoStep,
         TakeMoves, PutBack, PutsBack, PutBackEnds, SaveFails, Settle, crm
<1>3. ASSUME NEW at, NEW accts, NEW undo, Becomes(h, at, accts, undo),
             \/ /\ handler[h].at \in {"debit", "credit", "save"}
                /\ at \in {"credit", "reverse", "save", "failed"}
             \/ handler[h].at = "failed" /\ at = "reverse late"
             \/ handler[h].at \in {"reverse", "reverse late"} /\ at = handler[h].at
      PROVE  Rows'
  <2>1. /\ \A g \in Handlers : g # h => handler'[g] = handler[g]
        /\ handler'[h].at = at /\ handler'[h].t = handler[h].t
    BY <1>1, <1>3, BecomesIs
  <2>2. HasRows(h)' => HasRows(h)
    BY <1>3, <2>1, RowsIs DEF HasRows
  <2>3. GoesOn(h)
    BY <1>3, <2>1, <2>2 DEF GoesOn
  <2> QED
    BY <1>1, <1>2, <2>1, <2>3, QuietRows
<1>4. ASSUME Done(h) PROVE Rows'
  BY <1>1, <1>2, <1>4, BeginsIs, QuietRows
<1>5. CASE ApplyStep(h)
  <2>1. CASE DebitInCrm(h)
    BY <1>3, <2>1 DEF DebitInCrm, Goto, GivesUp
  <2>2. CASE DebitAccount(h)
    BY <1>3, <2>2 DEF DebitAccount, Goto, GivesUp
  <2>3. CASE CreditInCrm(h)
    BY <1>3, <2>3 DEF CreditInCrm, Goto, GivesUp, Applied
  <2>4. CASE CreditAccount(h)
    BY <1>3, <2>4 DEF CreditAccount, Goto, GivesUp, Applied
  <2>5. CASE CreditBreaks(h)
    BY <1>3, <2>5 DEF CreditBreaks, Goto, GivesUp
  <2> QED
    BY <1>5, <2>1, <2>2, <2>3, <2>4, <2>5 DEF ApplyStep
<1>6. CASE UndoStep(h)
  BY <1>3, <1>4, <1>6 DEF UndoStep, TakeMoves, PutBack, PutsBack, PutBackEnds
<1>7. CASE SaveFails(h) \/ Settle(h)
  BY <1>3, <1>4, <1>7 DEF SaveFails, Settle
<1> QED
  BY <1>5, <1>6, <1>7

\* The locks are taken when nobody has them.
LEMMA LockRows ==
  ASSUME RecordsType, Rows, NEW h \in Handlers, Lock(h)
  PROVE  Rows'
<1>1. HandlerType /\ status' = status /\ UserFree /\ handler[h].at \in {"approve", "instant"}
  BY DEF RecordsType, Lock, crm
<1>2. CASE Done(h)
  BY <1>1, <1>2, BeginsIs, QuietRows
<1>3. CASE /\ Becomes(h, "debit", active, {})
           /\ handler[h].at = "approve" => status[handler[h].t] = "PENDING"
  <2>1. /\ \A g \in Handlers : g # h => handler'[g] = handler[g]
        /\ handler'[h].at = "debit" /\ handler'[h].t = handler[h].t
    BY <1>1, <1>3, BecomesIs
  <2>2. \A g \in Handlers : HasRows(g)' => g = h
    BY <1>1, <2>1, RowsIs DEF UserFree, HasRows
  <2>3. status'[handler'[h].t] \in {"ASKED", "PENDING"}
    BY <1>1, <1>3, <2>1 DEF Rows, KnowsStatus
  <2>4. \A g \in Handlers :
          /\ handler'[g].at # "idle" => status'[handler'[g].t] # "NONE"
          /\ handler'[g].at = "instant" => status'[handler'[g].t] = "ASKED"
          /\ handler'[g].at \in {"approve", "reject"}
               => status'[handler'[g].t] \in {"PENDING", "APPROVED", "REJECTED"}
          /\ HasRows(g)' => status'[handler'[g].t] \in {"ASKED", "PENDING"}
    BY <1>1, <2>1, <2>2, <2>3 DEF Rows, KnowsStatus
  <2>5. \A f, g \in Handlers :
          handler'[f].at = "instant" /\ handler'[g].t = handler'[f].t => f = g
    BY <2>1 DEF Rows, FirstIsAlone
  <2> QED
    BY <2>2, <2>4, <2>5, RowsIs
<1> QED
  BY <1>1, <1>2, <1>3 DEF Lock

\* Every step keeps what the rows and their locks are good for.
LEMMA RowsStep == RecordsType /\ Rows /\ [Next]_vars => Rows'
<1> SUFFICES ASSUME RecordsType, Rows, [Next]_vars PROVE Rows'
  OBVIOUS
<1>1. /\ HandlerType
      /\ status \in [TransferIds -> {"NONE", "ASKED", "PENDING", "APPROVED", "REJECTED"}]
  BY DEF RecordsType
<1>2. ASSUME NEW h \in Handlers, handler[h].at # "idle" PROVE handler[h].t \in TransferIds
  BY <1>1, <1>2, RecordFields DEF HandlerType
<1>3. ASSUME NEW h \in Handlers, Reject(h) PROVE Rows'
  <2>1. PICK u \in TransferIds : u = handler[h].t
    BY <1>2, <1>3 DEF Reject
  <2>2. /\ Done(h) /\ RowFree(u) /\ handler[h].at = "reject"
        /\ status'[u] = "REJECTED" /\ \A t \in TransferIds : t # u => status'[t] = status[t]
    BY <1>1, <1>3, <2>1 DEF Reject
  <2>3. status[u] # "ASKED"
    BY <2>1, <2>2 DEF Rows, KnowsStatus
  <2>4. \A g \in Handlers : g # h /\ handler[g].t = u =>
          ~HasRows(g) /\ handler[g].at # "instant"
    BY <2>2, <2>3 DEF RowFree, Rows, KnowsStatus
  <2>5. handler'[h] = Idle /\ \A g \in Handlers : g # h => handler'[g] = handler[g]
    BY <1>1, <2>2, BeginsIs
  <2>6. handler'[h] = Idle \/ (GoesOn(h) /\ ~HasRows(h)')
    BY <2>5
  <2> QED
    BY <2>1, <2>2, <2>4, <2>5, <2>6, WritesRows
<1>4. ASSUME NEW h \in Handlers, Save(h) \/ SaveUnheard(h) PROVE Rows'
  <2>1. PICK u \in TransferIds : u = handler[h].t
    BY <1>2, <1>4 DEF Save, SaveUnheard
  <2>2. /\ handler[h].at = "save"
        /\ status'[u] = "APPROVED" /\ \A t \in TransferIds : t # u => status'[t] = status[t]
        /\ Becomes(h, "settle", {}, {}) \/ Becomes(h, "failed", {}, {})
    BY <1>1, <1>4, <2>1 DEF Save, SaveUnheard, Record
  <2>3. HasRows(h)
    BY <2>2 DEF HasRows
  <2>4. \A g \in Handlers : g # h /\ handler[g].t = u =>
          ~HasRows(g) /\ handler[g].at # "instant"
    BY <2>1, <2>3 DEF Rows, OneAtATime, FirstIsAlone
  <2>5. /\ \A g \in Handlers : g # h => handler'[g] = handler[g]
        /\ handler'[h].at \in {"settle", "failed"} /\ handler'[h].t = handler[h].t
    BY <1>1, <2>2, BecomesIs
  <2>6. GoesOn(h) /\ ~HasRows(h)'
    BY <2>2, <2>5, RowsIs DEF GoesOn
  <2> QED
    BY <2>1, <2>2, <2>4, <2>5, <2>6, WritesRows
<1>5. ASSUME Crash PROVE Rows'
  <2>1. status' = status /\ \A g \in Handlers : handler'[g] = handler[g] \/ handler'[g] = Idle
    BY <1>5 DEF Crash, crm
  <2> QED
    BY <1>1, <2>1, QuietRows
<1>6. ASSUME handler' = handler, status' = status PROVE Rows'
  BY <1>1, <1>6, QuietRows
<1>7. ASSUME NEW h \in Handlers, SaveStep(h) PROVE Rows'
  BY <1>4, <1>7, HandlerRows DEF SaveStep
<1>8. CASE Next
  <2>1. ASSUME \/ \E t \in TransferIds, k \in Calls : ServeLate(t, k)
               \/ \E a \in Trading : SwitchAccount(a)
        PROVE  Rows'
    BY <1>6, <2>1 DEF ServeLate, SwitchAccount, crm
  <2> QED
    BY <1>3, <1>5, <1>7, <1>8, <2>1, AskRows, LockRows, HandlerRows DEF Next
<1>9. CASE UNCHANGED vars
  BY <1>6, <1>9 DEF vars, crm
<1> QED
  BY <1>8, <1>9

-----------------------------------------------------------------------------
(* The invariant holds                                                      *)

\* At the start nothing is asked for and nothing has moved.
LEMMA InitInv == Init => Inv
<1> SUFFICES ASSUME Init PROVE Inv
  OBVIOUS
<1>1. \A h \in Handlers : handler[h] = Idle
  BY DEF Init
<1>2. \A h \in Handlers : /\ handler[h].at = "idle" /\ handler[h].t = NoTransfer
                          /\ handler[h] \in Records
  BY <1>1, IdleIs
<1>3. RecordsType
  BY <1>2 DEF Init, RecordsType, HandlerType
<1>4. Rows
  BY <1>2 DEF Rows, OneAtATime, KnowsStatus, FirstIsAlone, HasRows
<1>5. ASSUME NEW t \in TransferIds PROVE Straight(t)
  <2>1. With(t) = {}
    BY <1>2 DEF With
  <2>2. awaiting[t] = {} /\ refs[t] = {} /\ status[t] # "APPROVED" /\ t \notin booked
    BY DEF Init
  <2>3. Live(t) = {}
    BY <2>2 DEF Live
  <2> QED
    BY <2>1, <2>2, <2>3 DEF Straight, Shape, Account
<1> QED
  BY <1>3, <1>4, <1>5 DEF Inv

\* Every step keeps the invariant.
LEMMA StepInv == Inv /\ [Next]_vars => Inv'
<1> SUFFICES ASSUME Inv, [Next]_vars PROVE Inv'
  OBVIOUS
<1>1. RecordsType' /\ Rows'
  BY RecordsTypeStep, RowsStep DEF Inv
<1>2. \A t \in TransferIds : Straight(t)'
  BY StraightStep
<1> QED
  BY <1>1, <1>2 DEF Inv

\* For any transfers and handlers: the records keep their types, the locks hold, and of a transfer
\* that has not gone astray the gateway has moved what its record says or what one handler owes.
THEOREM KeptRight == Spec => []Inv
BY InitInv, StepInv, PTL DEF Spec

-----------------------------------------------------------------------------
(* The promise                                                              *)

\* What has moved of a transfer, when it has not gone astray.
LEMMA MovedIs ==
  ASSUME Inv, NEW t \in TransferIds, t \notin odd
  PROVE  MovedOf(t) = IF status[t] = "APPROVED" THEN "whole" ELSE "nothing"
<1>1. Account(t) /\ Live(t) \subseteq {"out", "in"}
  BY DEF Inv, Straight, Live
<1>2. Moves(t) = {} => Wallet \in {From[t], To[t]}
  BY DEF Moves
<1>3. CASE status[t] = "APPROVED"
  BY <1>1, <1>2, <1>3 DEF Account, With, MovedOf
<1>4. CASE status[t] # "APPROVED"
  BY <1>1, <1>4 DEF Account, With, MovedOf
<1> QED
  BY <1>3, <1>4

\* The same after a step.
LEMMA MovedIsNext ==
  ASSUME Inv', NEW t \in TransferIds, t \notin odd'
  PROVE  MovedOf(t)' = IF status'[t] = "APPROVED" THEN "whole" ELSE "nothing"
<1>1. Account(t)' /\ Live(t)' \subseteq {"out", "in"}
  BY DEF Inv, Straight, Live
<1>2. Moves(t) = {} => Wallet \in {From[t], To[t]}
  BY DEF Moves
<1>3. Moves(t)' = Moves(t)
  BY DEF Moves
<1>4. CASE status'[t] = "APPROVED"
  BY <1>1, <1>2, <1>3, <1>4 DEF Account, With, MovedOf
<1>5. CASE status'[t] # "APPROVED"
  BY <1>1, <1>5 DEF Account, With, MovedOf
<1> QED
  BY <1>4, <1>5

\* A step that concerns other transfers.
LEMMA MovedElsewhere ==
  ASSUME NEW t \in TransferIds,
         refs'[t] = refs[t], awaiting'[t] = awaiting[t], t \in booked' <=> t \in booked,
         \A g \in Handlers : \/ handler'[g] = handler[g]
                             \/ handler[g].t # t /\ handler'[g].t # t
  PROVE  MovedOf(t)' = MovedOf(t)
<1>1. Live(t)' = Live(t) /\ Moves(t)' = Moves(t)
  BY DEF Live, Moves
<1>2. \A g \in Handlers : (handler'[g].t = t /\ Owes(g)' # {})
        <=> (handler[g].t = t /\ Owes(g) # {})
  BY OwesIs
<1>3. (\E g \in Handlers : handler'[g].t = t /\ Owes(g)' # {})
        <=> \E g \in Handlers : handler[g].t = t /\ Owes(g) # {}
  BY <1>2
<1> QED
  BY <1>1, <1>3 DEF MovedOf

\* The status of a transfer does not change unless it has gone astray.
LEMMA Astray ==
  ASSUME Inv, Inv', odd \subseteq odd',
         \A t \in TransferIds \ odd' : status'[t] = status[t]
  PROVE  Promise!Next
<1>1. \A t \in TransferIds \ odd' : MovedOf(t)' = MovedOf(t)
  BY MovedIs, MovedIsNext
<1>2. odd' \subseteq TransferIds /\ DOMAIN status' = TransferIds
  BY DEF Inv, RecordsType
<1>3. Promise!GoAstray
  BY <1>1, <1>2 DEF Promise!GoAstray
<1> QED
  BY <1>3 DEF Promise!Next

\* The status of one transfer changes, and nothing else that is promised.
LEMMA OneChanges ==
  ASSUME Inv, Inv', odd' = odd, NEW u \in TransferIds, u \notin odd, NEW s,
         status' = [status EXCEPT ![u] = s],
         \/ status[u] = "NONE" /\ s \in {"ASKED", "PENDING"}
         \/ status[u] \in {"ASKED", "PENDING"} /\ s = "APPROVED"
         \/ status[u] \in {"PENDING", "REJECTED"} /\ s = "REJECTED",
         refs' = refs, awaiting' = awaiting,
         \A t \in TransferIds : t # u => (t \in booked' <=> t \in booked),
         \A g \in Handlers : \/ handler'[g] = handler[g]
                             \/ /\ handler[g].t \in {u, NoTransfer}
                                /\ handler'[g].t \in {u, NoTransfer}
  PROVE  Promise!Next
<1>1. \A t \in TransferIds : t # u => MovedOf(t)' = MovedOf(t)
  BY MovedElsewhere
<1>2. MovedOf(u) = "nothing" /\ status'[u] = s
  BY MovedIs DEF Inv, RecordsType
<1>3. MovedOf(u)' = IF s = "APPROVED" THEN "whole" ELSE "nothing"
  BY <1>2, MovedIsNext
<1>4. CASE s = "APPROVED"
  <2>1. [t \in TransferIds |-> MovedOf(t)']
          = [[t \in TransferIds |-> MovedOf(t)] EXCEPT ![u] = "whole"]
    BY <1>1, <1>3, <1>4
  <2>2. Promise!Approve(u)
    BY <1>2, <1>4, <2>1 DEF Promise!Approve
  <2> QED
    BY <2>2 DEF Promise!Next
<1>5. CASE s # "APPROVED"
  <2>1. [t \in TransferIds |-> MovedOf(t)'] = [t \in TransferIds |-> MovedOf(t)]
    BY <1>1, <1>2, <1>3, <1>5
  <2>2. Promise!Ask(u) \/ Promise!Reject(u)
    BY <1>2, <1>5, <2>1 DEF Promise!Ask, Promise!Reject
  <2> QED
    BY <2>2 DEF Promise!Next
<1> QED
  BY <1>4, <1>5

\* The state of the promise at the start.
LEMMA PromiseInit == Init => Promise!Init
<1> SUFFICES ASSUME Init PROVE Promise!Init
  OBVIOUS
<1>1. \A t \in TransferIds : MovedOf(t) = "nothing"
  BY InitInv, MovedIs DEF Init
<1> QED
  BY <1>1 DEF Init, Promise!Init

\* A request is a request of the promise.
LEMMA AskIsPromised ==
  ASSUME Inv, Inv', odd \subseteq odd', NEW u \in TransferIds,
         Submit(u) \/ \E h \in Handlers : Instant(h, u) \/ Decide(h, u)
  PROVE  Promise!Next
<1>1. odd' = odd /\ refs' = refs /\ awaiting' = awaiting /\ booked' = booked
  BY DEF Submit, Instant, Decide, crm, gateway
<1>2. CASE status' = status \/ u \in odd
  <2>1. \A t \in TransferIds \ odd' : status'[t] = status[t]
    BY <1>1, <1>2 DEF Submit, Instant, Decide, crm, Inv, RecordsType
  <2> QED
    BY <2>1, Astray
<1>3. CASE Submit(u) /\ u \notin odd
  BY <1>1, <1>3, OneChanges DEF Submit, Asked
<1>4. ASSUME NEW h \in Handlers, Instant(h, u), u \notin odd PROVE Promise!Next
  <2>1. \A g \in Handlers : \/ handler'[g] = handler[g]
                            \/ /\ handler[g].t \in {u, NoTransfer}
                               /\ handler'[g].t \in {u, NoTransfer}
    <3>1. handler[h].t = NoTransfer /\ HandlerType
      BY <1>4, IdleIs DEF Instant, Inv, RecordsType
    <3> QED
      BY <1>4, <3>1, BeginsIs DEF Instant
  <2> QED
    BY <1>1, <1>4, <2>1, OneChanges DEF Instant, Asked
<1> QED
  BY <1>2, <1>3, <1>4 DEF Decide, crm

\* So is a rejection,
LEMMA RejectIsPromised ==
  ASSUME Inv, Inv', odd \subseteq odd', NEW h \in Handlers, Reject(h)
  PROVE  Promise!Next
<1> PICK u \in TransferIds : handler[h].t = u
  BY HasTransfer DEF Reject
<1>1. /\ refs' = refs /\ awaiting' = awaiting /\ booked' = booked
      /\ status' = [status EXCEPT ![u] = "REJECTED"]
      /\ status[u] = "APPROVED" => u \in odd'
      /\ odd' = odd \/ u \in odd'
      /\ handler[h].at = "reject" /\ Done(h)
  BY DEF Reject, gateway
<1>2. CASE u \in odd'
  <2>1. \A t \in TransferIds \ odd' : status'[t] = status[t]
    BY <1>1, <1>2 DEF Inv, RecordsType
  <2> QED
    BY <2>1, Astray
<1>3. CASE u \notin odd'
  <2>1. status[u] \in {"PENDING", "REJECTED"} /\ odd' = odd
    BY <1>1, <1>3 DEF Inv, Rows, KnowsStatus
  <2>2. \A g \in Handlers : \/ handler'[g] = handler[g]
                            \/ /\ handler[g].t \in {u, NoTransfer}
                               /\ handler'[g].t \in {u, NoTransfer}
    BY <1>1, BeginsIs, IdleIs DEF Inv, RecordsType
  <2> QED
    BY <1>1, <1>3, <2>1, <2>2, OneChanges
<1> QED
  BY <1>2, <1>3

\* and the commit of the record.
LEMMA SaveIsPromised ==
  ASSUME Inv, Inv', odd \subseteq odd', NEW h \in Handlers, Save(h) \/ SaveUnheard(h)
  PROVE  Promise!Next
<1> PICK u \in TransferIds : handler[h].t = u
  BY HasTransfer DEF Save, SaveUnheard
<1>1. /\ refs' = refs /\ awaiting' = awaiting
      /\ status' = [status EXCEPT ![u] = "APPROVED"]
      /\ \A t \in TransferIds : t # u => (t \in booked' <=> t \in booked)
      /\ odd' = odd \/ u \in odd'
      /\ handler[h].at = "save"
      /\ Becomes(h, "settle", {}, {}) \/ Becomes(h, "failed", {}, {})
  BY DEF Save, SaveUnheard, Record, gateway
<1>2. CASE u \in odd'
  <2>1. \A t \in TransferIds \ odd' : status'[t] = status[t]
    BY <1>1, <1>2 DEF Inv, RecordsType
  <2> QED
    BY <2>1, Astray
<1>3. CASE u \notin odd'
  <2>1. status[u] \in {"ASKED", "PENDING"} /\ odd' = odd
    BY <1>1, <1>3 DEF Inv, Rows, KnowsStatus, HasRows
  <2>2. \A g \in Handlers : \/ handler'[g] = handler[g]
                            \/ /\ handler[g].t \in {u, NoTransfer}
                               /\ handler'[g].t \in {u, NoTransfer}
    BY <1>1, BecomesIs DEF Inv, RecordsType
  <2> QED
    BY <1>1, <1>3, <2>1, <2>2, OneChanges
<1> QED
  BY <1>2, <1>3

\* Every step is a step of the promise.
LEMMA PromiseStep == Inv /\ [Next]_vars => [Promise!Next]_(Promise!vars)
<1> SUFFICES ASSUME Inv, [Next]_vars PROVE Promise!Next
  OBVIOUS
<1>0. Inv' /\ odd \subseteq odd'
  BY StepInv, OddGrows
<1>1. ASSUME status' = status PROVE Promise!Next
  BY <1>0, <1>1, Astray
<1>2. ASSUME NEW h \in Handlers, ApplyStep(h) \/ UndoStep(h) \/ Lock(h) PROVE status' = status
  BY <1>2 DEF ApplyStep, DebitInCrm, DebitAccount, CreditInCrm, CreditAccount, CreditBreaks,
              UndoStep, TakeMoves, PutBack, PutsBack, PutBackEnds, Lock, crm
<1>3. ASSUME NEW h \in Handlers, SaveFails(h) \/ Settle(h) PROVE status' = status
  BY <1>3 DEF SaveFails, Settle, crm
<1>4. ASSUME \/ \E t \in TransferIds, k \in Calls : ServeLate(t, k)
             \/ \E a \in Trading : SwitchAccount(a)
             \/ Crash \/ UNCHANGED vars
      PROVE  status' = status
  BY <1>4 DEF ServeLate, SwitchAccount, Crash, crm, vars
<1>5. ASSUME NEW h \in Handlers, SaveStep(h) PROVE Promise!Next
  BY <1>0, <1>1, <1>3, <1>5, SaveIsPromised DEF SaveStep
<1>6. CASE Next
  BY <1>0, <1>1, <1>2, <1>4, <1>5, <1>6, AskIsPromised, RejectIsPromised DEF Next
<1> QED
  BY <1>1, <1>4, <1>6

\* The handlers, with their calls, reversals, lost commits and crashes, implement the promise, for
\* any number of transfers, handlers and accounts.
THEOREM ImplementsPromise == Spec => KeepsPromise
BY InitInv, StepInv, PromiseInit, PromiseStep, PTL DEF Spec, KeepsPromise, Promise!Spec

-----------------------------------------------------------------------------
(* What is spent is covered                                                 *)

\* The source was debited and the record is not saved yet.
Spends(h) == handler[h].at \in {"credit", "save"}

\* What a handler has seen under its locks stays so until it saves.
SpenderCovered(h) ==
  /\ From[handler[h].t] = Wallet => WalletCovers(handler[h].t)
  /\ From[handler[h].t] = IbWallet => IbCovers(handler[h].t)

Covered ==
  /\ wallet \in Nat /\ IbSpent <= IbCredit
  /\ \A h \in Handlers : Spends(h) => SpenderCovered(h)

\* The amounts of a set of transfers: a part is at most the whole, and one more adds its own.
LEMMA TotalIs ==
  ASSUME NEW ts \in SUBSET TransferIds
  PROVE  /\ Total(ts) \in Nat
         /\ \A us \in SUBSET ts : Total(us) <= Total(ts)
         /\ \A t \in TransferIds \ ts : Total(ts \cup {t}) = Total(ts) + Amount[t]
         /\ \A t \in ts : Amount[t] <= Total(ts)
<1>0. \A us : Total(us) = SumOver(Amount, us)
  BY DEF Total, SumOver, MapThenSumSet, MapThenFoldSet
<1>1. IsFiniteSet(ts) /\ \A t \in TransferIds : Amount[t] \in Nat /\ Amount[t] \in Int
  BY FS_Subset
<1>2. SumOver(Amount, ts) \in Nat
  BY <1>1, SumIsNat
<1>3. \A us \in SUBSET ts : SumOver(Amount, us) <= SumOver(Amount, ts)
  BY <1>1, SumOfPart
<1>4. ASSUME NEW t \in TransferIds \ ts
      PROVE  SumOver(Amount, ts \cup {t}) = SumOver(Amount, ts) + Amount[t]
  BY <1>1, SumMore
<1>5. ASSUME NEW t \in ts PROVE Amount[t] <= SumOver(Amount, ts)
  <2>1. SumOver(Amount, ts \ {t}) = SumOver(Amount, ts) - Amount[t]
    BY <1>1, SumLeft
  <2>2. IsFiniteSet(ts \ {t})
    BY <1>1, FS_Subset
  <2>3. SumOver(Amount, ts \ {t}) \in Nat
    BY <1>1, <2>2, SumIsNat
  <2> QED
    BY <1>1, <1>2, <2>1, <2>3
<1> QED
  BY <1>0, <1>2, <1>3, <1>4, <1>5

\* The transfers whose commissions are spent, and those that still wait to be paid from the wallet.
FromIb(s) == {t \in TransferIds : From[t] = IbWallet /\ s[t] = "APPROVED"}
Waits(s) == {t \in TransferIds : From[t] = Wallet /\ s[t] = "PENDING"}

LEMMA SpentIs ==
  /\ IbSpent = Total(FromIb(status)) /\ IbSpent' = Total(FromIb(status'))
  /\ Pending(Wallet) = Waits(status) /\ Pending(Wallet)' = Waits(status')
  /\ PendingTotal = Total(Waits(status)) /\ PendingTotal' = Total(Waits(status'))
  /\ \A t \in TransferIds :
       /\ WalletCovers(t) <=> wallet - Withdrawing - Total(Waits(status)) >= Amount[t]
       /\ IbCovers(t) <=> IbCredit - Total(FromIb(status)) >= Amount[t]
       /\ WalletCovers(t)' <=> wallet' - Withdrawing - Total(Waits(status')) >= Amount[t]
       /\ IbCovers(t)' <=> IbCredit - Total(FromIb(status')) >= Amount[t]
<1>1. Pending(Wallet) = Waits(status) /\ Pending(Wallet)' = Waits(status')
  BY DEF Pending, Waits
<1>2. IbSpent = Total(FromIb(status)) /\ IbSpent' = Total(FromIb(status'))
  BY DEF IbSpent, FromIb
<1>3. PendingTotal = Total(Waits(status)) /\ PendingTotal' = Total(Waits(status'))
  BY <1>1 DEF PendingTotal
<1> QED
  BY <1>1, <1>2, <1>3 DEF WalletCovers, IbCovers

\* Whoever has debited its source after a step had done so before it, or has just seen that the
\* funds are there.
LEMMA SpenderIs ==
  ASSUME Inv, [Next]_vars, NEW h \in Handlers, handler'[h].at \in {"credit", "save"}
  PROVE  /\ handler'[h].t = handler[h].t /\ handler[h].t \in TransferIds /\ HasRows(h)
         /\ Spends(h) \/ (SpenderCovered(h) /\ UNCHANGED <<status, wallet>>)
<1>0. HandlerType /\ \A g \in Handlers : HasRows(g) => handler[g].t \in TransferIds
  BY RecordFields DEF Inv, RecordsType, HandlerType, HasRows
<1> DEFINE Goal == /\ handler'[h].t = handler[h].t /\ handler[h].t \in TransferIds /\ HasRows(h)
                   /\ Spends(h) \/ (SpenderCovered(h) /\ UNCHANGED <<status, wallet>>)
<1>1. CASE handler'[h] = handler[h]
  BY <1>0, <1>1 DEF Spends, HasRows
<1>2. ASSUME NEW t \in TransferIds, NEW g \in Handlers, Instant(g, t) \/ Decide(g, t) PROVE Goal
  BY <1>0, <1>1, <1>2, BeginsIs DEF Instant, Decide
<1>3. ASSUME NEW g \in Handlers, Done(g) PROVE Goal
  BY <1>0, <1>1, <1>3, BeginsIs, IdleIs
<1>4. ASSUME NEW g \in Handlers, NEW at, NEW accts, NEW undo, Becomes(g, at, accts, undo),
             at \notin {"credit", "save"}
      PROVE  Goal
  BY <1>0, <1>1, <1>4, BecomesIs
<1>5. ASSUME NEW g \in Handlers, NEW at, NEW accts, NEW undo, Becomes(g, at, accts, undo),
             handler[g].at = "credit"
      PROVE  Goal
  BY <1>0, <1>1, <1>5, BecomesIs DEF HasRows, Spends
<1>6. ASSUME NEW g \in Handlers, NEW at, NEW accts, NEW undo, Becomes(g, at, accts, undo),
             handler[g].at = "debit", SpenderCovered(g), UNCHANGED <<status, wallet>>
      PROVE  Goal
  BY <1>0, <1>1, <1>6, BecomesIs DEF HasRows
<1> HIDE DEF Goal
<1>7. ASSUME NEW g \in Handlers, DebitInCrm(g) PROVE Goal
  <2>1. ASSUME GivesUp(g) PROVE Goal
    BY <1>4, <2>1 DEF GivesUp, Goto
  <2>2. ASSUME From[handler[g].t] = Wallet, WalletCovers(handler[g].t), Goto(g, "credit")
        PROVE  Goal
    BY <1>6, <1>7, <2>2 DEF Goto, DebitInCrm, SpenderCovered, crm
  <2>3. ASSUME From[handler[g].t] = IbWallet, IbCovers(handler[g].t), Goto(g, "credit")
        PROVE  Goal
    BY <1>6, <1>7, <2>3 DEF Goto, DebitInCrm, SpenderCovered, crm
  <2> QED
    BY <1>7, <2>1, <2>2, <2>3 DEF DebitInCrm
<1>8. ASSUME NEW g \in Handlers, DebitAccount(g) PROVE Goal
  <2>1. handler[g].accts \subseteq Trading /\ From[handler[g].t] \in handler[g].accts
    BY <1>0, <1>8, RecordFields DEF HandlerType, DebitAccount
  <2>2. SpenderCovered(g)
    BY <2>1 DEF SpenderCovered
  <2>3. CASE Becomes(g, "credit", handler[g].accts, {"out"})
    BY <1>6, <1>8, <2>2, <2>3 DEF DebitAccount, crm
  <2>4. CASE GivesUp(g)
    BY <1>4, <2>4 DEF GivesUp, Goto
  <2> QED
    BY <1>8, <2>3, <2>4 DEF DebitAccount
<1>9. ASSUME NEW g \in Handlers, CreditInCrm(g) \/ CreditAccount(g) \/ CreditBreaks(g) PROVE Goal
  BY <1>5, <1>9 DEF CreditInCrm, CreditAccount, CreditBreaks, Applied, GivesUp, Goto
<1>10. ASSUME NEW g \in Handlers, UndoStep(g) PROVE Goal
  <2>1. CASE TakeMoves(g)
    <3>1. PICK undo : Becomes(g, "reverse late", {}, undo)
      BY <2>1 DEF TakeMoves
    <3> QED
      BY <1>4, <3>1
  <2>2. CASE PutBack(g)
    <3>1. handler[g].at \notin {"credit", "save"}
      BY <2>2 DEF PutBack, PutsBack
    <3>2. PICK left : Becomes(g, handler[g].at, handler[g].accts, left)
      BY <2>2 DEF PutBack, PutsBack
    <3> QED
      BY <1>4, <3>1, <3>2
  <2>3. CASE PutBackEnds(g)
    BY <1>3, <2>3 DEF PutBackEnds
  <2> QED
    BY <1>10, <2>1, <2>2, <2>3 DEF UndoStep
<1>11. ASSUME NEW g \in Handlers, SaveStep(g) PROVE Goal
  BY <1>3, <1>4, <1>11 DEF SaveStep, Save, SaveFails, SaveUnheard, Settle
<1>12. ASSUME NEW g \in Handlers, Reject(g) \/ Lock(g) PROVE Goal
  BY <1>3, <1>4, <1>12 DEF Reject, Lock
<1>13. ASSUME Crash PROVE Goal
  <2>1. handler'[h] = Idle \/ handler'[h] = handler[h]
    BY <1>13 DEF Crash
  <2> QED
    BY <1>1, <2>1, IdleIs DEF Goal
<1>14. ASSUME UNCHANGED handler PROVE Goal
  BY <1>1, <1>14 DEF Goal
<1>15. ASSUME UNCHANGED vars PROVE Goal
  BY <1>14, <1>15 DEF vars
<1>16. ASSUME Next PROVE Goal
  BY <1>2, <1>7, <1>8, <1>9, <1>10, <1>11, <1>12, <1>13, <1>14, <1>16
     DEF Next, ApplyStep, Submit, ServeLate, SwitchAccount
<1>17. Goal
  BY <1>15, <1>16
<1> QED
  BY <1>17 DEF Goal

\* The steps that write what is covered: a request, while nobody has the rows; a rejection, which
\* takes a transfer out of either set; and the commit of a record.
LEMMA WritersAre ==
  ASSUME [Next]_vars
  PROVE  \/ UNCHANGED <<status, wallet>>
         \/ \E t \in TransferIds : /\ status[t] = "NONE" /\ wallet' = wallet
                                   /\ \/ UserFree /\ status' = [status EXCEPT ![t] = "PENDING"]
                                      \/ status' = [status EXCEPT ![t] = "ASKED"]
         \/ \E h \in Handlers : handler[h].at = "reject" /\ wallet' = wallet
                                /\ status' = [status EXCEPT ![handler[h].t] = "REJECTED"]
         \/ \E h \in Handlers : /\ handler[h].at = "save" /\ Record(handler[h].t)
                                /\ \E at \in {"settle", "failed"} : Becomes(h, at, {}, {})
<1>1. ASSUME NEW h \in Handlers, ApplyStep(h) \/ UndoStep(h) \/ Lock(h)
      PROVE  UNCHANGED <<status, wallet>>
  BY <1>1 DEF ApplyStep, DebitInCrm, DebitAccount, CreditInCrm, CreditAccount, CreditBreaks,
              UndoStep, TakeMoves, PutBack, PutsBack, PutBackEnds, Lock, crm
<1>2. ASSUME NEW h \in Handlers, SaveFails(h) \/ Settle(h) PROVE UNCHANGED <<status, wallet>>
  BY <1>2 DEF SaveFails, Settle, crm
<1>3. ASSUME \/ \E t \in TransferIds, h \in Handlers : Decide(h, t)
             \/ \E t \in TransferIds, k \in Calls : ServeLate(t, k)
             \/ \E a \in Trading : SwitchAccount(a)
             \/ Crash \/ UNCHANGED vars
      PROVE  UNCHANGED <<status, wallet>>
  BY <1>3 DEF Decide, ServeLate, SwitchAccount, Crash, crm, vars
<1>4. ASSUME NEW t \in TransferIds, Submit(t)
      PROVE  status[t] = "NONE" /\ wallet' = wallet /\ UserFree
             /\ status' = [status EXCEPT ![t] = "PENDING"]
  BY <1>4 DEF Submit, Asked
<1>5. ASSUME NEW t \in TransferIds, NEW h \in Handlers, Instant(h, t)
      PROVE  status[t] = "NONE" /\ wallet' = wallet /\ status' = [status EXCEPT ![t] = "ASKED"]
  BY <1>5 DEF Instant, Asked
<1>6. ASSUME NEW h \in Handlers, Reject(h)
      PROVE  handler[h].at = "reject" /\ wallet' = wallet
             /\ status' = [status EXCEPT ![handler[h].t] = "REJECTED"]
  BY <1>6 DEF Reject
<1>7. ASSUME NEW h \in Handlers, Save(h) \/ SaveUnheard(h)
      PROVE  /\ handler[h].at = "save" /\ Record(handler[h].t)
             /\ \E at \in {"settle", "failed"} : Becomes(h, at, {}, {})
  BY <1>7 DEF Save, SaveUnheard
<1>8. CASE Next
  BY <1>1, <1>2, <1>3, <1>4, <1>5, <1>6, <1>7, <1>8 DEF Next, SaveStep
<1> QED
  BY <1>3, <1>8

\* When what waits and what is spent do not grow and the wallet stays, all that was covered is.
LEMMA CoveredStays ==
  ASSUME Inv, Covered, [Next]_vars, wallet' = wallet,
         Waits(status') \subseteq Waits(status) \/ \A h \in Handlers : ~HasRows(h),
         FromIb(status') \subseteq FromIb(status)
  PROVE  Covered'
<1>1. /\ FromIb(status) \in SUBSET TransferIds /\ Waits(status) \in SUBSET TransferIds
      /\ FromIb(status') \in SUBSET TransferIds /\ Waits(status') \in SUBSET TransferIds
  BY DEF FromIb, Waits
<1>2. /\ Total(FromIb(status')) <= Total(FromIb(status))
      /\ Total(FromIb(status)) \in Nat /\ Total(FromIb(status')) \in Nat
      /\ Total(Waits(status)) \in Nat /\ Total(Waits(status')) \in Nat
  BY <1>1, TotalIs
<1>3. wallet' \in Nat /\ IbSpent' <= IbCredit
  BY <1>2, SpentIs DEF Covered
<1>4. ASSUME NEW h \in Handlers, Spends(h)' PROVE SpenderCovered(h)'
  <2>1. /\ handler'[h].t = handler[h].t /\ handler[h].t \in TransferIds /\ HasRows(h)
        /\ SpenderCovered(h)
    BY <1>4, SpenderIs DEF Spends, Covered
  <2> DEFINE t == handler[h].t
  <2>2. Total(Waits(status')) <= Total(Waits(status))
    BY <1>1, <2>1, TotalIs
  <2>3. Amount[t] \in Nat /\ wallet \in Nat
    BY <2>1 DEF Covered
  <2>4. From[t] = Wallet => WalletCovers(t)'
    BY <1>2, <2>1, <2>2, <2>3, SpentIs DEF SpenderCovered
  <2>5. From[t] = IbWallet => IbCovers(t)'
    BY <1>2, <2>1, <2>3, SpentIs DEF SpenderCovered
  <2>6. handler[h].t' = t
    BY <2>1
  <2> QED
    BY <2>4, <2>5, <2>6 DEF SpenderCovered
<1> QED
  BY <1>3, <1>4 DEF Covered

\* The commit takes from the wallet what was covered, and spends commissions that were.
LEMMA RecordCovered ==
  ASSUME Inv, Covered, [Next]_vars, NEW h \in Handlers, handler[h].at = "save",
         Record(handler[h].t), NEW at \in {"settle", "failed"}, Becomes(h, at, {}, {})
  PROVE  /\ Covered'
         /\ wallet' < wallet => wallet' >= Withdrawing + PendingTotal'
<1> DEFINE t == handler[h].t
<1>0. /\ t \in TransferIds /\ status[t] \in {"ASKED", "PENDING"} /\ HandlerType
      /\ SpenderCovered(h) /\ HasRows(h) /\ wallet \in Nat
      /\ status \in [TransferIds -> {"NONE", "ASKED", "PENDING", "APPROVED", "REJECTED"}]
  BY RecordFields DEF Inv, Rows, KnowsStatus, RecordsType, HandlerType, HasRows, Covered, Spends
<1> HIDE DEF t
<1>1. /\ FromIb(status) \in SUBSET TransferIds /\ Waits(status) \in SUBSET TransferIds
      /\ Waits(status') \in SUBSET Waits(status)
      /\ FromIb(status') = IF From[t] = IbWallet THEN FromIb(status) \cup {t} ELSE FromIb(status)
      /\ t \notin FromIb(status)
  BY <1>0 DEF FromIb, Waits, Record, t
<1>2. /\ Total(Waits(status)) \in Nat /\ Total(Waits(status')) <= Total(Waits(status))
      /\ Total(FromIb(status)) \in Nat /\ Total(Waits(status')) \in Nat
      /\ From[t] = IbWallet => Total(FromIb(status')) = Total(FromIb(status)) + Amount[t]
  <2>1. Waits(status') \in SUBSET TransferIds
    BY <1>1
  <2> QED
    BY <1>0, <1>1, <2>1, TotalIs
<1>3. /\ wallet' = wallet + (IF To[t] = Wallet THEN Amount[t] ELSE 0)
                          - (IF From[t] = Wallet THEN Amount[t] ELSE 0)
      /\ From[t] # To[t] /\ Amount[t] \in Nat
  BY <1>0 DEF Record, t
<1>4. From[t] = Wallet => wallet - Withdrawing - Total(Waits(status)) >= Amount[t]
  BY <1>0, SpentIs DEF SpenderCovered, t
<1>5. From[t] = IbWallet => IbCredit - Total(FromIb(status)) >= Amount[t]
  BY <1>0, SpentIs DEF SpenderCovered, t
<1>6. Withdrawing \in Nat /\ IbCredit \in Nat
  OBVIOUS
<1>7. wallet' \in Nat
  BY <1>0, <1>2, <1>3, <1>4, <1>6
<1>8. IbSpent' <= IbCredit
  <2>1. Total(FromIb(status)) <= IbCredit
    BY SpentIs DEF Covered
  <2> QED
    BY <1>1, <1>2, <1>3, <1>5, <1>6, <2>1, SpentIs
<1>9. ASSUME NEW g \in Handlers PROVE ~Spends(g)'
  <2>1. CASE g = h
    BY <1>0, <2>1, BecomesIs DEF Spends
  <2>2. CASE g # h
    <3>1. handler'[g] = handler[g] /\ ~HasRows(g)
      BY <1>0, <2>2, BecomesIs DEF Inv, Rows, OneAtATime
    <3> QED
      BY <3>1 DEF Spends, HasRows
  <2> QED
    BY <2>1, <2>2
<1>10. Covered'
  BY <1>7, <1>8, <1>9 DEF Covered
<1>11. wallet' < wallet => wallet' >= Withdrawing + PendingTotal'
  BY <1>0, <1>2, <1>3, <1>4, <1>6, SpentIs
<1> QED
  BY <1>10, <1>11

LEMMA CoveredStep ==
  ASSUME Inv, Covered, [Next]_vars
  PROVE  /\ Covered'
         /\ wallet' < wallet => wallet' >= Withdrawing + PendingTotal'
<1>0. /\ status \in [TransferIds -> {"NONE", "ASKED", "PENDING", "APPROVED", "REJECTED"}]
      /\ wallet \in Nat /\ \A h \in Handlers : handler[h].at = "reject" => handler[h].t \in TransferIds
  BY RecordFields DEF Inv, RecordsType, HandlerType, Covered
<1>1. wallet' = wallet => ~(wallet' < wallet)
  BY <1>0
<1>2. CASE UNCHANGED <<status, wallet>>
  BY <1>1, <1>2, CoveredStays
<1>3. ASSUME NEW t \in TransferIds, status[t] = "NONE", wallet' = wallet, UserFree,
             status' = [status EXCEPT ![t] = "PENDING"]
      PROVE  Covered'
  <2>1. FromIb(status') \subseteq FromIb(status) /\ \A h \in Handlers : ~HasRows(h)
    BY <1>0, <1>3 DEF FromIb, UserFree
  <2> QED
    BY <1>3, <2>1, CoveredStays
<1>4. ASSUME NEW t \in TransferIds, NEW s \in {"ASKED", "REJECTED"}, wallet' = wallet,
             status' = [status EXCEPT ![t] = s]
      PROVE  Covered'
  <2>1. FromIb(status') \subseteq FromIb(status) /\ Waits(status') \subseteq Waits(status)
    BY <1>0, <1>4 DEF FromIb, Waits
  <2> QED
    BY <1>4, <2>1, CoveredStays
<1>5. CASE \E t \in TransferIds : /\ status[t] = "NONE" /\ wallet' = wallet
                                  /\ \/ UserFree /\ status' = [status EXCEPT ![t] = "PENDING"]
                                     \/ status' = [status EXCEPT ![t] = "ASKED"]
  BY <1>1, <1>3, <1>4, <1>5
<1>6. CASE \E h \in Handlers : handler[h].at = "reject" /\ wallet' = wallet
                               /\ status' = [status EXCEPT ![handler[h].t] = "REJECTED"]
  <2>1. PICK h \in Handlers : /\ handler[h].at = "reject" /\ wallet' = wallet
                              /\ status' = [status EXCEPT ![handler[h].t] = "REJECTED"]
    BY <1>6
  <2>2. handler[h].t \in TransferIds
    BY <1>0, <2>1
  <2> QED
    BY <1>1, <1>4, <2>1, <2>2
<1>7. CASE \E h \in Handlers : /\ handler[h].at = "save" /\ Record(handler[h].t)
                               /\ \E at \in {"settle", "failed"} : Becomes(h, at, {}, {})
  BY <1>7, RecordCovered
<1> QED
  BY <1>2, <1>5, <1>6, <1>7, WritersAre

LEMMA CoveredInit == Init => Covered
<1> SUFFICES ASSUME Init PROVE Covered
  OBVIOUS
<1>1. FromIb(status) = {}
  BY DEF Init, FromIb
<1>2. Total({}) = 0
  <2>1. Total({}) = SumOver(Amount, {})
    BY DEF Total, SumOver, MapThenSumSet, MapThenFoldSet
  <2> QED
    BY <2>1, SumOfNone
<1>3. \A h \in Handlers : ~Spends(h)
  <2>1. \A h \in Handlers : handler[h] = Idle
    BY DEF Init
  <2> QED
    BY <2>1, IdleIs DEF Spends
<1>4. IbSpent = 0
  BY <1>1, <1>2, SpentIs
<1>5. wallet \in Nat /\ IbCredit \in Nat
  BY TransfersAssumption DEF Init
<1>6. IbSpent <= IbCredit
  BY <1>4, <1>5
<1> QED
  BY <1>3, <1>5, <1>6, Zenon DEF Covered

LEMMA CoveredAlways == Spec => [](Inv /\ Covered)
<1>1. Inv /\ Covered /\ [Next]_vars => (Inv /\ Covered)'
  BY StepInv, CoveredStep
<1> QED
  BY <1>1, InitInv, CoveredInit, PTL DEF Spec

\* Every variable keeps its type, and the wallet is never overdrawn, whoever else waits to be paid
\* from it.
THEOREM TypeCorrect == Spec => []TypeOK
<1>1. Inv /\ Covered => TypeOK
  BY DEF Inv, Covered, TypeOK
<1> QED
  BY <1>1, CoveredAlways, PTL

\* What leaves the wallet leaves behind what pending withdrawals and the transfers that stay PENDING
\* have asked for: the balance that the handler looked at is the one it takes from.
THEOREM PendingKept == Spec => PendingStaysCovered
<1>1. Inv /\ Covered /\ [Next]_vars => [wallet' < wallet => wallet' >= Withdrawing + PendingTotal']_vars
  BY CoveredStep
<1> QED
  BY <1>1, CoveredAlways, PTL DEF Spec, PendingStaysCovered

\* The commissions of an introducing broker are not transferred twice: what has moved of them as a
\* whole was spent by an APPROVED row, and the rows together stay within the commissions.
THEOREM IbKept == Spec => []IbNotOverspent
<1>1. ASSUME Inv, Covered PROVE IbNotOverspent
  <2> DEFINE whole == {t \in TransferIds \ odd : From[t] = IbWallet /\ MovedOf(t) = "whole"}
  <2>1. whole \subseteq FromIb(status) /\ FromIb(status) \in SUBSET TransferIds
    BY <1>1, MovedIs DEF FromIb
  <2> HIDE DEF whole
  <2>2. Total(whole) <= Total(FromIb(status))
    BY <2>1, TotalIs
  <2>3. Total(FromIb(status)) <= IbCredit
    BY <1>1, SpentIs DEF Covered
  <2>4. Total(whole) \in Nat /\ Total(FromIb(status)) \in Nat /\ IbCredit \in Nat
    <3>1. whole \in SUBSET TransferIds
      BY <2>1
    <3> QED
      BY <2>1, <3>1, TotalIs
  <2>5. Total(whole) <= IbCredit
    BY <2>2, <2>3, <2>4
  <2> QED
    BY <2>5 DEF IbNotOverspent, whole
<1>2. Inv /\ Covered => IbNotOverspent
  BY <1>1
<1> QED
  BY <1>2, CoveredAlways, PTL
=============================================================================
