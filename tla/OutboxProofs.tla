---------------------------- MODULE OutboxProofs ----------------------------
(***************************************************************************)
(* Proofs about Outbox, for any number of moves, accounts, drains, rows,   *)
(* attempts and troubles: a deal is paid once, and a row that says SENT is *)
(* that of a paid close, but for the named exceptions.                     *)
(*                                                                         *)
(* What is in a row that a drain has read is not needed for this: a drain  *)
(* that is about to credit has looked at the move, and one that is about   *)
(* to write SENT knows that its event was heard, whichever event it is.    *)
(* The second half proves the types, for which the rows in hand matter: a  *)
(* row that will be read again has an attempt left, and the list that a    *)
(* drain reads has as many rows as are due, or Take.                       *)
(***************************************************************************)
EXTENDS Outbox, SumProofs, SequenceTheorems, TLAPS

\* The fields that the statements below write one at a time are there.
Recorded ==
  /\ DOMAIN row = Events /\ \A e \in Events : "status" \in DOMAIN row[e]
  /\ DOMAIN drain = Drains
  /\ \A d \in Drains : {"at", "todo", "read"} \subseteq DOMAIN drain[d]
  /\ DOMAIN paid = Moves

\* A drain that credits a close was told by the rules that it earns.
Ruled == \A d \in Drains : drain[d].at = "credit" => MoveOf(Event(d)) \in Earns

\* A drain that was answered 204 for a close that earns: it is paid, or missed by an exception.
HeardOf(d) ==
  drain[d].at = "ok" =>
    \A m \in Earns : Event(d) = <<m, "trade">> => m \in processed \cup missed

Heard == \A d \in Drains : HeardOf(d)

Inv == Recorded /\ PaidOnce /\ Ruled /\ Heard /\ SentIsPaid

-----------------------------------------------------------------------------

\* What was paid or missed stays so.
LEMMA NothingForgotten == Next => processed \subseteq processed' /\ missed \subseteq missed'
  BY DEF Next, TellStep, DrainStep, CrmStep, Commit, ReadAccount, Tell, Elapse, Start, Sent, Skip,
         Fails, TryLater, Fetch, Persist, Look, Credit, CreditFails, Sync, EngineCrash, WorkerCrash,
         crm

\* An event of a close that earns is handled as a close.
LEMMA EarnsIsClose == \A m \in Earns : IsClose(<<m, "trade">>)
  BY OutboxAssumption DEF IsClose, MoveOf

\* A drain that posts a row, or ends, leaves the others alone; it neither credits nor was answered.
LEMMA PostNextLooks ==
  ASSUME NEW d \in Drains, NEW todo, DOMAIN drain = Drains, PostNext(d, todo)
  PROVE  /\ DOMAIN drain' = Drains
         /\ \A o \in Drains \ {d} : drain'[o] = drain[o]
         /\ {"at", "todo", "read"} \subseteq DOMAIN drain'[d]
         /\ drain'[d].at \in {"idle", "persist", "fetch"}
  <1>1. CASE todo = <<>>
    BY <1>1 DEF PostNext, Asleep
  <1>2. CASE todo # <<>>
    <2> DEFINE new == [at |-> IF Head(todo).e[2] = "snapshot" THEN "persist" ELSE "fetch",
                       todo |-> todo, read |-> row[Head(todo).e].data]
    <2>1. drain' = [drain EXCEPT ![d] = new]
      BY <1>2 DEF PostNext
    <2>2. {"at", "todo", "read"} \subseteq DOMAIN new /\ new.at \in {"persist", "fetch"}
      OBVIOUS
    <2> HIDE DEF new
    <2> QED
      BY <2>1, <2>2
  <1> QED
    BY <1>1, <1>2

-----------------------------------------------------------------------------
(* The steps                                                               *)

\* A step that leaves the drains, the deals and the statuses of the rows alone.
Elsewhere ==
  /\ UNCHANGED <<drain, processed, paid>>
  /\ DOMAIN row' = Events
  /\ \A e \in Events : "status" \in DOMAIN row'[e]
                     /\ (row'[e].status = "SENT" => row[e].status = "SENT")

\* What the engine, the gateway, the time and the CRM's timer do is such a step.
LEMMA ElsewhereKeeps ==
  ASSUME Inv, Elsewhere, missed \subseteq missed'
  PROVE  Inv'
  <1>1. Recorded'
    BY DEF Inv, Recorded, Elsewhere
  <1>2. PaidOnce' /\ Ruled'
    BY DEF Inv, PaidOnce, Ruled, Elsewhere, Event
  <1>3. Heard'
    BY DEF Inv, Heard, HeardOf, Elsewhere, Event
  <1>4. SentIsPaid'
    BY OutboxAssumption DEF Inv, SentIsPaid, Elsewhere, Events
  <1> QED
    BY <1>1, <1>2, <1>3, <1>4 DEF Inv

\* Commits, reads, events written or lost, backoffs that elapse, syncs and engine crashes.
LEMMA OthersAreElsewhere ==
  ASSUME Inv,
         \/ \E m \in Moves : Commit(m) \/ TellStep(m)
         \/ \E e \in Events : Elapse(e)
         \/ \E l \in Logins : Sync(l)
         \/ EngineCrash
  PROVE  Elsewhere
  <1> USE DEF Inv, Recorded, Elsewhere, crm
  <1>1. ASSUME NEW m \in Moves, Commit(m) \/ ReadAccount(m)
        PROVE  Elsewhere
    BY <1>1 DEF Commit, ReadAccount
  <1>2. ASSUME NEW m \in Moves, Tell(m)
        PROVE  Elsewhere
    <2>1. UNCHANGED <<drain, processed, paid>>
      BY <1>2 DEF Tell
    <2>2. CASE row' = row
      BY <2>1, <2>2
    <2>3. CASE row' = [row EXCEPT ![<<m, teller[m].at>>] =
                         [status |-> "PENDING", attempts |-> 0, due |-> TRUE,
                          data |-> teller[m].data]]
      BY <2>1, <2>3
    <2> QED
      BY <1>2, <2>2, <2>3 DEF Tell
  <1>3. ASSUME NEW e \in Events, Elapse(e)
        PROVE  Elsewhere
    BY <1>3 DEF Elapse
  <1>4. ASSUME NEW l \in Logins, Sync(l)
        PROVE  Elsewhere
    BY <1>4 DEF Sync
  <1>5. CASE EngineCrash
    BY <1>5 DEF EngineCrash
  <1> QED
    BY <1>1, <1>2, <1>3, <1>4, <1>5 DEF TellStep

\* One drain goes on; the rows keep their statuses.
Moved(d) ==
  /\ DOMAIN drain' = Drains
  /\ \A o \in Drains \ {d} : drain'[o] = drain[o]
  /\ {"at", "todo", "read"} \subseteq DOMAIN drain'[d]

\* The other drains still know what they knew.
LEMMA OthersStillKnow ==
  ASSUME Inv, NEW d \in Drains, Moved(d),
         processed \subseteq processed', missed \subseteq missed'
  PROVE  \A o \in Drains \ {d} :
           HeardOf(o)' /\ (drain'[o].at = "credit" => MoveOf(Event(o))' \in Earns)
  BY DEF Inv, Ruled, Heard, HeardOf, Moved, Event, MoveOf

\* A drain that has nothing to tell any more: it starts, takes the next row, or has stopped.
LEMMA OtherRowKeeps ==
  ASSUME Inv, NEW d \in Drains, Moved(d), drain'[d].at \in {"idle", "persist", "fetch"},
         UNCHANGED <<processed, paid>>, missed \subseteq missed',
         DOMAIN row' = Events, \A e \in Events : "status" \in DOMAIN row'[e],
         SentIsPaid'
  PROVE  Inv'
  <1>1. Recorded'
    BY DEF Inv, Recorded, Moved
  <1>2. PaidOnce'
    BY DEF Inv, PaidOnce
  <1>3. HeardOf(d)' /\ drain'[d].at # "credit"
    BY DEF HeardOf
  <1>4. Ruled' /\ Heard'
    BY <1>3, OthersStillKnow DEF Ruled, Heard
  <1> QED
    BY <1>1, <1>2, <1>4 DEF Inv

\* A drain starts, or tells the row that it was heard.
LEMMA StartAndSentKeep ==
  ASSUME Inv, NEW d \in Drains, Start(d) \/ Sent(d)
  PROVE  Inv'
  <1>1. PICK todo : PostNext(d, todo)
    BY DEF Start, Sent
  <1>2. Moved(d) /\ drain'[d].at \in {"idle", "persist", "fetch"}
    BY <1>1, PostNextLooks DEF Inv, Recorded, Moved
  <1>3. UNCHANGED <<processed, paid, missed>>
    BY DEF Start, Sent, crm
  <1>4. DOMAIN row' = Events /\ \A e \in Events : "status" \in DOMAIN row'[e]
    BY DEF Start, Sent, Inv, Recorded
  <1>5. SentIsPaid'
    <2>1. CASE Start(d)
      BY <2>1 DEF Start, Inv, SentIsPaid, crm
    <2>2. CASE Sent(d)
      <3> SUFFICES ASSUME NEW m \in Earns, row'[<<m, "trade">>].status = "SENT"
                   PROVE  m \in processed' \cup missed'
        BY DEF SentIsPaid
      <3>1. CASE Event(d) = <<m, "trade">>
        BY <3>1, <2>2, <1>3 DEF Sent, Inv, Heard, HeardOf
      <3>2. CASE Event(d) # <<m, "trade">>
        <4>1. <<m, "trade">> \in Events
          BY OutboxAssumption DEF Events
        <4>2. row'[<<m, "trade">>] = row[<<m, "trade">>]
          BY <4>1, <3>2, <2>2 DEF Sent, Inv, Recorded
        <4> QED
          BY <4>2, <1>3 DEF Inv, SentIsPaid
      <3> QED
        BY <3>1, <3>2
    <2> QED
      BY <2>1, <2>2
  <1> QED
    BY <1>2, <1>3, <1>4, <1>5, OtherRowKeeps

\* Something fails: the row is to be tried later or given up, or the drain ends.
LEMMA FailsKeeps ==
  ASSUME Inv, NEW d \in Drains, Fails(d)
  PROVE  Inv'
  <1>1. UNCHANGED <<processed, paid>> /\ missed \subseteq missed'
    BY DEF Fails, TryLater, crm
  <1>2. CASE TryLater(d)
    <2>1. Moved(d) /\ drain'[d].at \in {"idle", "persist", "fetch"}
      BY <1>2, PostNextLooks DEF Inv, Recorded, Moved, TryLater
    <2>2. \A e \in Events : "status" \in DOMAIN row'[e]
                          /\ (row'[e].status = "SENT" => row[e].status = "SENT")
      BY <1>2 DEF TryLater, Inv, Recorded
    <2>3. DOMAIN row' = Events
      BY <1>2 DEF TryLater, Inv, Recorded
    <2>4. SentIsPaid'
      BY <2>2, <1>1, OutboxAssumption DEF Inv, SentIsPaid, Events
    <2> QED
      BY <2>1, <2>2, <2>3, <2>4, <1>1, OtherRowKeeps
  <1>3. CASE drain' = [drain EXCEPT ![d] = Asleep] /\ UNCHANGED <<row, missed>>
    <2>1. Moved(d) /\ drain'[d].at = "idle"
      BY <1>3 DEF Inv, Recorded, Moved, Asleep
    <2>2. SentIsPaid'
      BY <1>1, <1>3 DEF Inv, SentIsPaid
    <2>3. DOMAIN row' = Events /\ \A e \in Events : "status" \in DOMAIN row'[e]
      BY <1>3 DEF Inv, Recorded
    <2> QED
      BY <2>1, <2>2, <2>3, <1>1, OtherRowKeeps
  <1> QED
    BY <1>2, <1>3 DEF Fails

\* All drains end when the worker stops.
LEMMA WorkerCrashKeeps ==
  ASSUME Inv, WorkerCrash
  PROVE  Inv'
  <1>1. UNCHANGED <<row, processed, paid, missed>>
    BY DEF WorkerCrash, crm
  <1>2. \A d \in Drains : drain'[d] = Asleep
    BY DEF WorkerCrash
  <1>3. Recorded'
    BY <1>1, <1>2 DEF WorkerCrash, Inv, Recorded, Asleep
  <1>4. Ruled' /\ Heard'
    BY <1>2 DEF Ruled, Heard, HeardOf, Asleep
  <1> QED
    BY <1>1, <1>3, <1>4 DEF Inv, PaidOnce, SentIsPaid
\* One drain goes to its next step and keeps its row; the rows stay as they are.
LEMMA SameRowKeeps ==
  ASSUME Inv, NEW d \in Drains, Moved(d), drain'[d].todo = drain[d].todo, row' = row,
         processed \subseteq processed', missed \subseteq missed',
         DOMAIN paid' = Moves, PaidOnce',
         drain'[d].at = "credit" => MoveOf(Event(d)) \in Earns,
         drain'[d].at = "ok" =>
           \A m \in Earns : Event(d) = <<m, "trade">> => m \in processed' \cup missed'
  PROVE  Inv'
  <1>1. Recorded'
    BY DEF Inv, Recorded, Moved
  <1>2. Event(d)' = Event(d)
    BY DEF Event
  <1>3. HeardOf(d)' /\ (drain'[d].at = "credit" => MoveOf(Event(d))' \in Earns)
    BY <1>2 DEF HeardOf, MoveOf
  <1>4. Ruled' /\ Heard'
    BY <1>3, OthersStillKnow DEF Ruled, Heard
  <1>5. SentIsPaid'
    BY DEF Inv, SentIsPaid
  <1> QED
    BY <1>1, <1>4, <1>5 DEF Inv

\* A drain that is told to skip its event has missed its move.
LEMMA SkipKeeps ==
  ASSUME Inv, NEW d \in Drains, Skip(d)
  PROVE  Inv'
  <1>1. /\ Moved(d) /\ drain'[d].todo = drain[d].todo /\ drain'[d].at = "ok"
        /\ UNCHANGED <<row, processed, paid>> /\ missed' = missed \cup {MoveOf(Event(d))}
    BY DEF Skip, Inv, Recorded, Moved, crm
  <1>2. DOMAIN paid' = Moves /\ PaidOnce'
    BY <1>1 DEF Inv, Recorded, PaidOnce
  <1>3. \A m \in Earns : Event(d) = <<m, "trade">> => m \in processed' \cup missed'
    BY <1>1 DEF MoveOf
  <1> QED
    BY <1>1, <1>2, <1>3, SameRowKeeps

\* The webhook handler fetches and persists; it answers at once if the event is not a close.
LEMMA FetchAndPersistKeep ==
  ASSUME Inv, NEW d \in Drains, Fetch(d) \/ Persist(d)
  PROVE  Inv'
  <1>1. UNCHANGED <<row, processed, paid, missed>>
    BY DEF Fetch, Persist, crm
  <1>2. /\ Moved(d) /\ drain'[d].todo = drain[d].todo
        /\ drain'[d].at \in {"persist", "look", "ok"}
        /\ drain'[d].at = "ok" => ~IsClose(Event(d))
    <2>1. Recorded
      BY DEF Inv
    <2>2. CASE drain' = [drain EXCEPT ![d] = [@ EXCEPT !.at = "persist",
                                                       !.read = Account(Login[MoveOf(Event(d))])]]
      BY <2>1, <2>2 DEF Recorded, Moved
    <2>3. CASE Goto(d, IF IsClose(Event(d)) THEN "look" ELSE "ok")
      BY <2>1, <2>3 DEF Goto, Recorded, Moved
    <2>4. CASE drain' = [drain EXCEPT ![d] =
                           [@ EXCEPT !.at = IF IsClose(Event(d)) THEN "look" ELSE "ok",
                                     !.read = {}]]
      BY <2>1, <2>4 DEF Recorded, Moved
    <2> QED
      BY <2>2, <2>3, <2>4 DEF Fetch, Persist
  <1>3. DOMAIN paid' = Moves /\ PaidOnce'
    BY <1>1 DEF Inv, Recorded, PaidOnce
  <1>4. drain'[d].at = "ok" =>
          \A m \in Earns : Event(d) = <<m, "trade">> => m \in processed' \cup missed'
    BY <1>2, EarnsIsClose
  <1> QED
    BY <1>1, <1>2, <1>3, <1>4, SameRowKeeps

\* It asks whether the deal is marked, and what the rules say of it.
LEMMA LookKeeps ==
  ASSUME Inv, NEW d \in Drains, Look(d)
  PROVE  Inv'
  <1>1. UNCHANGED <<row, processed, paid, missed>>
    BY DEF Look, crm
  <1>2. /\ Moved(d) /\ drain'[d].todo = drain[d].todo
        /\ drain'[d].at = IF MoveOf(Event(d)) \in Earns /\ MoveOf(Event(d)) \notin processed
                         THEN "credit" ELSE "ok"
    BY DEF Look, Goto, Inv, Recorded, Moved
  <1>3. DOMAIN paid' = Moves /\ PaidOnce'
    BY <1>1 DEF Inv, Recorded, PaidOnce
  <1>4. drain'[d].at = "ok" =>
          \A m \in Earns : Event(d) = <<m, "trade">> => m \in processed' \cup missed'
    BY <1>1, <1>2 DEF MoveOf
  <1> QED
    BY <1>1, <1>2, <1>3, <1>4, SameRowKeeps

\* It marks and pays in one transaction, or finds that another drain has done so.
LEMMA CreditKeeps ==
  ASSUME Inv, NEW d \in Drains, Credit(d)
  PROVE  Inv'
  <1> DEFINE m == MoveOf(Event(d))
  <1>1. UNCHANGED <<row, missed>> /\ processed' = processed \cup {m}
    BY DEF Credit
  <1>2. Moved(d) /\ drain'[d].todo = drain[d].todo /\ drain'[d].at = "ok"
    BY DEF Credit, Goto, Inv, Recorded, Moved
  <1>3. m \in Earns
    BY DEF Credit, Inv, Ruled
  <1>4. DOMAIN paid' = Moves /\ PaidOnce'
    <2>1. CASE m \in processed
      BY <2>1 DEF Credit, Inv, Recorded, PaidOnce
    <2>2. CASE m \notin processed
      BY <2>2, <1>3 DEF Credit, Inv, Recorded, PaidOnce
    <2> QED
      BY <2>1, <2>2
  <1>5. \A k \in Earns : Event(d) = <<k, "trade">> => k \in processed' \cup missed'
    BY <1>1 DEF MoveOf
  <1> QED
    BY <1>1, <1>2, <1>4, <1>5, SameRowKeeps

\* It fails to, and the error is swallowed: the move is missed.
LEMMA CreditFailsKeeps ==
  ASSUME Inv, NEW d \in Drains, CreditFails(d)
  PROVE  Inv'
  <1>1. UNCHANGED <<row, processed, paid>> /\ missed' = missed \cup {MoveOf(Event(d))}
    BY DEF CreditFails, crm
  <1>2. Moved(d) /\ drain'[d].todo = drain[d].todo /\ drain'[d].at = "ok"
    BY DEF CreditFails, Goto, Inv, Recorded, Moved
  <1>3. DOMAIN paid' = Moves /\ PaidOnce'
    BY <1>1 DEF Inv, Recorded, PaidOnce
  <1>4. \A m \in Earns : Event(d) = <<m, "trade">> => m \in processed' \cup missed'
    BY <1>1 DEF MoveOf
  <1> QED
    BY <1>1, <1>2, <1>3, <1>4, SameRowKeeps

-----------------------------------------------------------------------------

LEMMA InitInv == Init => Inv
  BY OutboxAssumption
  DEF Init, Inv, Recorded, PaidOnce, Ruled, Heard, HeardOf, SentIsPaid, NoRow, Asleep, Events

LEMMA NextInv == Inv /\ [Next]_vars => Inv'
  <1> SUFFICES ASSUME Inv, [Next]_vars PROVE Inv'
    OBVIOUS
  <1>1. CASE UNCHANGED vars
    BY <1>1 DEF vars, crm, Inv, Recorded, PaidOnce, Ruled, Heard, HeardOf, SentIsPaid, Event
  <1>2. CASE \/ \E m \in Moves : Commit(m) \/ TellStep(m)
             \/ \E e \in Events : Elapse(e)
             \/ \E l \in Logins : Sync(l)
             \/ EngineCrash
    <2>1. Elsewhere
      BY <1>2, OthersAreElsewhere
    <2>2. missed \subseteq missed'
      BY <1>2, NothingForgotten DEF Next
    <2> QED
      BY <2>1, <2>2, ElsewhereKeeps
  <1>3. ASSUME NEW d \in Drains, DrainStep(d) PROVE Inv'
    BY <1>3, StartAndSentKeep, SkipKeeps, FailsKeeps, FetchAndPersistKeep, LookKeeps, CreditKeeps,
       CreditFailsKeeps
    DEF DrainStep, CrmStep
  <1>4. CASE WorkerCrash
    BY <1>4, WorkerCrashKeeps
  <1> QED
    BY <1>1, <1>2, <1>3, <1>4 DEF Next

\* Whatever fails, overlaps or is delivered again: the invariant holds throughout.
LEMMA InvHolds == Spec => []Inv
  BY InitInv, NextInv, PTL DEF Spec

\* A deal is paid at most once, when it is marked, and only for a close that earns a commission:
\* the exists() check of credit_btrader_close may be outrun, the unique mark may not.
THEOREM DealPaidOnce == Spec => []PaidOnce
  <1>1. Inv => PaidOnce
    BY DEF Inv
  <1> QED
    BY <1>1, InvHolds, PTL

\* A row that says SENT is that of a paid close, or of one of the named exceptions, though drains
\* that overlap write the same row by its id.
THEOREM SentRowIsPaid == Spec => []SentIsPaid
  <1>1. Inv => SentIsPaid
    BY DEF Inv
  <1> QED
    BY <1>1, InvHolds, PTL

-----------------------------------------------------------------------------
(* Types                                                                   *)

\* A row that will be read again has an attempt left.
Retryable == \A e \in Events : row[e].status = "PENDING" => row[e].attempts < MaxAttempts

RowsTyped == row \in [Events -> Rows] /\ Retryable

OutboxTyped == outbox \in Seq(Events) /\ \A i \in 1..Len(outbox) : row[outbox[i]].status # "NONE"

DrainRecords == [at : {"idle", "fetch", "persist", "look", "credit", "ok"},
                 todo : Seq(Todo), read : SUBSET Moves]

DrainsTyped ==
  /\ drain \in [Drains -> DrainRecords]
  /\ \A d \in Drains : drain[d].at = "idle" <=> drain[d].todo = <<>>

TellersTyped ==
  teller \in [Moves -> [at : {"none", "read", "snapshot", "trade"}, data : SUBSET Moves]]

RestTyped ==
  /\ done \subseteq Moves /\ TellersTyped
  /\ copy \in [Logins -> SUBSET Moves]
  /\ processed \subseteq Moves /\ paid \in [Moves -> Nat]
  /\ troubles \in 0..MaxTroubles
  /\ missed \subseteq Moves

TypeInv == RowsTyped /\ OutboxTyped /\ DrainsTyped /\ RestTyped

LEMMA InvTypes == TypeInv => TypeOK
  BY DEF TypeInv, RowsTyped, OutboxTyped, DrainsTyped, DrainRecords, RestTyped, TellersTyped, TypeOK

\* Of a set of n positions, one is the first, one the second, and so on to the n-th: the least
\* position that has enough of them up to it.
LEMMA NthMember ==
  ASSUME NEW N \in Nat, NEW D \in SUBSET (1..N), NEW n \in 1..Cardinality(D)
  PROVE  \E i \in D : Cardinality({j \in D : j <= i}) = n
  <1> DEFINE To == [i \in Nat |-> {j \in D : j <= i}]
             B == {i \in Nat : n <= Cardinality(To[i])}
  <1>1. /\ N \in Nat
        /\ \A j \in D : j \in Nat /\ 0 < j /\ j <= N
    OBVIOUS
  <1>2. \A i \in Nat : To[i] \in SUBSET D /\ To[i] = {j \in D : j <= i}
    OBVIOUS
  <1>3. \A i \in Nat : \A j \in D : j \in To[i] <=> j <= i
    OBVIOUS
  <1> HIDE DEF To
  <1>4. IsFiniteSet(D) /\ Cardinality(D) \in Nat
    <2>1. IsFiniteSet(1..N)
      BY FS_Interval
    <2> QED
      BY <2>1, FS_Subset, FS_CardinalityType
  <1>5. \A i \in Nat : IsFiniteSet(To[i]) /\ Cardinality(To[i]) \in Nat
    BY <1>2, <1>4, FS_Subset, FS_CardinalityType
  <1>6. To[N] = D /\ To[0] = {}
    <2>1. \A j \in D : j \in To[N] /\ j \notin To[0]
      BY <1>1, <1>3
    <2> QED
      BY <1>1, <1>2, <2>1
  <1>7. N \in B /\ 0 \notin B
    BY <1>4, <1>6, FS_EmptySet
  <1>8. PICK k \in B : \A m \in B : k <= m
    <2>1. B \in SUBSET Nat /\ B # {}
      BY <1>7
    <2> HIDE DEF B
    <2> QED
      BY <2>1, Least
  <1>9. k \in Nat /\ k # 0 /\ k - 1 \in Nat /\ k - 1 \notin B
    <2>1. k \in Nat
      BY <1>8
    <2> HIDE DEF B
    <2>2. k # 0
      BY <1>7, <1>8
    <2>3. k - 1 \in Nat /\ ~(k <= k - 1)
      BY <2>1, <2>2
    <2> QED
      BY <1>8, <2>1, <2>2, <2>3
  <1>10. ~(n <= Cardinality(To[k - 1])) /\ n <= Cardinality(To[k])
    BY <1>8, <1>9
  <1>11. \A j \in D : j \in To[k] <=> j \in To[k - 1] \/ j = k
    <2>1. \A j \in D : j <= k <=> j <= k - 1 \/ j = k
      BY <1>1, <1>9
    <2> QED
      BY <1>3, <1>9, <2>1
  <1>12. To[k] \in SUBSET D /\ To[k - 1] \in SUBSET D
    BY <1>2, <1>9
  <1>13. k \in D
    <2>1. SUFFICES ASSUME k \notin D PROVE FALSE
      OBVIOUS
    <2>2. To[k] = To[k - 1]
      BY <1>11, <1>12, <2>1
    <2> QED
      BY <1>10, <2>2
  <1>14. To[k] = To[k - 1] \cup {k} /\ k \notin To[k - 1]
    <2>1. ~(k <= k - 1)
      BY <1>9
    <2> QED
      BY <1>3, <1>9, <1>11, <1>12, <1>13, <2>1
  <1>15. IsFiniteSet(To[k - 1]) /\ Cardinality(To[k - 1]) \in Nat
    BY <1>5, <1>9
  <1>16. Cardinality(To[k]) = Cardinality(To[k - 1]) + 1
    BY <1>14, <1>15, FS_AddElement
  <1>17. Cardinality(To[k]) = n
    BY <1>4, <1>10, <1>15, <1>16
  <1> QED
    BY <1>2, <1>9, <1>13, <1>17

\* The n-th due row is an event that is due.
LEMMA NthDueIsDue ==
  ASSUME TypeInv, NEW n \in 1..Cardinality(DueAt)
  PROVE  NthDue(n) \in Events /\ Due(NthDue(n))
  <1>1. outbox \in Seq(Events) /\ Len(outbox) \in Nat /\ DOMAIN outbox = 1..Len(outbox)
    BY LenProperties DEF TypeInv, OutboxTyped
  <1>2. DueAt \in SUBSET (1..Len(outbox))
    BY <1>1 DEF DueAt
  <1>3. \E i \in DueAt : Cardinality({j \in DueAt : j <= i}) = n
    <2> HIDE DEF DueAt
    <2> QED
      BY <1>1, <1>2, NthMember
  <1>4. PICK i \in DueAt : NthDue(n) = outbox[i]
    BY <1>3 DEF NthDue
  <1> QED
    BY <1>1, <1>2, <1>4, ElementOfSeq DEF DueAt

\* What a drain reads is a sequence of rows with an attempt left.
LEMMA ListedTyped ==
  ASSUME TypeInv
  PROVE  Listed \in Seq(Todo)
  <1> DEFINE c == Cardinality(DueAt)
             m == IF c < Take THEN c ELSE Take
             entry(n) == [e |-> NthDue(n), attempts |-> row[NthDue(n)].attempts]
  <1>1. c \in Nat
    <2>1. DueAt \in SUBSET (1..Len(outbox)) /\ Len(outbox) \in Nat
      BY LenProperties DEF TypeInv, OutboxTyped, DueAt
    <2>2. IsFiniteSet(1..Len(outbox))
      BY <2>1, FS_Interval
    <2>3. IsFiniteSet(DueAt)
      BY <2>1, <2>2, FS_Subset
    <2> QED
      BY <2>3, FS_CardinalityType
  <1>2. m \in Nat /\ {k \in 1..Take : k <= c} = 1..m
    <2> HIDE DEF c
    <2> QED
      BY <1>1, OutboxAssumption
  <1>3. ASSUME NEW n \in 1..m PROVE entry(n) \in Todo
    <2>1. n \in 1..Cardinality(DueAt)
      BY <1>1, <1>3, OutboxAssumption
    <2>2. NthDue(n) \in Events /\ row[NthDue(n)].status = "PENDING"
      BY <2>1, NthDueIsDue DEF Due
    <2>3. row[NthDue(n)].attempts \in 0..(MaxAttempts - 1)
      BY <2>2, OutboxAssumption DEF TypeInv, RowsTyped, Retryable, Rows
    <2> QED
      BY <2>2, <2>3 DEF Todo
  <1>4. Listed = [n \in 1..m |-> entry(n)]
    BY <1>2 DEF Listed
  <1> HIDE DEF m, entry
  <1> QED
    BY <1>2, <1>3, <1>4, SeqDef

\* A drain that is somewhere has an event in hand, and rows behind it.
LEMMA InHand ==
  ASSUME TypeInv, NEW d \in Drains, drain[d].at # "idle"
  PROVE  /\ Head(drain[d].todo) \in Todo /\ Event(d) \in Events /\ MoveOf(Event(d)) \in Moves
         /\ Login[MoveOf(Event(d))] \in Logins
         /\ Rest(d) \in Seq(Todo)
  <1>1. drain[d].todo \in Seq(Todo) /\ drain[d].todo # <<>>
    BY DEF TypeInv, DrainsTyped, DrainRecords
  <1>2. Head(drain[d].todo) \in Todo /\ Tail(drain[d].todo) \in Seq(Todo)
    BY <1>1, HeadTailProperties
  <1>3. Event(d) \in Events
    BY <1>2 DEF Event, Todo
  <1> QED
    BY <1>2, <1>3, OutboxAssumption DEF MoveOf, Events, Rest

\* The next row of a sequence is posted, or the drain ends.
LEMMA PostNextTyped ==
  ASSUME TypeInv, NEW d \in Drains, NEW todo \in Seq(Todo), PostNext(d, todo)
  PROVE  DrainsTyped'
  <1> DEFINE new == [at |-> IF Head(todo).e[2] = "snapshot" THEN "persist" ELSE "fetch",
                     todo |-> todo, read |-> row[Head(todo).e].data]
             next == IF todo = <<>> THEN Asleep ELSE new
  <1>1. drain' = [drain EXCEPT ![d] = next]
    BY DEF PostNext
  <1>2. next \in DrainRecords /\ (next.at = "idle" <=> next.todo = <<>>)
    <2>1. CASE todo = <<>>
      BY <2>1, EmptySeq DEF Asleep, DrainRecords
    <2>2. CASE todo # <<>>
      <3>0. Head(todo) \in Todo
        BY <2>2, HeadTailProperties
      <3>1. Head(todo).e \in Events
        BY <3>0 DEF Todo
      <3>2. row[Head(todo).e].data \in SUBSET Moves
        BY <3>1 DEF TypeInv, RowsTyped, Rows
      <3> QED
        BY <2>2, <3>2 DEF DrainRecords
    <2> QED
      BY <2>1, <2>2
  <1> HIDE DEF next
  <1> QED
    BY <1>1, <1>2 DEF TypeInv, DrainsTyped

\* What the actions write into a row.
LEMMA RowValues ==
  ASSUME NEW r \in Rows
  PROVE  /\ [r EXCEPT !.due = TRUE] \in Rows
         /\ [r EXCEPT !.due = TRUE].status = r.status
         /\ [r EXCEPT !.due = TRUE].attempts = r.attempts
         /\ [r EXCEPT !.status = "SENT"] \in Rows
         /\ [r EXCEPT !.status = "SENT"].status = "SENT"
  <1> USE DEF Rows
  <1>1. [r EXCEPT !.due = TRUE] \in Rows
    OBVIOUS
  <1>2. /\ [r EXCEPT !.due = TRUE].status = r.status
        /\ [r EXCEPT !.due = TRUE].attempts = r.attempts
    OBVIOUS
  <1>3. [r EXCEPT !.status = "SENT"] \in Rows
    OBVIOUS
  <1>4. [r EXCEPT !.status = "SENT"].status = "SENT"
    OBVIOUS
  <1> QED
    BY <1>1, <1>2, <1>3, <1>4

\* A drain goes on within its event.
LEMMA GoOnTyped ==
  ASSUME TypeInv, NEW d \in Drains, drain[d].at # "idle",
         NEW at \in {"fetch", "persist", "look", "credit", "ok"}, NEW read \in SUBSET Moves,
         \/ drain' = [drain EXCEPT ![d] = [drain[d] EXCEPT !.at = at, !.read = read]]
         \/ drain' = [drain EXCEPT ![d] = [drain[d] EXCEPT !.at = at]]
  PROVE  DrainsTyped'
  <1>1. drain[d] \in DrainRecords
    BY DEF TypeInv, DrainsTyped
  <1>2. PICK new : /\ \/ new = [drain[d] EXCEPT !.at = at, !.read = read]
                      \/ new = [drain[d] EXCEPT !.at = at]
                   /\ drain' = [drain EXCEPT ![d] = new]
    OBVIOUS
  <1>3. new \in DrainRecords /\ new.at = at /\ new.todo = drain[d].todo
    <2>1. CASE new = [drain[d] EXCEPT !.at = at]
      BY <1>1, <2>1 DEF DrainRecords
    <2>2. CASE new = [drain[d] EXCEPT !.at = at, !.read = read]
      <3>1. new \in DrainRecords
        BY <1>1, <2>2 DEF DrainRecords
      <3>2. new.at = at /\ new.todo = drain[d].todo
        BY <1>1, <2>2 DEF DrainRecords
      <3> QED
        BY <3>1, <3>2
    <2> QED
      BY <1>2, <2>1, <2>2
  <1> QED
    BY <1>2, <1>3 DEF TypeInv, DrainsTyped

LEMMA GotoTyped ==
  ASSUME TypeInv, NEW d \in Drains, drain[d].at # "idle",
         NEW at \in {"fetch", "persist", "look", "credit", "ok"}, Goto(d, at)
  PROVE  DrainsTyped'
  <1>1. drain' = [drain EXCEPT ![d] = [drain[d] EXCEPT !.at = at]]
    BY DEF Goto, TypeInv, DrainsTyped
  <1> QED
    BY <1>1, GoOnTyped

LEMMA AccountTyped ==
  ASSUME RestTyped
  PROVE  \A l \in Logins : Account(l) \in SUBSET Moves
  BY DEF RestTyped, Account

LEMMA TroubleTyped ==
  ASSUME RestTyped, Trouble
  PROVE  troubles' \in 0..MaxTroubles
  BY OutboxAssumption DEF RestTyped, Trouble

\* Rows that stay, and rows that are written, were created before.
LEMMA SameOutboxTyped ==
  ASSUME TypeInv, UNCHANGED outbox,
         \A e \in Events : row[e].status # "NONE" => row'[e].status # "NONE"
  PROVE  OutboxTyped'
  <1>1. \A i \in 1..Len(outbox) : outbox[i] \in Events
    BY ElementOfSeq DEF TypeInv, OutboxTyped
  <1> QED
    BY <1>1 DEF TypeInv, OutboxTyped

-----------------------------------------------------------------------------

LEMMA CommitAndReadTyped ==
  ASSUME TypeInv, NEW m \in Moves, Commit(m) \/ ReadAccount(m)
  PROVE  TypeInv'
  <1>1. RowsTyped' /\ OutboxTyped' /\ DrainsTyped'
    BY DEF Commit, ReadAccount, TypeInv, RowsTyped, Retryable, OutboxTyped, DrainsTyped
  <1>2. done' \subseteq Moves
    BY DEF Commit, ReadAccount, TypeInv, RestTyped
  <1>3. TellersTyped'
    <2>1. Login[m] \in Logins
      BY OutboxAssumption
    <2>2. Account(Login[m]) \in SUBSET Moves /\ Account(Login[m])' \in SUBSET Moves
      BY <1>2 DEF TypeInv, RestTyped, Account
    <2> QED
      BY <2>2 DEF Commit, ReadAccount, TypeInv, RestTyped, TellersTyped
  <1> QED
    BY <1>1, <1>2, <1>3 DEF Commit, ReadAccount, TypeInv, RestTyped, crm

LEMMA TellTyped ==
  ASSUME TypeInv, NEW m \in Moves, Tell(m)
  PROVE  TypeInv'
  <1> DEFINE e == <<m, teller[m].at>>
             new == [status |-> "PENDING", attempts |-> 0, due |-> TRUE, data |-> teller[m].data]
  <1>1. e \in Events
    BY DEF Tell
  <1>2. new \in Rows /\ new.status = "PENDING" /\ new.attempts < MaxAttempts
    BY OutboxAssumption DEF TypeInv, RestTyped, TellersTyped, Rows
  <1>3. RestTyped'
    <2>1. TellersTyped'
      BY DEF Tell, TypeInv, RestTyped, TellersTyped, Silent
    <2>2. troubles' \in 0..MaxTroubles /\ missed' \subseteq Moves
      BY TroubleTyped DEF Tell, TypeInv, RestTyped
    <2> QED
      BY <2>1, <2>2 DEF Tell, TypeInv, RestTyped, crm
  <1>4. DrainsTyped'
    BY DEF Tell, TypeInv, DrainsTyped
  <1>5. CASE row' = [row EXCEPT ![e] = new] /\ outbox' = Append(outbox, e)
    <2> HIDE DEF new
    <2>1. \A o \in Events : row'[o] = IF o = e THEN new ELSE row[o]
      BY <1>1, <1>5 DEF TypeInv, RowsTyped
    <2> HIDE DEF e
    <2>2. RowsTyped'
      BY <1>1, <1>2, <1>5, <2>1 DEF TypeInv, RowsTyped, Retryable
    <2>3. outbox' \in Seq(Events) /\ Len(outbox) \in Nat
      BY <1>1, <1>5, AppendProperties, LenProperties DEF TypeInv, OutboxTyped
    <2>4. ASSUME NEW i \in 1..Len(outbox') PROVE row'[outbox'[i]].status # "NONE"
      <3>1. Len(outbox') = Len(outbox) + 1 /\ outbox'[Len(outbox) + 1] = e
            /\ \A j \in 1..Len(outbox) : outbox'[j] = outbox[j]
        BY <1>1, <1>5, AppendProperties DEF TypeInv, OutboxTyped
      <3>2. CASE i = Len(outbox) + 1
        BY <1>1, <1>2, <2>1, <3>1, <3>2
      <3>3. CASE i \in 1..Len(outbox)
        <4>1. outbox[i] \in Events /\ row[outbox[i]].status # "NONE"
          BY <3>3, ElementOfSeq DEF TypeInv, OutboxTyped
        <4> QED
          BY <1>2, <2>1, <3>1, <3>3, <4>1
      <3> QED
        BY <2>3, <2>4, <3>1, <3>2, <3>3
    <2> QED
      BY <1>3, <1>4, <2>2, <2>3, <2>4 DEF TypeInv, OutboxTyped
  <1>6. CASE UNCHANGED <<row, outbox>>
    BY <1>3, <1>4, <1>6 DEF TypeInv, RowsTyped, Retryable, OutboxTyped
  <1> QED
    BY <1>5, <1>6 DEF Tell

\* One row is written; it was created before.
LEMMA RowWrittenTyped ==
  ASSUME TypeInv, NEW e \in Events, NEW new \in Rows, new.status # "NONE",
         new.status = "PENDING" => new.attempts < MaxAttempts,
         row' = [row EXCEPT ![e] = new], UNCHANGED outbox
  PROVE  RowsTyped' /\ OutboxTyped'
  <1>1. \A o \in Events : row'[o] = IF o = e THEN new ELSE row[o]
    BY DEF TypeInv, RowsTyped
  <1>2. RowsTyped'
    BY <1>1 DEF TypeInv, RowsTyped, Retryable
  <1> QED
    BY <1>1, <1>2, SameOutboxTyped

LEMMA ElapseTyped ==
  ASSUME TypeInv, NEW e \in Events, Elapse(e)
  PROVE  TypeInv'
  <1>1. row[e] \in Rows /\ row \in [Events -> Rows]
    BY DEF TypeInv, RowsTyped
  <1>2. PICK new \in Rows : /\ new.status = row[e].status /\ new.attempts = row[e].attempts
                            /\ row' = [row EXCEPT ![e] = new]
    <2>1. row' = [row EXCEPT ![e] = [row[e] EXCEPT !.due = TRUE]]
      BY <1>1 DEF Elapse
    <2> QED
      BY <1>1, <2>1, RowValues
  <1>3. new.status = "PENDING" /\ new.attempts < MaxAttempts
    BY <1>2 DEF Elapse, TypeInv, RowsTyped, Retryable
  <1>4. RowsTyped' /\ OutboxTyped'
    BY <1>2, <1>3, RowWrittenTyped DEF Elapse
  <1> QED
    BY <1>4 DEF Elapse, TypeInv, DrainsTyped, RestTyped, TellersTyped, crm

LEMMA SentTyped ==
  ASSUME TypeInv, NEW d \in Drains, Sent(d)
  PROVE  TypeInv'
  <1>1. Event(d) \in Events /\ Rest(d) \in Seq(Todo)
    BY InHand DEF Sent
  <1>2. row[Event(d)] \in Rows /\ row \in [Events -> Rows]
    BY <1>1 DEF TypeInv, RowsTyped
  <1>3. PICK new \in Rows : new.status = "SENT" /\ row' = [row EXCEPT ![Event(d)] = new]
    <2>1. row' = [row EXCEPT ![Event(d)] = [row[Event(d)] EXCEPT !.status = "SENT"]]
      BY <1>2 DEF Sent
    <2> QED
      BY <1>2, <2>1, RowValues
  <1>4. DrainsTyped'
    BY <1>1, PostNextTyped DEF Sent
  <1>5. RowsTyped' /\ OutboxTyped'
    BY <1>1, <1>3, RowWrittenTyped DEF Sent
  <1> QED
    BY <1>4, <1>5 DEF Sent, TypeInv, RestTyped, TellersTyped, crm

\* A failed attempt is counted, and the row is given up at the last one.
LEMMA TryLaterTyped ==
  ASSUME TypeInv, NEW d \in Drains, drain[d].at # "idle", TryLater(d), UNCHANGED outbox
  PROVE  RowsTyped' /\ OutboxTyped' /\ DrainsTyped' /\ missed' \subseteq Moves
  <1> DEFINE e == Event(d)
             attempts == Head(drain[d].todo).attempts + 1
             new == [status |-> IF GivenUp(attempts) THEN "FAILED" ELSE "PENDING",
                     attempts |-> attempts, due |-> FALSE, data |-> row[e].data]
  <1>1. e \in Events /\ MoveOf(e) \in Moves /\ Rest(d) \in Seq(Todo)
        /\ Head(drain[d].todo) \in Todo
    BY InHand
  <1>2. attempts \in 1..MaxAttempts
    <2>1. Head(drain[d].todo).attempts \in 0..(MaxAttempts - 1)
      BY <1>1 DEF Todo
    <2>2. MaxAttempts \in Nat
      BY OutboxAssumption
    <2> QED
      BY <2>1, <2>2
  <1>3. row[e].data \in SUBSET Moves /\ row \in [Events -> Rows]
    BY <1>1 DEF TypeInv, RowsTyped, Rows
  <1>4. row' = [row EXCEPT ![e] = new]
    BY DEF TryLater
  <1>5. missed' \subseteq Moves
    BY <1>1 DEF TryLater, TypeInv, RestTyped
  <1>6. DrainsTyped'
    BY <1>1, PostNextTyped DEF TryLater
  <1>7. /\ new \in Rows /\ new.status # "NONE"
        /\ new.status = "PENDING" => new.attempts < MaxAttempts
    <2> HIDE DEF attempts
    <2> QED
      BY <1>2, <1>3, OutboxAssumption DEF Rows, GivenUp
  <1> HIDE DEF new, e
  <1> QED
    BY <1>1, <1>4, <1>5, <1>6, <1>7, RowWrittenTyped

LEMMA StartTyped ==
  ASSUME TypeInv, NEW d \in Drains, Start(d)
  PROVE  TypeInv'
  <1>1. DrainsTyped'
    BY ListedTyped, PostNextTyped DEF Start
  <1> QED
    BY <1>1 DEF Start, TypeInv, RowsTyped, Retryable, OutboxTyped, RestTyped, TellersTyped, crm

\* A drain is put to sleep.
LEMMA AsleepTyped == Asleep \in DrainRecords /\ Asleep.at = "idle" /\ Asleep.todo = <<>>
  BY EmptySeq DEF Asleep, DrainRecords

LEMMA FailsTyped ==
  ASSUME TypeInv, NEW d \in Drains, Fails(d)
  PROVE  TypeInv'
  <1>1. RowsTyped' /\ OutboxTyped' /\ DrainsTyped' /\ missed' \subseteq Moves
    <2>1. CASE TryLater(d)
      BY <2>1, TryLaterTyped DEF Fails
    <2>2. CASE drain' = [drain EXCEPT ![d] = Asleep] /\ UNCHANGED <<row, missed>>
      <3>1. DrainsTyped'
        BY <2>2, AsleepTyped DEF TypeInv, DrainsTyped
      <3> QED
        BY <2>2, <3>1 DEF Fails, TypeInv, RowsTyped, Retryable, OutboxTyped, RestTyped
    <2> QED
      BY <2>1, <2>2 DEF Fails
  <1>2. troubles' \in 0..MaxTroubles
    BY TroubleTyped DEF Fails, TypeInv
  <1> QED
    BY <1>1, <1>2 DEF Fails, TypeInv, RestTyped, TellersTyped, crm

LEMMA SkipTyped ==
  ASSUME TypeInv, NEW d \in Drains, Skip(d)
  PROVE  TypeInv'
  <1>1. drain' = [drain EXCEPT ![d] = [drain[d] EXCEPT !.at = "ok", !.read = {}]]
    BY DEF Skip, TypeInv, DrainsTyped
  <1>2. DrainsTyped'
    <2>1. {} \in SUBSET Moves /\ drain[d].at # "idle"
      BY DEF Skip
    <2> QED
      BY <1>1, <2>1, GoOnTyped
  <1>3. missed' \subseteq Moves
    BY InHand DEF Skip, TypeInv, RestTyped
  <1>4. troubles' \in 0..MaxTroubles
    BY TroubleTyped DEF Skip, TypeInv
  <1> QED
    BY <1>2, <1>3, <1>4 DEF Skip, TypeInv, RowsTyped, Retryable, OutboxTyped, RestTyped, TellersTyped,
                            crm

-----------------------------------------------------------------------------

LEMMA FetchTyped ==
  ASSUME TypeInv, NEW d \in Drains, Fetch(d)
  PROVE  TypeInv'
  <1> DEFINE l == Login[MoveOf(Event(d))]
  <1>1. l \in Logins
    BY InHand DEF Fetch
  <1>2. Account(l) \in SUBSET Moves
    BY <1>1, AccountTyped DEF TypeInv
  <1>3. DrainsTyped' /\ troubles' \in 0..MaxTroubles
    <2>1. CASE /\ drain' = [drain EXCEPT ![d] = [drain[d] EXCEPT !.at = "persist",
                                                                  !.read = Account(l)]]
               /\ UNCHANGED troubles
      <3> HIDE DEF l
      <3>1. DrainsTyped'
        BY <1>2, <2>1, GoOnTyped DEF Fetch
      <3> QED
        BY <2>1, <3>1 DEF TypeInv, RestTyped
    <2>2. CASE Trouble /\ Goto(d, IF IsClose(Event(d)) THEN "look" ELSE "ok")
      BY <2>2, TroubleTyped, GotoTyped DEF Fetch, TypeInv
    <2> QED
      BY <2>1, <2>2 DEF Fetch
  <1> QED
    BY <1>3 DEF Fetch, TypeInv, RowsTyped, Retryable, OutboxTyped, RestTyped, TellersTyped, crm

LEMMA PersistTyped ==
  ASSUME TypeInv, NEW d \in Drains, Persist(d)
  PROVE  TypeInv'
  <1>1. DrainsTyped'
    <2> DEFINE at == IF IsClose(Event(d)) THEN "look" ELSE "ok"
    <2>1. at \in {"look", "ok"}
      OBVIOUS
    <2>2. drain' = [drain EXCEPT ![d] = [drain[d] EXCEPT !.at = at, !.read = {}]]
      BY DEF Persist
    <2> HIDE DEF at
    <2>3. {} \in SUBSET Moves /\ drain[d].at # "idle"
      BY DEF Persist
    <2> QED
      BY <2>1, <2>2, <2>3, GoOnTyped
  <1>2. copy' \in [Logins -> SUBSET Moves]
    <2>1. drain[d].read \in SUBSET Moves
      BY DEF TypeInv, DrainsTyped, DrainRecords
    <2> QED
      BY <2>1 DEF Persist, TypeInv, RestTyped
  <1> QED
    BY <1>1, <1>2 DEF Persist, TypeInv, RowsTyped, Retryable, OutboxTyped, RestTyped, TellersTyped

LEMMA LookTyped ==
  ASSUME TypeInv, NEW d \in Drains, Look(d)
  PROVE  TypeInv'
  <1>1. DrainsTyped'
    BY GotoTyped DEF Look
  <1> QED
    BY <1>1 DEF Look, TypeInv, RowsTyped, Retryable, OutboxTyped, RestTyped, TellersTyped, crm

LEMMA CreditTyped ==
  ASSUME TypeInv, NEW d \in Drains, Credit(d)
  PROVE  TypeInv'
  <1>1. DrainsTyped'
    BY GotoTyped DEF Credit
  <1>2. processed' \subseteq Moves /\ paid' \in [Moves -> Nat]
    <2>1. MoveOf(Event(d)) \in Moves
      BY InHand DEF Credit
    <2> QED
      BY <2>1 DEF Credit, TypeInv, RestTyped
  <1> QED
    BY <1>1, <1>2 DEF Credit, TypeInv, RowsTyped, Retryable, OutboxTyped, RestTyped, TellersTyped

LEMMA CreditFailsTyped ==
  ASSUME TypeInv, NEW d \in Drains, CreditFails(d)
  PROVE  TypeInv'
  <1>1. DrainsTyped'
    BY GotoTyped DEF CreditFails
  <1>2. missed' \subseteq Moves
    BY InHand DEF CreditFails, TypeInv, RestTyped
  <1>3. troubles' \in 0..MaxTroubles
    BY TroubleTyped DEF CreditFails, TypeInv
  <1> QED
    BY <1>1, <1>2, <1>3 DEF CreditFails, TypeInv, RowsTyped, Retryable, OutboxTyped, RestTyped,
                            TellersTyped, crm

LEMMA SyncTyped ==
  ASSUME TypeInv, NEW l \in Logins, Sync(l)
  PROVE  TypeInv'
  <1>1. copy' \in [Logins -> SUBSET Moves]
    BY AccountTyped DEF Sync, TypeInv, RestTyped
  <1> QED
    BY <1>1 DEF Sync, TypeInv, RowsTyped, Retryable, OutboxTyped, DrainsTyped, RestTyped, TellersTyped

LEMMA CrashesTyped ==
  ASSUME TypeInv, EngineCrash \/ WorkerCrash
  PROVE  TypeInv'
  <1>1. troubles' \in 0..MaxTroubles
    BY TroubleTyped DEF EngineCrash, WorkerCrash, TypeInv
  <1>2. TellersTyped' /\ missed' \subseteq Moves
    BY DEF EngineCrash, WorkerCrash, TypeInv, RestTyped, TellersTyped, Silent
  <1>3. DrainsTyped'
    BY AsleepTyped DEF EngineCrash, WorkerCrash, TypeInv, DrainsTyped
  <1> QED
    BY <1>1, <1>2, <1>3
    DEF EngineCrash, WorkerCrash, TypeInv, RowsTyped, Retryable, OutboxTyped, RestTyped, crm

LEMMA InitTypes == Init => TypeInv
  <1> SUFFICES ASSUME Init PROVE TypeInv
    OBVIOUS
  <1>1. RowsTyped
    BY OutboxAssumption DEF Init, RowsTyped, Retryable, Rows, NoRow
  <1>2. OutboxTyped
    BY EmptySeq DEF Init, OutboxTyped
  <1>3. DrainsTyped
    BY AsleepTyped DEF Init, DrainsTyped
  <1>4. RestTyped
    BY OutboxAssumption DEF Init, RestTyped, TellersTyped, Silent
  <1> QED
    BY <1>1, <1>2, <1>3, <1>4 DEF TypeInv

LEMMA NextTypes == TypeInv /\ [Next]_vars => TypeInv'
  <1> SUFFICES ASSUME TypeInv, [Next]_vars PROVE TypeInv'
    OBVIOUS
  <1>1. CASE UNCHANGED vars
    BY <1>1 DEF vars, crm, TypeInv, RowsTyped, Retryable, OutboxTyped, DrainsTyped, RestTyped,
                TellersTyped
  <1>2. ASSUME NEW m \in Moves, Commit(m) \/ TellStep(m) PROVE TypeInv'
    BY <1>2, CommitAndReadTyped, TellTyped DEF TellStep
  <1>3. ASSUME NEW e \in Events, Elapse(e) PROVE TypeInv'
    BY <1>3, ElapseTyped
  <1>4. ASSUME NEW d \in Drains, DrainStep(d) PROVE TypeInv'
    BY <1>4, StartTyped, SentTyped, SkipTyped, FailsTyped, FetchTyped, PersistTyped, LookTyped,
       CreditTyped, CreditFailsTyped
    DEF DrainStep, CrmStep
  <1>5. ASSUME NEW l \in Logins, Sync(l) PROVE TypeInv'
    BY <1>5, SyncTyped
  <1>6. CASE EngineCrash \/ WorkerCrash
    BY <1>6, CrashesTyped
  <1> QED
    BY <1>1, <1>2, <1>3, <1>4, <1>5, <1>6 DEF Next

\* Every variable keeps its type: whatever copies of the rows the drains work on, a row is tried
\* no more than MaxAttempts times by the count that it carries, and a drain always has a row in
\* hand (drainCrmOutbox).
THEOREM TypeCorrect == Spec => []TypeOK
  BY InitTypes, NextTypes, InvTypes, PTL DEF Spec
=============================================================================
