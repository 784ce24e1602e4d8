------------------------------- MODULE Outbox -------------------------------
(***************************************************************************)
(* What the trading engine and the gateway tell the CRM of an account:     *)
(* after a move is committed, events are put into crm_sync_outbox; a       *)
(* worker posts them to the CRM's webhook, which keeps a copy of the       *)
(* account and pays the commission of a close to the introducing broker.   *)
(*                                                                         *)
(* The events are written after the commit of the move, not with it.  The  *)
(* worker starts a drain every two seconds, whether the one before has     *)
(* ended or not, and a drain works on the copy of the rows that it read.   *)
(* Every ten seconds the CRM also asks for all its accounts.               *)
(*                                                                         *)
(* The state of an account is the set of its moves; a call, a statement or *)
(* a process that fails is one of at most MaxTroubles troubles.            *)
(***************************************************************************)
EXTENDS Integers, Sequences, FiniteSets

CONSTANTS
  Moves,        \* what changes an account
  Logins,
  Login,        \* of a move
  Kind,         \* "open", "close" by request, "fill" of a pending order, "adjust" of the gateway
  Earns,        \* the closes whose client has a broker with a rule for the symbol
  Drains,       \* drains at a time
  Take,         \* rows a drain reads
  MaxAttempts,  \* after which a row is FAILED
  MaxTroubles   \* bounds calls and statements that fail, crashes and events not to be delivered

ASSUME OutboxAssumption ==
  /\ Login \in [Moves -> Logins]
  /\ Kind \in [Moves -> {"open", "close", "fill", "adjust"}]
  /\ Earns \subseteq {m \in Moves : Kind[m] = "close"}
  /\ Take \in Nat \ {0} /\ MaxAttempts \in Nat \ {0}
  /\ MaxTroubles \in Nat

Events == Moves \X {"snapshot", "trade"}
MoveOf(e) == e[1]

VARIABLES
  done,        \* the moves that are committed
  teller,      \* what is still to be told of a move, and the account as it is told
  row, outbox, \* crm_sync_outbox: its rows, and the order they were created in
  drain,       \* the drains of the worker, with the post that the CRM is handling
  copy,        \* MT5Account: the account as the CRM knows it
  processed, paid,  \* ProcessedBTraderDeal, and the payouts of a deal
  troubles,
  missed       \* history: the moves whose trade event was lost or not heard

crm    == <<copy, processed, paid>>
vars == <<done, teller, row, outbox, drain, crm, troubles, missed>>

Silent == [at |-> "none", data |-> {}]
NoRow == [status |-> "NONE", attempts |-> 0, due |-> TRUE, data |-> {}]
Asleep == [at |-> "idle", todo |-> <<>>, read |-> {}]

IsClose(e) == e[2] = "trade" /\ Kind[MoveOf(e)] = "close"

Account(l) == {m \in done : Login[m] = l}

Trouble == troubles < MaxTroubles /\ troubles' = troubles + 1

Init ==
  /\ done = {} /\ teller = [m \in Moves |-> Silent]
  /\ row = [e \in Events |-> NoRow] /\ outbox = <<>>
  /\ drain = [d \in Drains |-> Asleep]
  /\ copy = [l \in Logins |-> {}]
  /\ processed = {} /\ paid = [m \in Moves |-> 0]
  /\ troubles = 0
  /\ missed = {}

-----------------------------------------------------------------------------
(* The moves and their events                                              *)

\* An open or a close by request holds the account's queue until its events are written; the fill
\* of a pending order and the gateway do not ask for it.
Queued(m) == Kind[m] \in {"open", "close"}
QueueFree(l) == \A m \in Moves : Queued(m) /\ Login[m] = l => teller[m].at = "none"

\* The engine tells the account as its transaction left it, the gateway reads it again.
Commit(m) ==
  /\ m \notin done /\ (Queued(m) => QueueFree(Login[m]))
  /\ done' = done \cup {m}
  /\ teller' = [teller EXCEPT ![m] =
                  IF Kind[m] = "adjust" THEN [at |-> "read", data |-> {}]
                  ELSE [at |-> "snapshot", data |-> Account(Login[m])']]
  /\ UNCHANGED <<row, outbox, drain, crm, troubles, missed>>

ReadAccount(m) ==
  /\ teller[m].at = "read"
  /\ teller' = [teller EXCEPT ![m] = [at |-> "snapshot", data |-> Account(Login[m])]]
  /\ UNCHANGED <<done, row, outbox, drain, crm, troubles, missed>>

\* crm_outbox: an INSERT whose error is dropped.
Tell(m) ==
  LET e == <<m, teller[m].at>> IN
  /\ e \in Events
  /\ teller' = [teller EXCEPT ![m] =
                  IF e[2] = "snapshot" /\ Kind[m] # "adjust" THEN [at |-> "trade", data |-> {}]
                  ELSE Silent]
  /\ \/ /\ row' = [row EXCEPT ![e] = [status |-> "PENDING", attempts |-> 0, due |-> TRUE,
                                      data |-> teller[m].data]]
        /\ outbox' = Append(outbox, e)
        /\ UNCHANGED <<troubles, missed>>
     \/ /\ Trouble
        /\ missed' = IF e[2] = "trade" THEN missed \cup {m} ELSE missed
        /\ UNCHANGED <<row, outbox>>
  /\ UNCHANGED <<done, drain, crm>>

-----------------------------------------------------------------------------
(* drainCrmOutbox                                                          *)

Due(e) == row[e].status = "PENDING" /\ row[e].due

\* The backoff of a row is over.
Elapse(e) ==
  /\ row[e].status = "PENDING" /\ ~row[e].due
  /\ row' = [row EXCEPT ![e].due = TRUE]
  /\ UNCHANGED <<done, teller, outbox, drain, crm, troubles, missed>>

\* The rows to deliver, by the order they were created in.
DueAt == {i \in DOMAIN outbox : Due(outbox[i])}
NthDue(n) == outbox[CHOOSE i \in DueAt : Cardinality({j \in DueAt : j <= i}) = n]

\* The copy that a drain reads: the first rows, with the attempts they had by then.
Listed ==
  [n \in {k \in 1..Take : k <= Cardinality(DueAt)} |->
     [e |-> NthDue(n), attempts |-> row[NthDue(n)].attempts]]

Event(d) == Head(drain[d].todo).e

\* The next row is posted at once.  The CRM takes the account from the event, or asks for it if
\* the event does not carry it.
PostNext(d, todo) ==
  drain' = [drain EXCEPT ![d] =
    IF todo = <<>> THEN Asleep
    ELSE [at |-> IF Head(todo).e[2] = "snapshot" THEN "persist" ELSE "fetch", todo |-> todo,
          read |-> row[Head(todo).e].data]]

\* Mutant: the rows are taken out of the queue when they are read.
StartMarks(d) ==
  /\ drain[d].at = "idle" /\ Listed # <<>>
  /\ row' = [e \in Events |-> IF \E i \in DOMAIN Listed : Listed[i].e = e
                              THEN [row[e] EXCEPT !.status = "SENT"] ELSE row[e]]
  /\ PostNext(d, Listed)
  /\ UNCHANGED <<done, teller, outbox, crm, troubles, missed>>

\* The timer does not look whether an earlier drain still runs.
Start(d) ==
  /\ drain[d].at = "idle" /\ Listed # <<>>
  /\ PostNext(d, Listed)
  /\ UNCHANGED <<done, teller, row, outbox, crm, troubles, missed>>

Rest(d) == Tail(drain[d].todo)

\* The row is written by id, whatever it says by now.
Sent(d) ==
  /\ drain[d].at = "ok"
  /\ row' = [row EXCEPT ![Event(d)].status = "SENT"]
  /\ PostNext(d, Rest(d))
  /\ UNCHANGED <<done, teller, outbox, crm, troubles, missed>>

\* deliverToCrm returns and posts nothing, when the webhook is switched off or restricted to other
\* events.
Skip(d) ==
  /\ drain[d].at \in {"persist", "fetch"} /\ Trouble
  /\ drain' = [drain EXCEPT ![d].at = "ok", ![d].read = {}]
  /\ missed' = missed \cup {MoveOf(Event(d))}
  /\ UNCHANGED <<done, teller, row, outbox, crm>>

\* Mutant: one attempt more than the row may have.
GivenUpLate(attempts) == attempts > MaxAttempts

GivenUp(attempts) == attempts >= MaxAttempts

\* Counted from the copy that the drain read.
TryLater(d) ==
  LET e == Event(d)
      attempts == Head(drain[d].todo).attempts + 1
  IN
  /\ row' = [row EXCEPT ![e] =
               [status |-> IF GivenUp(attempts) THEN "FAILED" ELSE "PENDING",
                attempts |-> attempts, due |-> FALSE, data |-> @.data]]
  /\ missed' = IF GivenUp(attempts) THEN missed \cup {MoveOf(e)} ELSE missed
  /\ PostNext(d, Rest(d))

\* Mutant: fetch's answer is not looked at, only its exceptions are.
FailsUnseen(d) ==
  /\ drain[d].at # "idle" /\ Trouble
  /\ drain' = [drain EXCEPT ![d].at = "ok"]
  /\ UNCHANGED <<done, teller, row, outbox, crm, missed>>

\* The CRM refuses or cannot be reached, answers with an error or its answer is lost; or the row
\* cannot be written.  An error of the catch block ends the drain.  The CRM does not go on with a
\* request whose caller has given up: that is what it does with the request of another drain.
Fails(d) ==
  /\ drain[d].at # "idle" /\ Trouble
  /\ TryLater(d) \/ (drain' = [drain EXCEPT ![d] = Asleep] /\ UNCHANGED <<row, missed>>)
  /\ UNCHANGED <<done, teller, outbox, crm>>

-----------------------------------------------------------------------------
(* btrader_webhook and credit_btrader_close                                *)

Goto(d, at) == drain' = [drain EXCEPT ![d].at = at]

\* sync_account: an error is swallowed, and nothing is persisted.
Fetch(d) ==
  LET r == drain[d]
      l == Login[MoveOf(Event(d))]
  IN
  /\ r.at = "fetch"
  /\ \/ /\ drain' = [drain EXCEPT ![d] = [r EXCEPT !.at = "persist", !.read = Account(l)]]
        /\ UNCHANGED troubles
     \/ Trouble /\ Goto(d, IF IsClose(Event(d)) THEN "look" ELSE "ok")
  /\ UNCHANGED <<done, teller, row, outbox, crm, missed>>

\* persist_account_snapshot: nothing tells which of two snapshots is the newer one.
Persist(d) ==
  LET r == drain[d] IN
  /\ r.at = "persist"
  /\ copy' = [copy EXCEPT ![Login[MoveOf(Event(d))]] = r.read]
  /\ drain' = [drain EXCEPT ![d] =
                   [r EXCEPT !.at = IF IsClose(Event(d)) THEN "look" ELSE "ok", !.read = {}]]
  /\ UNCHANGED <<done, teller, row, outbox, processed, paid, troubles, missed>>

Look(d) ==
  LET m == MoveOf(Event(d)) IN
  /\ drain[d].at = "look"
  /\ Goto(d, IF m \in Earns /\ m \notin processed THEN "credit" ELSE "ok")
  /\ UNCHANGED <<done, teller, row, outbox, crm, troubles, missed>>

\* Mutant: the deal id is not unique.
CreditAgain(d) ==
  LET m == MoveOf(Event(d)) IN
  /\ drain[d].at = "credit"
  /\ processed' = processed \cup {m} /\ paid' = [paid EXCEPT ![m] = @ + 1]
  /\ Goto(d, "ok")
  /\ UNCHANGED <<done, teller, row, outbox, copy, troubles, missed>>

\* The mark and the payout are one transaction; the mark is unique.
Credit(d) ==
  LET m == MoveOf(Event(d)) IN
  /\ drain[d].at = "credit"
  /\ IF m \in processed THEN UNCHANGED <<processed, paid>>
     ELSE processed' = processed \cup {m} /\ paid' = [paid EXCEPT ![m] = @ + 1]
  /\ Goto(d, "ok")
  /\ UNCHANGED <<done, teller, row, outbox, copy, troubles, missed>>

\* An error of the payout is logged, and the answer is 204.
CreditFails(d) ==
  /\ drain[d].at \in {"look", "credit"} /\ Trouble
  /\ Goto(d, "ok")
  /\ missed' = missed \cup {MoveOf(Event(d))}
  /\ UNCHANGED <<done, teller, row, outbox, crm>>

-----------------------------------------------------------------------------
(* btrader_account_sync_task                                               *)

\* Mutant: only an account that the CRM has nothing of is persisted.
SyncNew(l) ==
  /\ copy' = IF copy[l] = {} THEN [copy EXCEPT ![l] = Account(l)] ELSE copy
  /\ UNCHANGED <<done, teller, row, outbox, drain, processed, paid, troubles, missed>>

\* A run asks for all accounts and persists them.  That an answer may have aged by the time it is
\* persisted is in Fetch and Persist, which call the same functions.
Sync(l) ==
  /\ copy' = [copy EXCEPT ![l] = Account(l)]
  /\ UNCHANGED <<done, teller, row, outbox, drain, processed, paid, troubles, missed>>

-----------------------------------------------------------------------------
(* The engine with the gateway, or the worker with its requests, stops.    *)

EngineCrash ==
  /\ Trouble
  /\ teller' = [m \in Moves |-> Silent]
  /\ missed' = missed \cup {m \in Moves : teller[m].at # "none"}
  /\ UNCHANGED <<done, row, outbox, drain, crm>>

WorkerCrash ==
  /\ Trouble
  /\ drain' = [d \in Drains |-> Asleep]
  /\ UNCHANGED <<done, teller, row, outbox, crm, missed>>

-----------------------------------------------------------------------------

TellStep(m) == ReadAccount(m) \/ Tell(m)
CrmStep(d) == Fetch(d) \/ Persist(d) \/ Look(d) \/ Credit(d) \/ CreditFails(d)
DrainStep(d) == Start(d) \/ Sent(d) \/ Skip(d) \/ Fails(d) \/ CrmStep(d)

Next ==
  \/ \E m \in Moves : Commit(m) \/ TellStep(m)
  \/ \E e \in Events : Elapse(e)
  \/ \E d \in Drains : DrainStep(d)
  \/ \E l \in Logins : Sync(l)
  \/ EngineCrash \/ WorkerCrash

Spec == Init /\ [][Next]_vars

\* What has begun goes on; the worker's and the CRM's timers start drains and runs, and time
\* passes.  Nobody trades, fails, stops or changes a setting out of fairness.
Fairness ==
  /\ \A m \in Moves : WF_vars(TellStep(m))
  /\ \A e \in Events : WF_vars(Elapse(e))
  /\ \A d \in Drains : WF_vars(DrainStep(d))
  /\ \A l \in Logins : WF_vars(Sync(l))

FairSpec == Spec /\ Fairness

-----------------------------------------------------------------------------
(* Properties                                                              *)

Rows == [status : {"NONE", "PENDING", "SENT", "FAILED"}, attempts : 0..MaxAttempts,
         due : BOOLEAN, data : SUBSET Moves]
Todo == [e : Events, attempts : 0..(MaxAttempts - 1)]

TypeOK ==
  /\ done \subseteq Moves
  /\ teller \in [Moves -> [at : {"none", "read", "snapshot", "trade"}, data : SUBSET Moves]]
  /\ row \in [Events -> Rows]
  /\ outbox \in Seq(Events) /\ \A i \in 1..Len(outbox) : row[outbox[i]].status # "NONE"
  /\ drain \in [Drains -> [at : {"idle", "fetch", "persist", "look", "credit", "ok"},
                            todo : Seq(Todo), read : SUBSET Moves]]
  /\ \A d \in Drains : drain[d].at = "idle" <=> drain[d].todo = <<>>
  /\ copy \in [Logins -> SUBSET Moves]
  /\ processed \subseteq Moves /\ paid \in [Moves -> Nat]
  /\ troubles \in 0..MaxTroubles
  /\ missed \subseteq Moves

\* However often an event is delivered and by however many drains at a time, a deal is paid at
\* most once, when it is marked, and only if it was a close that earns a commission.
PaidOnce ==
  \A m \in Moves : /\ paid[m] = IF m \in processed THEN 1 ELSE 0
                   /\ m \in processed => m \in Earns

\* A row that says SENT tells the truth: the commission of its close is paid, but for a named
\* exception; the status is written by id, by drains that do not know of each other.
SentIsPaid ==
  \A m \in Earns : row[<<m, "trade">>].status = "SENT" => m \in processed \cup missed

\* A close that earns a commission is paid for, after errors, lost answers, overlapping drains and
\* restarts, unless its event was not written, was given up, or was not heard.
EveryClosePays == \A m \in Earns : m \in done ~> m \in processed \cup missed

\* Whatever order the snapshots are delivered in, the CRM ends up with the account as it is.
CopyCatchesUp == <>[](\A l \in Logins : copy[l] = Account(l))
=============================================================================
