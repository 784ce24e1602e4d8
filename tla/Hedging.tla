------------------------------ MODULE Hedging -------------------------------
(***************************************************************************)
(* How the broker hedges its net exposure on one symbol: the sweep that    *)
(* writes covers into hedge_orders (auto-hedge.ts in the worker), the      *)
(* desk's manual covers and closes (book.controller.ts), and the MT5       *)
(* bridge that polls the covers, executes them and reports back            *)
(* (hedge_loop in mt5_bridge.py, bridge.controller.ts).                    *)
(*                                                                         *)
(* The worker starts a sweep by a timer that does not wait for the one     *)
(* before, and each query of a sweep is a statement of its own.  The       *)
(* bridge starts a hedge_loop with each session with MT5 and waits for no  *)
(* earlier one: the loop of a session that is over stops only when it asks *)
(* again whether to go on, after its pass.  Between a poll and a report    *)
(* the row of a cover can change, and a report that a loop takes for       *)
(* failed may have been written, or be written later (`late`).             *)
(*                                                                         *)
(* Lots are whole steps of the symbol, positive for BUY and negative for   *)
(* SELL.  Covers of single client positions (CLIENT_COVER) take the same   *)
(* way through the bridge and are not counted by the sweep: they are left  *)
(* out.  Closes are full.                                                  *)
(***************************************************************************)
EXTENDS Integers, FiniteSetsExt

CONSTANTS MaxCovers,    \* bound: rows of hedge_orders
          Sweeps,       \* runs of autoHedgeSweep at the same time
          Desks,        \* closeHedge requests at the same time
          Exposures,    \* the clients' net exposures there can be; zero at the start
          Threshold,    \* AutoHedgeRule.thresholdLots
          MinClip, MaxClip, \* the least and the greatest volume of one automatic cover
          DeskVolumes,  \* the volumes of the desk's manual covers
          MaxSessions,  \* bound: sessions of the bridge with MT5
          MaxMoves,     \* bound: changes of the exposure
          MaxAsked,     \* bound: manual covers and closes
          MaxRefusals,  \* bound: executions that MT5 refuses
          MaxUnheard,   \* bound: reports whose answer the bridge does not get, and its crashes
          MaxEvents     \* bound: all of these and the new sessions together

ASSUME HedgingAssumption ==
  /\ {MaxCovers, Threshold, MaxMoves, MaxAsked, MaxRefusals, MaxUnheard, MaxEvents} \subseteq Nat
  /\ Exposures \subseteq Int /\ 0 \in Exposures
  /\ {MinClip, MaxClip, MaxSessions} \subseteq Nat \ {0}
  /\ DeskVolumes \subseteq Nat \ {0}

Covers == 1 .. MaxCovers
Sessions == 1 .. MaxSessions

VARIABLES net,      \* what the clients hold and no cover of theirs covers
          status,   \* hedge_orders.status; "NONE" without a row
          lots,     \* the signed volume of the row
          sent,     \* how often MT5 opened the position of a cover
          shut,     \* how often MT5 closed it
          sweep,    \* the runs of autoHedgeSymbol, with what they have read
          desk,     \* the closeHedge requests that have read their row FILLED
          session,  \* the session of the bridge with MT5
          bridge,   \* of each session, the pass of its hedge_loop
          late,     \* reports the bridge has given up and that may still be written
          again,    \* history: how often a cover was there to be sent once more (Leaves, Shares)
          spent     \* what has been used of the bounds

hedgeRows == <<status, lots>>
mt5 == <<sent, shut>>
crew == <<session, bridge, late, again>>
vars == <<net, status, lots, sent, shut, sweep, desk, session, bridge, late, again, spent>>

Statuses == {"NONE", "PENDING", "FILLED", "REJECTED", "CLOSE_PENDING", "CLOSED"}
Reports == {"fill", "reject", "closed"}

\* What a report makes of the row, whatever the row says.
Reported == [fill |-> "FILLED", reject |-> "REJECTED", closed |-> "CLOSED"]

NoSweep == [pc |-> "idle", net |-> 0, hedged |-> 0]

\* Between two polls: no list is read.
NoPass == [unread |-> {"opens", "closes"}, opens |-> {}, closes |-> {}, cover |-> 0, report |-> "none"]

\* No loop, or one that works no more.
Ended == [NoPass EXCEPT !.unread = {}]

Init ==
  /\ net = 0
  /\ status = [h \in Covers |-> "NONE"]
  /\ lots = [h \in Covers |-> 0]
  /\ sent = [h \in Covers |-> 0] /\ shut = [h \in Covers |-> 0]
  /\ sweep = [s \in Sweeps |-> NoSweep]
  /\ desk = [d \in Desks |-> 0]
  /\ session = 1 /\ bridge = [l \in Sessions |-> IF l = 1 THEN NoPass ELSE Ended]
  /\ late = [h \in Covers |-> {}]
  /\ again = [h \in Covers |-> 0]
  /\ spent = [moves |-> 0, asked |-> 0, refusals |-> 0, unheard |-> 0]

Events == spent.moves + spent.asked + spent.refusals + spent.unheard + session - 1

Spend(bound, max) ==
  /\ spent[bound] < max /\ Events < MaxEvents
  /\ spent' = [spent EXCEPT ![bound] = @ + 1]

InFlight == {h \in Covers : status[h] \in {"PENDING", "CLOSE_PENDING"}}

SumOfLots(covers) == MapThenSumSet(LAMBDA h : lots[h], covers)

\* A new row takes the next id.
Insert(volume) ==
  \E h \in Covers :
    /\ status[h] = "NONE" /\ \A g \in 1 .. h - 1 : status[g] # "NONE"
    /\ status' = [status EXCEPT ![h] = "PENDING"]
    /\ lots' = [lots EXCEPT ![h] = volume]

-----------------------------------------------------------------------------
(* The clients and the desk                                                *)

ClientsTrade ==
  /\ Spend("moves", MaxMoves)
  /\ net' \in Exposures \ {net}
  /\ UNCHANGED <<hedgeRows, mt5, sweep, desk, crew>>

\* manualHedge takes any positive volume: no rule caps it.
ManualHedge(lot) ==
  /\ Spend("asked", MaxAsked)
  /\ Insert(lot)
  /\ UNCHANGED <<net, mt5, sweep, desk, crew>>

\* closeHedge reads the status, and writes by id.
CloseRead(d, h) ==
  /\ desk[d] = 0 /\ status[h] = "FILLED"
  /\ Spend("asked", MaxAsked)
  /\ desk' = [desk EXCEPT ![d] = h]
  /\ UNCHANGED <<net, hedgeRows, mt5, sweep, crew>>

CloseWrite(d) ==
  /\ desk[d] # 0
  /\ status' = [status EXCEPT ![desk[d]] = "CLOSE_PENDING"]
  /\ desk' = [desk EXCEPT ![d] = 0]
  /\ UNCHANGED <<net, lots, mt5, sweep, crew, spent>>

-----------------------------------------------------------------------------
(* autoHedgeSymbol: four queries                                           *)

Size(n) == IF n < 0 THEN -n ELSE n
SignOf(n) == IF n < 0 THEN -1 ELSE 1
Smaller(a, b) == IF a < b THEN a ELSE b

\* The exposure beyond the threshold is covered in full.
Desired(n) == IF Size(n) <= Threshold THEN 0 ELSE SignOf(n) * (Size(n) - Threshold)

\* Mutant: the greatest clip is not looked at.
ClipUncapped(delta) == IF Size(delta) < MinClip THEN 0 ELSE delta

\* The cover to add; none below the least clip.
Clip(delta) == IF Size(delta) < MinClip THEN 0 ELSE SignOf(delta) * Smaller(Size(delta), MaxClip)

\* A sweep that finds a cover in flight is over.
SweepCount(s) ==
  /\ sweep[s].pc = "idle" /\ InFlight = {}
  /\ sweep' = [sweep EXCEPT ![s].pc = "positions"]
  /\ UNCHANGED <<net, hedgeRows, mt5, desk, crew, spent>>

SweepPositions(s) ==
  /\ sweep[s].pc = "positions"
  /\ sweep' = [sweep EXCEPT ![s].pc = "fills", ![s].net = net]
  /\ UNCHANGED <<net, hedgeRows, mt5, desk, crew, spent>>

\* Mutant: what was closed since is still counted.
SweepFillsEver(s) ==
  /\ sweep[s].pc = "fills"
  /\ sweep' = [sweep EXCEPT ![s].pc = "create",
                            ![s].hedged = SumOfLots({h \in Covers : status[h] \in {"FILLED", "CLOSED"}})]
  /\ UNCHANGED <<net, hedgeRows, mt5, desk, crew, spent>>

SweepFills(s) ==
  /\ sweep[s].pc = "fills"
  /\ sweep' = [sweep EXCEPT ![s].pc = "create",
                            ![s].hedged = SumOfLots({h \in Covers : status[h] = "FILLED"})]
  /\ UNCHANGED <<net, hedgeRows, mt5, desk, crew, spent>>

SweepCreate(s) ==
  LET clip == Clip(Desired(sweep[s].net) - sweep[s].hedged) IN
  /\ sweep[s].pc = "create"
  /\ IF clip = 0 THEN UNCHANGED hedgeRows ELSE Insert(clip)
  /\ sweep' = [sweep EXCEPT ![s] = NoSweep]
  /\ UNCHANGED <<net, mt5, desk, crew, spent>>

-----------------------------------------------------------------------------
(* The bridge                                                              *)

\* Mutant: a cover stays listed until it is closed.
WantedUntilClosed == [opens |-> {"PENDING", "FILLED"}, closes |-> {"CLOSE_PENDING"}]

Wanted == [opens |-> {"PENDING"}, closes |-> {"CLOSE_PENDING"}]

\* Whether another loop has cover h before it, to be sent or just sent.
Shared(l, h) == \E k \in Sessions \ {l} : h \in bridge[k].opens

\* What a poll lists while another loop has it, two loops send.
Shares(l, list, read) ==
  again' = [h \in Covers |-> again[h] + IF list = "opens" /\ h \in read /\ Shared(l, h) THEN 1 ELSE 0]

\* pendingHedges runs its two queries side by side.  The poll of a session that is over may be on
\* its way.
PollReads(l, list) ==
  LET read == {h \in Covers : status[h] \in Wanted[list]} IN
  /\ list \in bridge[l].unread
  /\ bridge' = [bridge EXCEPT ![l].unread = @ \ {list}, ![l][list] = read]
  /\ Shares(l, list, read)
  /\ UNCHANGED <<net, hedgeRows, mt5, sweep, desk, session, late, spent>>

\* The pass has its lists and no report to make; it comes to the opens first.
Comes(l, list, h) ==
  /\ bridge[l].unread = {} /\ bridge[l].cover = 0 /\ h \in bridge[l][list]
  /\ list = "closes" => bridge[l].opens = {}

\* After a pass a loop polls again as long as its session lasts.
Between(l) == IF l = session THEN NoPass ELSE Ended

\* The poll has found nothing, or all of it is done.
PassEnds(l) ==
  /\ l = session /\ bridge[l] = Ended
  /\ bridge' = [bridge EXCEPT ![l] = NoPass]
  /\ UNCHANGED <<net, hedgeRows, mt5, sweep, desk, session, late, again, spent>>

\* A loop finds its session over before it polls.
LoopStops(l) ==
  /\ l < session /\ bridge[l] = NoPass
  /\ bridge' = [bridge EXCEPT ![l] = Ended]
  /\ UNCHANGED <<net, hedgeRows, mt5, sweep, desk, session, late, again, spent>>

WillReport(l, h, report) == bridge' = [bridge EXCEPT ![l].cover = h, ![l].report = report]

\* MT5 refuses, or the session of the loop is over.  (A call may be under way when its session ends,
\* and an error of Disconnect is dropped: such a call may be executed all the same.)
Raises(l) == IF l = session THEN Spend("refusals", MaxRefusals) ELSE UNCHANGED spent

\* Mutant: an exception of dealer_send is reported as a fill.
SendTrusting(l, h) ==
  /\ Comes(l, "opens", h)
  /\ \/ sent' = [sent EXCEPT ![h] = @ + 1] /\ UNCHANGED spent
     \/ Raises(l) /\ UNCHANGED sent
  /\ WillReport(l, h, "fill")
  /\ UNCHANGED <<net, hedgeRows, shut, sweep, desk, session, late, again>>

\* dealer_send: executed, or an exception.
Send(l, h) ==
  /\ Comes(l, "opens", h)
  /\ \/ /\ sent' = [sent EXCEPT ![h] = @ + 1]
        /\ WillReport(l, h, "fill")
        /\ UNCHANGED spent
     \/ /\ Raises(l)
        /\ WillReport(l, h, "reject")
        /\ UNCHANGED sent
  /\ UNCHANGED <<net, hedgeRows, shut, sweep, desk, session, late, again>>

\* dealer_send executes the cover and raises all the same: no confirmation, or no price in it.
SendUnconfirmed(l, h) ==
  /\ Comes(l, "opens", h)
  /\ Spend("unheard", MaxUnheard)
  /\ sent' = [sent EXCEPT ![h] = @ + 1]
  /\ WillReport(l, h, "reject")
  /\ UNCHANGED <<net, hedgeRows, shut, sweep, desk, session, late, again>>

\* Mutant: an exception of dealer_close is reported as a close.
CloseTrusting(l, h) ==
  /\ Comes(l, "closes", h)
  /\ \/ sent[h] > shut[h] /\ shut' = [shut EXCEPT ![h] = @ + 1] /\ UNCHANGED spent
     \/ Raises(l) /\ UNCHANGED shut
  /\ WillReport(l, h, "closed")
  /\ UNCHANGED <<net, hedgeRows, sent, sweep, desk, session, late, again>>

\* dealer_close: MT5 closes a position that is there.  An exception leaves the row for the next
\* pass, and a position that is not there always raises one.  (A close that is executed and raises
\* all the same is a close whose report is not heard: ReportFails.)
Close(l, h) ==
  /\ Comes(l, "closes", h)
  /\ \/ /\ sent[h] > shut[h]
        /\ shut' = [shut EXCEPT ![h] = @ + 1]
        /\ WillReport(l, h, "closed")
        /\ UNCHANGED spent
     \/ /\ IF sent[h] > shut[h] THEN Raises(l) ELSE UNCHANGED spent
        /\ bridge' = [bridge EXCEPT ![l].closes = @ \ {h}]
        /\ UNCHANGED shut
  /\ UNCHANGED <<net, hedgeRows, sent, sweep, desk, session, late, again>>

\* The gateway's handlers write by id.
Write(h, report) == status' = [status EXCEPT ![h] = Reported[report]]

\* The pass goes on to the next cover.
PassOn(l) ==
  LET h == bridge[l].cover IN
  bridge' = [bridge EXCEPT ![l].cover = 0, ![l].report = "none", ![l].opens = @ \ {h},
                           ![l].closes = IF bridge[l].report = "closed" THEN @ \ {h} ELSE @]

Report(l) ==
  /\ bridge[l].cover # 0
  /\ Write(bridge[l].cover, bridge[l].report)
  /\ PassOn(l)
  /\ UNCHANGED <<net, lots, mt5, sweep, desk, session, late, again, spent>>

\* A report is given up: it was written, it never will be, or it will be later.
GivesUp(h, report) ==
  /\ Spend("unheard", MaxUnheard)
  /\ \/ Write(h, report) /\ UNCHANGED late
     \/ UNCHANGED <<status, late>>
     \/ late' = [late EXCEPT ![h] = @ \cup {report}] /\ UNCHANGED status

\* The cover is left; its row may say PENDING still, and then it is sent again.
Leaves(h) ==
  again' = IF status'[h] = "PENDING" THEN [again EXCEPT ![h] = @ + 1] ELSE again

\* A fill that cannot be reported is reported as a reject; a reject that cannot be reported ends the
\* pass; a close that cannot be reported is logged.
ReportFails(l) ==
  LET h == bridge[l].cover report == bridge[l].report IN
  /\ h # 0
  /\ GivesUp(h, report)
  /\ CASE report = "fill" -> WillReport(l, h, "reject") /\ UNCHANGED again
       [] report = "reject" -> bridge' = [bridge EXCEPT ![l] = Between(l)] /\ Leaves(h)
       [] report = "closed" -> PassOn(l) /\ UNCHANGED again
  /\ UNCHANGED <<net, lots, mt5, sweep, desk, session>>

\* run() ends a session on any error of its tick loop and starts the next one, with a loop of its
\* own; the loop before is told to stop.
Reconnect ==
  /\ session < MaxSessions /\ Events < MaxEvents
  /\ session' = session + 1
  /\ bridge' = [bridge EXCEPT ![session + 1] = NoPass]
  /\ UNCHANGED <<net, hedgeRows, mt5, sweep, desk, late, again, spent>>

\* The bridge stops with all its loops, and starts again.  A report on its way counts as one it had
\* given up.
BridgeCrash ==
  /\ \E l \in Sessions : bridge[l] # Between(l)
  /\ Spend("unheard", MaxUnheard)
  /\ bridge' = [l \in Sessions |-> Between(l)]
  /\ again' = [h \in Covers |->
       again[h] + IF status[h] = "PENDING" /\ \E l \in Sessions : bridge[l].cover = h THEN 1 ELSE 0]
  /\ UNCHANGED <<net, hedgeRows, mt5, sweep, desk, session, late>>

ReportLate(h, report) ==
  /\ report \in late[h]
  /\ Write(h, report)
  /\ late' = [late EXCEPT ![h] = @ \ {report}]
  /\ UNCHANGED <<net, lots, mt5, sweep, desk, session, bridge, again, spent>>

-----------------------------------------------------------------------------
Desk ==
  \/ \E volume \in DeskVolumes : ManualHedge(volume) \/ ManualHedge(-volume)
  \/ \E d \in Desks : CloseWrite(d) \/ \E h \in Covers : CloseRead(d, h)

Sweep(s) == SweepCount(s) \/ SweepPositions(s) \/ SweepFills(s) \/ SweepCreate(s)

\* What a loop of the bridge does of itself.
Pass(l) ==
  \/ \E list \in {"opens", "closes"} : PollReads(l, list)
  \/ PassEnds(l) \/ LoopStops(l) \/ Report(l)
  \/ \E h \in Covers : Send(l, h) \/ Close(l, h)

Next ==
  \/ ClientsTrade \/ Desk
  \/ \E s \in Sweeps : Sweep(s)
  \/ \E l \in Sessions : Pass(l) \/ ReportFails(l) \/ \E h \in Covers : SendUnconfirmed(l, h)
  \/ Reconnect \/ BridgeCrash
  \/ \E h \in Covers : \E report \in Reports : ReportLate(h, report)

Spec == Init /\ [][Next]_vars

\* The timer keeps starting sweeps and every loop of the bridge runs on; a request of the desk is
\* finished.
Fairness ==
  /\ \A s \in Sweeps : WF_vars(Sweep(s))
  /\ \A l \in Sessions : WF_vars(Pass(l))
  /\ \A d \in Desks : WF_vars(CloseWrite(d))

FairSpec == Spec /\ Fairness

-----------------------------------------------------------------------------
(* Properties                                                              *)

\* Every variable keeps its type: a cover has a volume that the desk asked for or is no larger than
\* the rule's greatest clip.
TypeOK ==
  /\ net \in Exposures
  /\ status \in [Covers -> Statuses]
  /\ lots \in [Covers -> (-MaxClip .. MaxClip) \cup DeskVolumes \cup {-volume : volume \in DeskVolumes}]
  /\ sent \in [Covers -> Nat] /\ shut \in [Covers -> Nat]
  /\ sweep \in [Sweeps -> [pc : {"idle", "positions", "fills", "create"}, net : Exposures, hedged : Int]]
  /\ desk \in [Desks -> Covers \cup {0}]
  /\ session \in Sessions
  /\ bridge \in [Sessions -> [unread : SUBSET {"opens", "closes"},
                              opens : SUBSET Covers, closes : SUBSET Covers,
                              cover : Covers \cup {0}, report : Reports \cup {"none"}]]
  /\ late \in [Covers -> SUBSET Reports]
  /\ again \in [Covers -> Nat]
  /\ spent \in [moves : 0 .. MaxMoves, asked : 0 .. MaxAsked,
                refusals : 0 .. MaxRefusals, unheard : 0 .. MaxUnheard]

\* A cover is executed once, and once more only for each time a loop left it with its row still
\* PENDING, or listed it while the loop of an earlier session had it before it: no stale list, late
\* report or repeated poll sends it again.
SentOncePerOffer == \A h \in Covers : sent[h] <= 1 + again[h]

\* "rather than falsely marking it filled" (mt5_bridge.py, on dealer_send): a row that reads FILLED,
\* is being closed or closed was executed, and a closed one was closed on MT5, however reports are
\* delayed, loops overlap and the desk's writes cross them.
FilledIsReal ==
  \A h \in Covers :
    /\ status[h] \in {"FILLED", "CLOSE_PENDING", "CLOSED"} => sent[h] > 0
    /\ status[h] = "CLOSED" => shut[h] > 0

\* While every report was heard, a position that is open on MT5 is on the books or is being reported,
\* unless two loops had its cover: the reject of the one whose session is over may overwrite the fill
\* of the other.
NoUnbookedPosition ==
  spent.unheard = 0 =>
    \A h \in Covers :
      again[h] = 0 /\ sent[h] > shut[h] =>
        status[h] \in {"FILLED", "CLOSE_PENDING"} \/ \E l \in Sessions : bridge[l].cover = h

OnMT5 == MapThenSumSet(LAMBDA h : lots[h] * (sent[h] - shut[h]), Covers)

\* The row of a cover says what MT5 has of it, or a loop is about to report on it.
Agrees(h) ==
  \/ \E l \in Sessions : bridge[l].cover = h
  \/ sent[h] - shut[h] = IF status[h] \in {"FILLED", "CLOSE_PENDING"} THEN 1 ELSE 0

\* No row is left wrong, and the rows that bound the model last.  (A fill that was not heard, a cover
\* that two loops sent and a close that the desk asked for again after it was reported leave a row
\* wrong; the last one stays in flight for ever, and no sweep goes past it.)
Undisturbed == (\A h \in Covers : Agrees(h)) /\ \E h \in Covers : status[h] = "NONE"

\* The exposure beyond the threshold is covered on MT5, to within the least clip, when clients and
\* desk leave it alone for long enough: over refused executions, reports that are made again, new
\* sessions and restarts of the bridge, covers in flight get through and the sweeps go on.
Converges ==
  []Undisturbed => <>[](Size(Desired(net) - OnMT5) < MinClip)

-----------------------------------------------------------------------------
(* What the documents claim, and the code does not keep                    *)

\* "It only fires when no broker hedge is already in flight on that symbol" (DEPLOY-NET-HEDGE.md).
\* The count and the new cover are two statements, and sweeps overlap.
FiresAlone ==
  [][\A s \in Sweeps :
       sweep[s].pc = "create" /\ sweep'[s].pc = "idle" /\ status' # status => InFlight = {}]_vars
=============================================================================
