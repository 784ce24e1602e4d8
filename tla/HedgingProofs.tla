--------------------------- MODULE HedgingProofs ----------------------------
(***************************************************************************)
(* Theorems about Hedging, for any number of covers, sweeps, requests of   *)
(* the desk, sessions of the bridge and reports that are not heard: the    *)
(* types, how often a cover is executed, and that the rows and MT5 agree.  *)
(***************************************************************************)
EXTENDS Hedging, SumProofs, TLAPS

USE HedgingAssumption

-----------------------------------------------------------------------------
(* The inductive invariant                                                  *)

SpentNat == spent \in [moves : Nat, asked : Nat, refusals : Nat, unheard : Nat]

\* What the theorems need of the types.
RowsType ==
  /\ status \in [Covers -> Statuses]
  /\ sent \in [Covers -> Nat] /\ shut \in [Covers -> Nat] /\ again \in [Covers -> Nat]
  /\ desk \in [Desks -> Covers \cup {0}]
  /\ late \in [Covers -> SUBSET Reports]
  /\ session \in Sessions
  /\ SpentNat

Passes == [unread : SUBSET {"opens", "closes"}, opens : SUBSET Covers, closes : SUBSET Covers,
           cover : Covers \cup {0}, report : Reports \cup {"none"}]

BridgeType == bridge \in [Sessions -> Passes]

\* A loop reports on one cover at a time, while no list is being read, and it is on the list it came
\* from; whoever is on a list has a row, and a row of the closes is not back at PENDING.  The loop of
\* a session to come does nothing.
LoopOK(l) ==
  /\ bridge[l].cover # 0 =>
       /\ bridge[l].unread = {} /\ bridge[l].report \in Reports
       /\ bridge[l].report = "closed" => bridge[l].cover \in bridge[l].closes
       /\ bridge[l].report # "closed" => bridge[l].cover \in bridge[l].opens
  /\ "opens" \in bridge[l].unread => bridge[l].opens = {}
  /\ \A h \in bridge[l].opens : status[h] # "NONE"
  /\ \A h \in bridge[l].closes : status[h] \notin {"NONE", "PENDING"}
  /\ l > session => bridge[l] = Ended

\* A fill or a close that was reported, is being reported or will be, has happened.
Executed(h, report) ==
  /\ report \in {"fill", "closed"} => sent[h] > 0
  /\ report = "closed" => shut[h] > 0

Truth(l) == bridge[l].cover # 0 => Executed(bridge[l].cover, bridge[l].report)

\* As long as every report was heard, and no second loop had the cover, the report on its way says
\* what MT5 did.
Heard(l) ==
  spent.unheard = 0 /\ bridge[l].cover # 0 /\ again[bridge[l].cover] = 0 =>
    /\ bridge[l].report = "reject" => sent[bridge[l].cover] = 0
    /\ bridge[l].report = "closed" => shut[bridge[l].cover] >= sent[bridge[l].cover]

\* What the desk and a late report know of a row is true of it.
Known ==
  /\ \A d \in Desks : desk[d] # 0 => status[desk[d]] # "NONE" /\ sent[desk[d]] > 0
  /\ \A h \in Covers : late[h] # {} => status[h] # "NONE" /\ spent.unheard # 0
  /\ \A h \in Covers : \A report \in late[h] : Executed(h, report)

\* Two loops have the same cover only when that was counted.
Alone == \A h \in Covers : \A k, l \in Sessions :
  h \in bridge[k].opens /\ h \in bridge[l].opens /\ k # l => again[h] > 0

\* The loops that are still to send a cover, and the next one when no loop has it and its row is
\* PENDING: each of them may execute it once more.
Waiting(h) == {l \in Sessions : h \in bridge[l].opens /\ bridge[l].cover # h}
Held(h) == \E l \in Sessions : h \in bridge[l].opens
ToCome(h) == IF status[h] = "PENDING" /\ ~Held(h) THEN 1 ELSE 0

CountOK(h) == sent[h] + Cardinality(Waiting(h)) + ToCome(h) <= 1 + again[h]

Counted == \A h \in Covers : CountOK(h) /\ (status[h] = "NONE" => sent[h] = 0)

Inv ==
  /\ RowsType /\ BridgeType
  /\ \A l \in Sessions : LoopOK(l) /\ Truth(l) /\ Heard(l)
  /\ Known /\ Alone /\ Counted
  /\ FilledIsReal /\ NoUnbookedPosition

\* No cover has the id 0, which stands for none.
LEMMA CoverIsNotZero == 0 \notin Covers /\ Covers \subseteq Nat
BY DEF Covers

LEMMA SessionsFinite == IsFiniteSet(Sessions) /\ Sessions \subseteq Nat \ {0} /\ 1 \in Sessions
<1>1. MaxSessions \in Nat \ {0}
  OBVIOUS
<1>2. IsFiniteSet(1 .. MaxSessions)
  BY <1>1, FS_Interval
<1> QED
  BY <1>1, <1>2 DEF Sessions

LEMMA PassTypes == NoPass \in Passes /\ Ended \in Passes /\ Ended = [NoPass EXCEPT !.unread = {}]
BY DEF NoPass, Ended, Passes, Reports

\* What a loop looks like before and after its work.
LEMMA IdleLoops ==
  /\ NoPass.cover = 0 /\ NoPass.opens = {} /\ NoPass.closes = {} /\ NoPass.report = "none"
  /\ Ended.cover = 0 /\ Ended.opens = {} /\ Ended.closes = {} /\ Ended.report = "none" /\ Ended.unread = {}
  /\ NoPass.unread = {"opens", "closes"} /\ NoPass # Ended
BY DEF NoPass, Ended

LEMMA NoneWaits ==
  ASSUME NEW h \in Covers, \A l \in Sessions : h \notin bridge[l].opens
  PROVE  Cardinality(Waiting(h)) = 0 /\ ~Held(h)
<1>1. Waiting(h) = {}
  BY DEF Waiting
<1> QED
  BY <1>1, FS_EmptySet DEF Held

LEMMA InitInv == Init => Inv
<1> SUFFICES ASSUME Init PROVE Inv
  OBVIOUS
<1>1. \A l \in Sessions : bridge[l] \in {NoPass, Ended} /\ (l > 1 => bridge[l] = Ended)
  BY SessionsFinite DEF Init
<1>2. \A l \in Sessions : bridge[l].cover = 0 /\ bridge[l].opens = {} /\ bridge[l].closes = {}
  BY <1>1, IdleLoops
<1>3. RowsType
  BY SessionsFinite DEF Init, RowsType, SpentNat, Statuses
<1>4. BridgeType
  BY PassTypes DEF Init, BridgeType
<1>5. \A l \in Sessions : LoopOK(l) /\ Truth(l) /\ Heard(l)
  BY <1>1, <1>2, SessionsFinite DEF Init, LoopOK, Truth, Heard
<1>6. Known /\ Alone /\ FilledIsReal /\ NoUnbookedPosition
  BY <1>2 DEF Init, Known, Alone, FilledIsReal, NoUnbookedPosition
<1>7. Counted
  BY <1>2, NoneWaits DEF Init, Counted, CountOK, ToCome
<1> QED
  BY <1>3, <1>4, <1>5, <1>6, <1>7 DEF Inv

-----------------------------------------------------------------------------
(* Counting the loops                                                       *)

LEMMA CardMoves ==
  ASSUME NEW S \in SUBSET Sessions, NEW T \in SUBSET Sessions, NEW l \in Sessions,
         \A k \in Sessions \ {l} : k \in S <=> k \in T
  PROVE  /\ Cardinality(S) \in Nat /\ Cardinality(T) \in Nat
         /\ l \in S => Cardinality(S) > 0
         /\ (l \in S <=> l \in T) => Cardinality(T) = Cardinality(S)
         /\ l \notin S /\ l \in T => Cardinality(T) = Cardinality(S) + 1
         /\ l \in S /\ l \notin T => Cardinality(T) = Cardinality(S) - 1
<1>1. IsFiniteSet(S) /\ IsFiniteSet(T)
  BY SessionsFinite, FS_Subset
<1>2. Cardinality(S) \in Nat /\ Cardinality(T) \in Nat
  BY <1>1, FS_CardinalityType
<1>3. l \in S => Cardinality(S) # 0
  BY <1>1, FS_EmptySet
<1>4. (l \in S <=> l \in T) => S = T
  OBVIOUS
<1>5. l \notin S /\ l \in T => T = S \cup {l}
  OBVIOUS
<1>6. l \in S /\ l \notin T => T = S \ {l}
  OBVIOUS
<1>7. l \notin S => Cardinality(S \cup {l}) = Cardinality(S) + 1
  BY <1>1, FS_AddElement
<1>8. l \in S => Cardinality(S \ {l}) = Cardinality(S) - 1
  BY <1>1, FS_RemoveElement
<1>9. l \in S => Cardinality(S) > 0
  BY <1>2, <1>3
<1>10. (l \in S <=> l \in T) => Cardinality(T) = Cardinality(S)
  BY <1>4
<1>11. l \notin S /\ l \in T => Cardinality(T) = Cardinality(S) + 1
  BY <1>5, <1>7
<1>12. l \in S /\ l \notin T => Cardinality(T) = Cardinality(S) - 1
  BY <1>6, <1>8
<1> QED
  BY <1>2, <1>9, <1>10, <1>11, <1>12

\* Whether loop l is still to send cover h.
Waits(l, h) == IF h \in bridge[l].opens /\ bridge[l].cover # h THEN 1 ELSE 0

LEMMA WaitingMoves ==
  ASSUME NEW l \in Sessions, NEW h \in Covers, \A k \in Sessions \ {l} : bridge'[k] = bridge[k]
  PROVE  /\ Cardinality(Waiting(h)) \in Nat /\ Cardinality(Waiting(h))' \in Nat
         /\ Waits(l, h) = 1 => Cardinality(Waiting(h)) > 0
         /\ Waits(l, h)' = Waits(l, h) => Cardinality(Waiting(h))' = Cardinality(Waiting(h))
         /\ Waits(l, h) = 0 /\ Waits(l, h)' = 1 => Cardinality(Waiting(h))' = Cardinality(Waiting(h)) + 1
         /\ Waits(l, h) = 1 /\ Waits(l, h)' = 0 => Cardinality(Waiting(h))' = Cardinality(Waiting(h)) - 1
<1>1. Waiting(h) \in SUBSET Sessions /\ Waiting(h)' \in SUBSET Sessions
  BY DEF Waiting
<1>2. \A k \in Sessions \ {l} : k \in Waiting(h) <=> k \in Waiting(h)'
  BY DEF Waiting
<1>3. (Waits(l, h) = 1 <=> l \in Waiting(h)) /\ (Waits(l, h)' = 1 <=> l \in Waiting(h)')
  BY DEF Waits, Waiting
<1>4. Waits(l, h) \in {0, 1} /\ Waits(l, h)' \in {0, 1}
  BY DEF Waits
<1> DEFINE S == Waiting(h)
           T == Waiting(h)'
<1>5. S \in SUBSET Sessions /\ T \in SUBSET Sessions /\ \A k \in Sessions \ {l} : k \in S <=> k \in T
  BY <1>1, <1>2
<1>6. /\ Cardinality(S) \in Nat /\ Cardinality(T) \in Nat
      /\ l \in S => Cardinality(S) > 0
      /\ (l \in S <=> l \in T) => Cardinality(T) = Cardinality(S)
      /\ l \notin S /\ l \in T => Cardinality(T) = Cardinality(S) + 1
      /\ l \in S /\ l \notin T => Cardinality(T) = Cardinality(S) - 1
  <2> HIDE DEF S, T
  <2> QED
    BY <1>5, CardMoves
<1>7. (Waits(l, h) = 1 <=> l \in S) /\ (Waits(l, h)' = 1 <=> l \in T)
  BY <1>3
<1>8. Cardinality(T) = Cardinality(Waiting(h))'
  OBVIOUS
<1> QED
  <2> HIDE DEF S, T
  <2> QED
    BY <1>4, <1>6, <1>7, <1>8 DEF S

\* One loop at most changes: the count stays within its bound when what the loop sends or takes up,
\* and what is there for the next poll, is made up for.
LEMMA CountKept ==
  ASSUME Inv, RowsType', NEW l \in Sessions, NEW h \in Covers,
         \A k \in Sessions \ {l} : bridge'[k] = bridge[k],
         \/ /\ sent'[h] = sent[h] /\ again'[h] >= again[h]
            /\ Waits(l, h)' = Waits(l, h)
            /\ ToCome(h)' = 1 => ToCome(h) = 1 \/ again'[h] > again[h]
         \/ /\ sent'[h] = sent[h] /\ again'[h] >= again[h]
            /\ Waits(l, h) = 1 /\ Waits(l, h)' = 0
         \/ /\ sent'[h] = sent[h] + 1 /\ again'[h] >= again[h]
            /\ Waits(l, h) = 1 /\ Waits(l, h)' = 0 /\ ToCome(h)' = 0
         \/ /\ sent'[h] = sent[h] /\ Waits(l, h) = 0 /\ Waits(l, h)' = 1 /\ ToCome(h)' = 0
            /\ \/ ToCome(h) = 1 /\ again'[h] = again[h]
               \/ again'[h] > again[h]
  PROVE  CountOK(h)'
<1> DEFINE before == Cardinality(Waiting(h))
           after == Cardinality(Waiting(h))'
<1>1. /\ sent[h] \in Nat /\ sent'[h] \in Nat /\ again[h] \in Nat /\ again'[h] \in Nat
      /\ ToCome(h) \in {0, 1} /\ ToCome(h)' \in {0, 1}
  BY DEF Inv, RowsType, ToCome
<1>2. /\ before \in Nat /\ after \in Nat
      /\ Waits(l, h)' = Waits(l, h) => after = before
      /\ Waits(l, h) = 0 /\ Waits(l, h)' = 1 => after = before + 1
      /\ Waits(l, h) = 1 /\ Waits(l, h)' = 0 => after = before - 1
  BY WaitingMoves
<1>3. sent[h] + before + ToCome(h) <= 1 + again[h]
  BY DEF Inv, Counted, CountOK
<1>4. sent'[h] + after + ToCome(h)' <= 1 + again'[h]
  <2> HIDE DEF before, after
  <2> QED
    BY <1>1, <1>2, <1>3
<1> QED
  BY <1>4 DEF CountOK

-----------------------------------------------------------------------------
(* What every step keeps                                                    *)

\* MT5 and the rows move on, and so do the sessions.
MovesOn ==
  /\ \A h \in Covers : sent'[h] >= sent[h] /\ shut'[h] >= shut[h] /\ again'[h] >= again[h]
  /\ \A h \in Covers :
       /\ status[h] # "NONE" => status'[h] # "NONE"
       /\ status[h] \notin {"NONE", "PENDING"} => status'[h] \notin {"NONE", "PENDING"}
  /\ session' >= session

\* What is executed stays executed.
LEMMA StaysExecuted ==
  ASSUME RowsType, RowsType', MovesOn, NEW h \in Covers, NEW report \in Reports, Executed(h, report)
  PROVE  Executed(h, report)'
<1>1. sent[h] \in Nat /\ sent'[h] \in Nat /\ shut[h] \in Nat /\ shut'[h] \in Nat
  BY DEF RowsType
<1>2. sent'[h] >= sent[h] /\ shut'[h] >= shut[h]
  BY DEF MovesOn
<1> QED
  BY <1>1, <1>2 DEF Executed

\* The cover a loop is at.
LEMMA AtCover ==
  ASSUME Inv, NEW l \in Sessions, bridge[l].cover # 0
  PROVE  /\ bridge[l].cover \in Covers /\ bridge[l].report \in Reports /\ bridge[l].unread = {}
         /\ Executed(bridge[l].cover, bridge[l].report)
         /\ status[bridge[l].cover] # "NONE"
         /\ bridge[l].report = "closed" => status[bridge[l].cover] \notin {"NONE", "PENDING"}
<1>1. bridge[l].cover \in Covers
  BY DEF Inv, BridgeType, Passes
<1>2. LoopOK(l) /\ Truth(l)
  BY DEF Inv
<1> QED
  BY <1>1, <1>2 DEF LoopOK, Truth

\* A loop that does nothing in a step.
LEMMA OthersKept ==
  ASSUME Inv, RowsType', MovesOn, NEW k \in Sessions, bridge'[k] = bridge[k]
  PROVE  LoopOK(k)' /\ Truth(k)'
<1>1. LoopOK(k) /\ Truth(k) /\ bridge[k] \in Passes /\ RowsType
  BY DEF Inv, BridgeType
<1>2. session' >= session /\ session \in Nat /\ session' \in Nat /\ k \in Nat
  BY SessionsFinite DEF MovesOn, Inv, RowsType
<1>3. k > session' => k > session
  BY <1>2
<1>4. LoopOK(k)'
  BY <1>1, <1>3 DEF LoopOK, MovesOn, Passes
<1>5. Truth(k)'
  BY <1>1, AtCover, StaysExecuted DEF Truth
<1> QED
  BY <1>4, <1>5

\* What Spend makes of the bounds.
LEMMA Spends ==
  ASSUME SpentNat, NEW bound \in {"moves", "asked", "refusals", "unheard"}, NEW max \in Nat, Spend(bound, max)
  PROVE  /\ SpentNat'
         /\ bound # "unheard" => spent'.unheard = spent.unheard
         /\ bound = "unheard" => spent'.unheard > 0
<1>1. spent' = [spent EXCEPT ![bound] = @ + 1]
  BY DEF Spend
<1> QED
  BY <1>1 DEF SpentNat

-----------------------------------------------------------------------------
(* Steps of the clients, the desk and the sweeps                            *)

\* A sum of lots or the exposure is no part of the invariant.
LEMMA AwayFromTheRows ==
  ASSUME Inv, UNCHANGED <<status, mt5, desk, session, bridge, late, again>>,
         SpentNat', spent'.unheard = spent.unheard
  PROVE  Inv'
<1> USE DEF Inv, mt5
<1>1. RowsType' /\ BridgeType'
  BY DEF RowsType, BridgeType
<1>2. \A l \in Sessions : LoopOK(l)' /\ Truth(l)' /\ Heard(l)'
  BY DEF LoopOK, Truth, Executed, Heard
<1>3. Known' /\ Alone'
  BY DEF Known, Executed, Alone
<1>4. Counted'
  BY DEF Counted, CountOK, Waiting, ToCome, Held
<1>5. FilledIsReal' /\ NoUnbookedPosition'
  BY DEF FilledIsReal, NoUnbookedPosition
<1> QED
  BY <1>1, <1>2, <1>3, <1>4, <1>5

\* The row of one cover changes, and nothing at the bridge or on MT5.
LEMMA RowStep ==
  ASSUME Inv, RowsType', UNCHANGED <<sent, shut, session, bridge, again>>,
         spent'.unheard = 0 <=> spent.unheard = 0,
         NEW g \in Covers, \A h \in Covers \ {g} : status'[h] = status[h],
         \/ status'[g] = status[g]
         \/ status[g] = "NONE" /\ status'[g] = "PENDING"
         \/ status'[g] = "CLOSE_PENDING"
         \/ status'[g] \notin {"NONE", "PENDING"} /\ spent.unheard # 0,
         Known', FilledIsReal'
  PROVE  Inv'
<1>1. MovesOn
  <2>1. \A h \in Covers : sent[h] \in Nat /\ shut[h] \in Nat /\ again[h] \in Nat
    BY DEF Inv, RowsType
  <2>2. session \in Nat
    BY SessionsFinite DEF Inv, RowsType
  <2> QED
    BY <2>1, <2>2 DEF MovesOn
<1>2. BridgeType' /\ Alone'
  BY DEF Inv, BridgeType, Alone
<1>3. \A l \in Sessions : LoopOK(l)' /\ Truth(l)'
  BY <1>1, OthersKept
<1>4. \A l \in Sessions : Heard(l)'
  BY DEF Inv, Heard
<1>5. Counted'
  <2>1. CASE status[g] = "NONE" /\ status'[g] = "PENDING"
    <3>1. \A h \in Covers \ {g} : CountOK(h)' /\ (status'[h] = "NONE" => sent'[h] = 0)
      BY DEF Inv, Counted, CountOK, Waiting, ToCome, Held
    <3>2. \A l \in Sessions : g \notin bridge'[l].opens
      BY <2>1 DEF Inv, LoopOK
    <3>3. Cardinality(Waiting(g))' = 0
      <4>1. Waiting(g)' = {}
        BY <3>2 DEF Waiting
      <4> QED
        BY <4>1, FS_EmptySet
    <3>4. sent'[g] = 0 /\ again'[g] \in Nat /\ ToCome(g)' \in {0, 1}
      BY <2>1 DEF Inv, Counted, RowsType, ToCome
    <3>5. CountOK(g)'
      BY <3>3, <3>4 DEF CountOK
    <3> QED
      BY <2>1, <3>1, <3>5 DEF Counted
  <2>2. CASE ~(status[g] = "NONE" /\ status'[g] = "PENDING")
    <3>1. \A h \in Covers : CountOK(h)'
      <4>1. SUFFICES ASSUME NEW h \in Covers PROVE CountOK(h)'
        OBVIOUS
      <4>2. ToCome(h)' = 1 => ToCome(h) = 1
        BY <2>2 DEF ToCome, Held
      <4>3. Waits(1, h)' = Waits(1, h) /\ sent'[h] = sent[h] /\ again'[h] >= again[h]
        BY <1>1 DEF Waits, MovesOn
      <4> QED
        BY <4>2, <4>3, SessionsFinite, CountKept
    <3>2. \A h \in Covers : status'[h] = "NONE" => sent'[h] = 0
      BY <2>2 DEF Inv, Counted
    <3> QED
      BY <3>1, <3>2 DEF Counted
  <2> QED
    BY <2>1, <2>2
<1>6. NoUnbookedPosition'
  <2>1. \A h \in Covers : sent[h] \in Nat /\ shut[h] \in Nat
    BY DEF Inv, RowsType
  <2>2. status[g] = "NONE" => ~(sent[g] > shut[g])
    BY <2>1 DEF Inv, Counted
  <2> QED
    BY <2>2 DEF Inv, NoUnbookedPosition
<1> QED
  BY <1>2, <1>3, <1>4, <1>5, <1>6 DEF Inv

LEMMA InsertStep ==
  ASSUME Inv, NEW lot, Insert(lot), UNCHANGED <<mt5, desk, session, bridge, late, again>>,
         SpentNat', spent'.unheard = spent.unheard
  PROVE  Inv'
<1>1. PICK g \in Covers : status[g] = "NONE" /\ status' = [status EXCEPT ![g] = "PENDING"]
  BY DEF Insert
<1>2. status'[g] = "PENDING" /\ \A h \in Covers \ {g} : status'[h] = status[h]
  BY <1>1 DEF Inv, RowsType
<1>3. RowsType'
  BY <1>1 DEF Inv, RowsType, Statuses, mt5
<1>4. Known' /\ FilledIsReal'
  BY <1>1, <1>2 DEF Inv, RowsType, Known, FilledIsReal, Executed, mt5
<1> QED
  BY <1>1, <1>2, <1>3, <1>4, RowStep DEF mt5

LEMMA CloseReadStep ==
  ASSUME Inv, NEW d \in Desks, NEW h \in Covers, CloseRead(d, h)
  PROVE  Inv'
<1>0. MaxAsked \in Nat /\ SpentNat
  BY DEF Inv, RowsType
<1>1. SpentNat' /\ spent'.unheard = spent.unheard
  BY <1>0, Spends DEF CloseRead
<1>2. RowsType'
  BY <1>1 DEF Inv, CloseRead, RowsType, hedgeRows, mt5, crew
<1>3. Known' /\ FilledIsReal'
  BY <1>1 DEF Inv, CloseRead, RowsType, Known, FilledIsReal, Executed, hedgeRows, mt5, crew
<1> QED
  BY <1>1, <1>2, <1>3, RowStep DEF CloseRead, hedgeRows, mt5, crew

LEMMA CloseWriteStep ==
  ASSUME Inv, NEW d \in Desks, CloseWrite(d)
  PROVE  Inv'
<1>1. PICK h \in Covers : /\ desk[d] = h /\ sent[h] > 0 /\ status[h] # "NONE"
                          /\ status' = [status EXCEPT ![h] = "CLOSE_PENDING"]
  BY DEF Inv, CloseWrite, RowsType, Known
<1>2. status'[h] = "CLOSE_PENDING" /\ \A g \in Covers \ {h} : status'[g] = status[g]
  BY <1>1 DEF Inv, RowsType
<1>3. RowsType'
  BY <1>1, CoverIsNotZero DEF Inv, CloseWrite, RowsType, Statuses, SpentNat, mt5, crew
<1>4. Known' /\ FilledIsReal'
  BY <1>1, <1>2, CoverIsNotZero DEF Inv, CloseWrite, RowsType, Known, FilledIsReal, Executed, mt5, crew
<1> QED
  BY <1>2, <1>3, <1>4, RowStep DEF CloseWrite, mt5, crew

\* What a report that is written makes of the row of its cover.
LEMMA Writes ==
  ASSUME Inv, NEW h \in Covers, NEW report \in Reports, Write(h, report), Executed(h, report)
  PROVE  /\ status' \in [Covers -> Statuses]
         /\ status'[h] = Reported[report] /\ \A g \in Covers \ {h} : status'[g] = status[g]
         /\ status'[h] \in {"FILLED", "REJECTED", "CLOSED"}
         /\ status'[h] = "FILLED" => sent[h] > 0
         /\ status'[h] = "CLOSED" => sent[h] > 0 /\ shut[h] > 0
BY DEF Write, Reported, Reports, Executed, Inv, RowsType, Statuses

\* FilledIsReal and what the desk knows, when nothing happens on MT5 and no row but h changes.
LEMMA StaysReal ==
  ASSUME Inv, NEW h \in Covers, UNCHANGED <<sent, shut, desk>>,
         \A g \in Covers \ {h} : status'[g] = status[g],
         \/ status'[h] = status[h]
         \/ /\ status'[h] \in {"FILLED", "REJECTED", "CLOSED"}
            /\ status'[h] = "FILLED" => sent[h] > 0
            /\ status'[h] = "CLOSED" => sent[h] > 0 /\ shut[h] > 0
  PROVE  /\ FilledIsReal'
         /\ \A d \in Desks : desk'[d] # 0 => status'[desk'[d]] # "NONE" /\ sent'[desk'[d]] > 0
<1>1. \A d \in Desks : desk[d] \in Covers \cup {0}
  BY DEF Inv, RowsType
<1> QED
  BY <1>1 DEF Inv, Known, FilledIsReal

LEMMA ReportLateStep ==
  ASSUME Inv, NEW h \in Covers, NEW report \in Reports, ReportLate(h, report)
  PROVE  Inv'
<1>1. /\ report \in late[h] /\ Write(h, report) /\ late' = [late EXCEPT ![h] = @ \ {report}]
      /\ Executed(h, report) /\ UNCHANGED <<sent, shut, desk, session, bridge, again, spent>>
  BY DEF ReportLate, mt5, Inv, Known
<1>2. /\ status' \in [Covers -> Statuses]
      /\ \A g \in Covers \ {h} : status'[g] = status[g]
      /\ status'[h] \in {"FILLED", "REJECTED", "CLOSED"}
      /\ status'[h] = "FILLED" => sent[h] > 0
      /\ status'[h] = "CLOSED" => sent[h] > 0 /\ shut[h] > 0
  BY <1>1, Writes
<1>3. \A g \in Covers : late'[g] \subseteq late[g]
  BY <1>1 DEF Inv, RowsType
<1>4. RowsType' /\ spent.unheard # 0
  BY <1>1, <1>2 DEF Inv, RowsType, SpentNat, Known
<1>5. /\ FilledIsReal'
      /\ \A d \in Desks : desk'[d] # 0 => status'[desk'[d]] # "NONE" /\ sent'[desk'[d]] > 0
  BY <1>1, <1>2, StaysReal
<1>6. Known'
  BY <1>1, <1>2, <1>3, <1>5 DEF Inv, Known, Executed
<1>7. status'[h] \notin {"NONE", "PENDING"}
  BY <1>2
<1> QED
  BY <1>1, <1>2, <1>4, <1>5, <1>6, <1>7, RowStep

-----------------------------------------------------------------------------
(* Steps of the bridge                                                      *)

\* A loop that is at no cover before and after the step.
LEMMA QuietLoop ==
  ASSUME Inv, NEW l \in Sessions, UNCHANGED <<status, sent, shut, desk, late>>,
         spent'.unheard = spent.unheard, RowsType', BridgeType', session' >= session,
         \A h \in Covers : again'[h] >= again[h],
         \A k \in Sessions \ {l} : bridge'[k] = bridge[k],
         bridge[l].cover = 0, bridge'[l].cover = 0,
         LoopOK(l)', Alone', \A h \in Covers : CountOK(h)'
  PROVE  Inv'
<1>1. \A h \in Covers : /\ sent[h] \in Nat /\ shut[h] \in Nat /\ again[h] \in Nat /\ again'[h] \in Nat
                        /\ again'[h] = 0 => again[h] = 0
  BY DEF Inv, RowsType
<1>2. MovesOn
  BY <1>1 DEF MovesOn
<1>3. \A k \in Sessions : LoopOK(k)' /\ Truth(k)'
  <2>1. \A k \in Sessions \ {l} : LoopOK(k)' /\ Truth(k)'
    BY <1>2, OthersKept
  <2>2. Truth(l)'
    BY DEF Truth
  <2> QED
    BY <2>1, <2>2
<1>4. \A k \in Sessions : Heard(k)'
  <2>1. SUFFICES ASSUME NEW k \in Sessions \ {l}, bridge[k].cover # 0 PROVE Heard(k)'
    BY DEF Heard
  <2>2. bridge[k].cover \in Covers
    BY <2>1, AtCover
  <2> QED
    BY <1>1, <2>1, <2>2 DEF Inv, Heard
<1>5. Known' /\ FilledIsReal'
  BY DEF Inv, Known, Executed, FilledIsReal
<1>6. Counted'
  BY DEF Inv, Counted
<1>7. NoUnbookedPosition'
  BY <1>1, CoverIsNotZero DEF Inv, NoUnbookedPosition
<1> QED
  BY <1>3, <1>4, <1>5, <1>6, <1>7 DEF Inv

\* What no loop takes up or puts down leaves the count alone.
LEMMA CountsAlike ==
  ASSUME Inv, RowsType', NEW l \in Sessions, NEW h \in Covers,
         UNCHANGED <<sent, status>>, again'[h] >= again[h],
         \A k \in Sessions \ {l} : bridge'[k] = bridge[k],
         h \in bridge'[l].opens <=> h \in bridge[l].opens,
         Waits(l, h)' = Waits(l, h)
  PROVE  CountOK(h)'
<1>1. Held(h)' <=> Held(h)
  BY DEF Held
<1>2. ToCome(h)' = ToCome(h)
  BY <1>1 DEF ToCome
<1> QED
  BY <1>2, CountKept

LEMMA PollReadsStep ==
  ASSUME Inv, NEW l \in Sessions, NEW list \in {"opens", "closes"}, PollReads(l, list)
  PROVE  Inv'
<1> DEFINE read == {h \in Covers : status[h] \in Wanted[list]}
<1>1. /\ bridge' = [bridge EXCEPT ![l].unread = @ \ {list}, ![l][list] = read]
      /\ read \subseteq Covers /\ list \in bridge[l].unread /\ Shares(l, list, read)
      /\ UNCHANGED <<status, sent, shut, desk, session, late, spent>>
  BY DEF PollReads, hedgeRows, mt5
<1>2. /\ \A h \in read : status[h] # "NONE"
      /\ list = "opens" => \A h \in read : status[h] = "PENDING"
      /\ list = "closes" => \A h \in read : status[h] = "CLOSE_PENDING"
  BY DEF Wanted
<1>3. \A h \in Covers :
        /\ again[h] \in Nat /\ again'[h] \in Nat /\ again'[h] >= again[h]
        /\ list = "opens" /\ h \in read /\ Shared(l, h) => again'[h] > again[h]
        /\ ~(list = "opens" /\ h \in read /\ Shared(l, h)) => again'[h] = again[h]
  BY <1>1 DEF Shares, Inv, RowsType
<1> HIDE DEF read
<1>4. bridge[l] \in Passes /\ LoopOK(l) /\ bridge[l].cover = 0
  <2>1. bridge[l] \in Passes /\ LoopOK(l)
    BY DEF Inv, BridgeType
  <2> QED
    BY <1>1, <2>1 DEF LoopOK
<1>5. /\ \A k \in Sessions \ {l} : bridge'[k] = bridge[k]
      /\ bridge'[l] \in Passes
      /\ bridge'[l].cover = 0 /\ bridge'[l].report = bridge[l].report
      /\ bridge'[l].unread = bridge[l].unread \ {list}
      /\ list = "opens" => bridge'[l].opens = read /\ bridge'[l].closes = bridge[l].closes
      /\ list = "closes" => bridge'[l].opens = bridge[l].opens /\ bridge'[l].closes = read
  <2>1. CASE list = "opens"
    BY <1>1, <1>4, <2>1 DEF Inv, BridgeType, Passes
  <2>2. CASE list = "closes"
    BY <1>1, <1>4, <2>2 DEF Inv, BridgeType, Passes
  <2> QED
    BY <2>1, <2>2
<1>6. BridgeType'
  <2>1. bridge' \in [Sessions -> Passes]
    <3>1. bridge' = [k \in Sessions |-> bridge'[k]]
      BY <1>1 DEF Inv, BridgeType
    <3>2. \A k \in Sessions : bridge'[k] \in Passes
      BY <1>5 DEF Inv, BridgeType
    <3> QED
      BY <3>1, <3>2
  <2> QED
    BY <2>1 DEF BridgeType
<1>7. RowsType'
  <2>1. again' \in [Covers -> Nat]
    BY <1>1, <1>3 DEF Shares
  <2> QED
    BY <1>1, <2>1 DEF Inv, RowsType, SpentNat
<1>8. LoopOK(l)'
  <2>1. l > session => bridge[l] = Ended
    BY <1>4 DEF LoopOK
  <2>2. ~(l > session)
    BY <1>1, <2>1, IdleLoops
  <2> QED
    BY <1>1, <1>2, <1>4, <1>5, <2>2 DEF LoopOK
<1>9. list = "opens" => bridge[l].opens = {}
  BY <1>1, <1>4 DEF LoopOK
<1>10. Alone'
  <2>1. SUFFICES ASSUME NEW h \in Covers, NEW j \in Sessions, NEW k \in Sessions,
                        h \in bridge'[j].opens, h \in bridge'[k].opens, j # k
                 PROVE  again'[h] > 0
    BY DEF Alone
  <2>2. CASE h \in bridge[j].opens /\ h \in bridge[k].opens
    <3>1. again[h] > 0
      BY <2>1, <2>2 DEF Inv, Alone
    <3> QED
      BY <1>3, <3>1
  <2>3. CASE ~(h \in bridge[j].opens /\ h \in bridge[k].opens)
    <3>1. list = "opens" /\ h \in read /\ Shared(l, h)
      BY <1>5, <2>1, <2>3 DEF Shared
    <3> QED
      BY <1>3, <3>1
  <2> QED
    BY <2>2, <2>3
<1>11. \A h \in Covers : CountOK(h)'
  <2>1. SUFFICES ASSUME NEW h \in Covers PROVE CountOK(h)'
    OBVIOUS
  <2>2. CASE list = "opens" /\ h \in read
    <3>1. Waits(l, h) = 0 /\ Waits(l, h)' = 1
      BY <1>5, <1>9, <2>2, CoverIsNotZero DEF Waits
    <3>2. Held(h)'
      BY <1>5, <2>2 DEF Held
    <3>3. ToCome(h)' = 0
      BY <3>2 DEF ToCome
    <3>4. ToCome(h) = 1 \/ Shared(l, h)
      BY <1>2, <1>9, <2>2 DEF ToCome, Held, Shared
    <3>5. \/ ToCome(h) = 1 /\ again'[h] = again[h]
          \/ again'[h] > again[h]
      BY <1>3, <2>2, <3>4
    <3> QED
      BY <1>1, <1>5, <1>7, <3>1, <3>3, <3>5, CountKept
  <2>3. CASE ~(list = "opens" /\ h \in read)
    <3>1. h \in bridge'[l].opens <=> h \in bridge[l].opens
      BY <1>5, <1>9, <2>3
    <3>2. Waits(l, h)' = Waits(l, h)
      BY <1>4, <1>5, <3>1 DEF Waits
    <3> QED
      BY <1>1, <1>3, <1>5, <1>7, <3>1, <3>2, CountsAlike
  <2> QED
    BY <2>2, <2>3
<1> QED
  <2>1. spent'.unheard = spent.unheard /\ session' >= session
    BY <1>1, SessionsFinite DEF Inv, RowsType
  <2> QED
    BY <1>1, <1>3, <1>4, <1>5, <1>6, <1>7, <1>8, <1>10, <1>11, <2>1, QuietLoop

\* A loop that begins, ends or waits.
LEMMA LoopTurns ==
  ASSUME Inv, NEW l \in Sessions, bridge[l] \in {NoPass, Ended}, NEW turned \in {NoPass, Ended},
         bridge' = [bridge EXCEPT ![l] = turned], session' \in Sessions, session' >= session,
         l > session' => turned = Ended,
         UNCHANGED <<status, sent, shut, desk, late, again, spent>>
  PROVE  Inv'
<1>1. RowsType' /\ BridgeType'
  BY PassTypes DEF Inv, RowsType, SpentNat, BridgeType
<1>2. /\ bridge'[l] = turned /\ \A k \in Sessions \ {l} : bridge'[k] = bridge[k]
      /\ bridge[l].cover = 0 /\ turned.cover = 0 /\ bridge[l].opens = {} /\ turned.opens = {}
      /\ turned.closes = {}
  BY IdleLoops DEF Inv, BridgeType
<1>3. LoopOK(l)'
  BY <1>2 DEF LoopOK
<1>4. Alone'
  BY <1>2 DEF Inv, Alone
<1>5. \A h \in Covers : again'[h] >= again[h]
  BY DEF Inv, RowsType
<1>6. \A h \in Covers : CountOK(h)'
  <2>1. \A h \in Covers : Waits(l, h)' = Waits(l, h)
    BY <1>2 DEF Waits
  <2> QED
    BY <1>1, <1>2, <1>5, <2>1, CountsAlike
<1> QED
  BY <1>1, <1>2, <1>3, <1>4, <1>5, <1>6, QuietLoop

LEMMA TurnsStep ==
  ASSUME Inv, Reconnect \/ \E l \in Sessions : PassEnds(l) \/ LoopStops(l)
  PROVE  Inv'
<1>1. session \in Sessions /\ session \in Nat /\ MaxSessions \in Nat
  BY SessionsFinite DEF Inv, RowsType
<1>2. ASSUME NEW l \in Sessions, PassEnds(l) PROVE Inv'
  <2>1. /\ bridge[l] = Ended /\ bridge' = [bridge EXCEPT ![l] = NoPass] /\ l = session
        /\ UNCHANGED <<status, sent, shut, desk, session, late, again, spent>>
    BY <1>2 DEF PassEnds, hedgeRows, mt5
  <2>2. session' \in Sessions /\ session' >= session /\ ~(l > session')
    BY <1>1, <2>1
  <2> QED
    BY <2>1, <2>2, LoopTurns
<1>3. ASSUME NEW l \in Sessions, LoopStops(l) PROVE Inv'
  <2>1. /\ bridge[l] = NoPass /\ bridge' = [bridge EXCEPT ![l] = Ended]
        /\ UNCHANGED <<status, sent, shut, desk, session, late, again, spent>>
    BY <1>3 DEF LoopStops, hedgeRows, mt5
  <2>2. session' \in Sessions /\ session' >= session
    BY <1>1, <2>1
  <2> QED
    BY <2>1, <2>2, LoopTurns
<1>4. CASE Reconnect
  <2>1. session + 1 \in Sessions /\ session + 1 > session
    BY <1>1, <1>4 DEF Reconnect, Sessions
  <2>2. bridge[session + 1] = Ended
    BY <2>1 DEF Inv, LoopOK
  <2>3. /\ session' = session + 1 /\ bridge' = [bridge EXCEPT ![session + 1] = NoPass]
        /\ UNCHANGED <<status, sent, shut, desk, late, again, spent>>
    BY <1>4 DEF Reconnect, hedgeRows, mt5
  <2>4. session' \in Sessions /\ session' >= session /\ ~(session + 1 > session')
    BY <1>1, <2>1, <2>3
  <2> QED
    BY <2>1, <2>2, <2>3, <2>4, LoopTurns
<1> QED
  BY <1>2, <1>3, <1>4

\* The bridge takes up a cover and will report on it: what must be true of the report.
LEMMA TakesUp ==
  ASSUME Inv, NEW l \in Sessions, NEW list \in {"opens", "closes"}, NEW h \in Covers, NEW report \in Reports,
         Comes(l, list, h), WillReport(l, h, report),
         report = "closed" <=> list = "closes",
         RowsType', UNCHANGED <<status, desk, session, late, again>>,
         \A g \in Covers \ {h} : sent'[g] = sent[g] /\ shut'[g] = shut[g],
         sent'[h] = sent[h] \/ (list = "opens" /\ sent'[h] = sent[h] + 1),
         shut'[h] >= shut[h],
         report \in {"fill", "closed"} => sent'[h] > 0,
         report = "closed" => shut'[h] > 0,
         spent'.unheard = 0 =>
           /\ spent.unheard = 0
           /\ report = "reject" => sent'[h] = sent[h]
           /\ report = "closed" /\ again[h] = 0 => shut'[h] >= sent'[h]
  PROVE  Inv'
<1>1. /\ bridge[l].cover = 0 /\ bridge[l].unread = {} /\ h \in bridge[l][list] /\ h # 0
      /\ list = "closes" => bridge[l].opens = {}
      /\ bridge' = [bridge EXCEPT ![l].cover = h, ![l].report = report]
  BY CoverIsNotZero DEF Comes, WillReport
<1>2. bridge[l] \in Passes /\ LoopOK(l)
  BY DEF Inv, BridgeType
<1>3. /\ bridge'[l].cover = h /\ bridge'[l].report = report /\ bridge'[l].unread = {}
      /\ bridge'[l].opens = bridge[l].opens /\ bridge'[l].closes = bridge[l].closes
      /\ bridge'[l] \in Passes
      /\ \A k \in Sessions \ {l} : bridge'[k] = bridge[k]
  BY <1>1, <1>2 DEF Inv, BridgeType, Passes
<1>4. BridgeType'
  <2>1. bridge' = [k \in Sessions |-> bridge'[k]]
    BY <1>1 DEF Inv, BridgeType
  <2>2. \A k \in Sessions : bridge'[k] \in Passes
    BY <1>3 DEF Inv, BridgeType
  <2> QED
    BY <2>1, <2>2 DEF BridgeType
<1>5. \A g \in Covers : /\ sent[g] \in Nat /\ sent'[g] \in Nat /\ shut[g] \in Nat /\ shut'[g] \in Nat
                        /\ again[g] \in Nat /\ sent'[g] >= sent[g] /\ shut'[g] >= shut[g]
  BY DEF Inv, RowsType
<1>6. MovesOn
  BY <1>5, SessionsFinite DEF MovesOn, Inv, RowsType
<1>7. list = "opens" => h \in bridge[l].opens /\ sent[h] <= again[h]
  <2>1. SUFFICES ASSUME list = "opens" PROVE sent[h] <= again[h]
    BY <1>1
  <2>2. Waits(l, h) = 1
    BY <1>1, <2>1 DEF Waits
  <2>3. Cardinality(Waiting(h)) \in Nat /\ Cardinality(Waiting(h)) > 0
    BY <1>3, <2>2, WaitingMoves
  <2>4. sent[h] + Cardinality(Waiting(h)) + ToCome(h) <= 1 + again[h] /\ ToCome(h) \in {0, 1}
    BY DEF Inv, Counted, CountOK, ToCome
  <2> QED
    BY <1>5, <2>3, <2>4
<1>8. \A k \in Sessions : LoopOK(k)' /\ Truth(k)'
  <2>1. \A k \in Sessions \ {l} : LoopOK(k)' /\ Truth(k)'
    BY <1>3, <1>6, OthersKept
  <2>2. LoopOK(l)'
    <3>1. ~(l > session)
      BY <1>1, <1>2, IdleLoops DEF LoopOK
    <3>2. report = "closed" => h \in bridge[l].closes
      BY <1>1
    <3>3. report # "closed" => h \in bridge[l].opens
      BY <1>1
    <3> QED
      BY <1>2, <1>3, <3>1, <3>2, <3>3 DEF LoopOK
  <2>3. Truth(l)'
    BY <1>3 DEF Truth, Executed
  <2> QED
    BY <2>1, <2>2, <2>3
<1>9. \A k \in Sessions : Heard(k)'
  <2>1. Heard(l)'
    BY <1>3, <1>5, <1>7 DEF Heard
  <2>2. ASSUME NEW k \in Sessions \ {l}, spent'.unheard = 0, bridge[k].cover # 0, again[bridge[k].cover] = 0
        PROVE  /\ bridge[k].report = "reject" => sent'[bridge[k].cover] = 0
               /\ bridge[k].report = "closed" => shut'[bridge[k].cover] >= sent'[bridge[k].cover]
    <3>1. /\ bridge[k].cover \in Covers
          /\ bridge[k].report = "reject" => sent[bridge[k].cover] = 0
          /\ bridge[k].report = "closed" => shut[bridge[k].cover] >= sent[bridge[k].cover]
      BY <2>2, AtCover DEF Inv, Heard
    <3>2. CASE sent'[bridge[k].cover] = sent[bridge[k].cover]
      BY <1>5, <3>1, <3>2
    <3>3. CASE sent'[bridge[k].cover] # sent[bridge[k].cover]
      <4>1. bridge[k].cover = h /\ list = "opens"
        BY <3>1, <3>3
      <4>2. bridge[k].report = "closed"
        <5>1. LoopOK(k) /\ Alone
          BY DEF Inv
        <5>2. bridge[k].report # "closed" => h \in bridge[k].opens
          BY <2>2, <4>1, <5>1 DEF LoopOK
        <5>3. bridge[k].report # "closed" => again[h] > 0
          BY <1>7, <4>1, <5>1, <5>2 DEF Alone
        <5> QED
          BY <2>2, <4>1, <5>3
      <4>3. sent[h] > 0
        BY <2>2, <4>1, <4>2, AtCover DEF Executed
      <4> QED
        BY <1>5, <1>7, <2>2, <4>1, <4>3
    <3> QED
      BY <3>2, <3>3
  <2>3. \A k \in Sessions \ {l} : Heard(k)'
    BY <1>3, <2>2 DEF Heard
  <2> QED
    BY <2>1, <2>3
<1>10. Known'
  <2>1. \A g \in Covers : \A r \in late[g] : r \in Reports /\ Executed(g, r)
    BY DEF Inv, Known, RowsType
  <2>2. \A g \in Covers : \A r \in late[g] : Executed(g, r)'
    BY <1>6, <2>1, StaysExecuted DEF Inv
  <2>3. \A d \in Desks : desk[d] # 0 => status[desk[d]] # "NONE" /\ sent'[desk[d]] > 0
    <3>1. \A d \in Desks : desk[d] # 0 => desk[d] \in Covers /\ status[desk[d]] # "NONE" /\ sent[desk[d]] > 0
      BY DEF Inv, Known, RowsType
    <3> QED
      BY <1>5, <3>1
  <2>4. \A g \in Covers : late[g] # {} => status[g] # "NONE" /\ spent'.unheard # 0
    BY DEF Inv, Known
  <2> QED
    BY <2>2, <2>3, <2>4 DEF Known
<1>11. Alone'
  <2>1. \A k \in Sessions : bridge'[k].opens = bridge[k].opens
    BY <1>3
  <2> QED
    BY <2>1 DEF Inv, Alone
<1>12. Counted'
  <2>1. \A k \in Sessions : bridge'[k].opens = bridge[k].opens
    BY <1>3
  <2>2. \A g \in Covers : ToCome(g)' = ToCome(g)
    BY <2>1 DEF ToCome, Held
  <2>3. \A g \in Covers : again'[g] >= again[g]
    BY <1>5
  <2>4. \A g \in Covers \ {h} : CountOK(g)'
    <3>1. \A g \in Covers \ {h} : Waits(l, g)' = Waits(l, g)
      BY <1>1, <1>3, CoverIsNotZero DEF Waits
    <3> QED
      BY <1>3, <2>2, <2>3, <3>1, CountKept
  <2>5. CountOK(h)'
    <3>1. CASE list = "opens"
      <4>1. Waits(l, h) = 1 /\ Waits(l, h)' = 0
        BY <1>1, <1>3, <3>1 DEF Waits
      <4>2. ToCome(h)' = 0
        BY <1>1, <2>2, <3>1 DEF ToCome, Held
      <4> QED
        BY <1>3, <2>3, <4>1, <4>2, CountKept
    <3>2. CASE list = "closes"
      <4>1. Waits(l, h)' = Waits(l, h)
        BY <1>1, <1>3, <3>2 DEF Waits
      <4> QED
        BY <1>3, <2>2, <2>3, <3>2, <4>1, CountKept
    <3> QED
      BY <3>1, <3>2
  <2>6. status[h] # "NONE"
    BY <1>1, <1>2 DEF LoopOK
  <2>7. \A g \in Covers : status'[g] = "NONE" => sent'[g] = 0
    BY <2>6 DEF Inv, Counted
  <2> QED
    BY <2>4, <2>5, <2>7 DEF Counted
<1>13. FilledIsReal'
  BY <1>5 DEF Inv, FilledIsReal
<1>14. NoUnbookedPosition'
  <2>1. SUFFICES ASSUME NEW g \in Covers, spent'.unheard = 0, again[g] = 0, sent'[g] > shut'[g]
                 PROVE  status[g] \in {"FILLED", "CLOSE_PENDING"} \/ \E k \in Sessions : bridge'[k].cover = g
    BY DEF NoUnbookedPosition
  <2>2. CASE g = h
    BY <1>3, <2>2
  <2>3. CASE g # h
    <3>1. sent[g] > shut[g] /\ spent.unheard = 0
      BY <2>1, <2>3
    <3>2. status[g] \in {"FILLED", "CLOSE_PENDING"} \/ \E k \in Sessions : bridge[k].cover = g
      BY <2>1, <3>1 DEF Inv, NoUnbookedPosition
    <3>3. \A k \in Sessions : bridge[k].cover = g => k # l /\ bridge'[k].cover = g
      BY <1>1, <1>3, <2>3, CoverIsNotZero
    <3> QED
      BY <3>2, <3>3
  <2> QED
    BY <2>2, <2>3
<1> QED
  BY <1>4, <1>8, <1>9, <1>10, <1>11, <1>12, <1>13, <1>14 DEF Inv

\* A loop whose session is over raises for nothing; MT5's refusals are counted.
LEMMA RaisesSpends ==
  ASSUME Inv, NEW l \in Sessions, Raises(l)
  PROVE  SpentNat' /\ spent'.unheard = spent.unheard
<1>1. SpentNat /\ MaxRefusals \in Nat
  BY DEF Inv, RowsType
<1>2. CASE Spend("refusals", MaxRefusals)
  BY <1>1, <1>2, Spends
<1>3. CASE UNCHANGED spent
  BY <1>1, <1>3 DEF SpentNat
<1> QED
  BY <1>2, <1>3 DEF Raises

LEMMA SendStep ==
  ASSUME Inv, NEW l \in Sessions, NEW h \in Covers, Send(l, h) \/ SendUnconfirmed(l, h)
  PROVE  Inv'
<1>1. Comes(l, "opens", h) /\ UNCHANGED <<status, shut, desk, session, late, again>>
  BY DEF Send, SendUnconfirmed, hedgeRows
<1>2. /\ sent[h] \in Nat /\ shut[h] \in Nat /\ SpentNat /\ MaxUnheard \in Nat
      /\ \A g \in Covers : shut'[g] >= shut[g]
  BY <1>1 DEF Inv, RowsType
<1>3. ASSUME sent' = [sent EXCEPT ![h] = @ + 1]
      PROVE  /\ sent'[h] = sent[h] + 1 /\ \A g \in Covers \ {h} : sent'[g] = sent[g]
             /\ sent' \in [Covers -> Nat]
  BY <1>2, <1>3 DEF Inv, RowsType
<1>4. CASE Send(l, h) /\ sent' = [sent EXCEPT ![h] = @ + 1] /\ WillReport(l, h, "fill") /\ UNCHANGED spent
  <2>1. RowsType'
    BY <1>1, <1>3, <1>4 DEF Inv, RowsType, SpentNat
  <2> QED
    BY <1>1, <1>2, <1>3, <1>4, <2>1, TakesUp DEF Reports
<1>5. CASE Send(l, h) /\ Raises(l) /\ WillReport(l, h, "reject") /\ UNCHANGED sent
  <2>1. RowsType' /\ spent'.unheard = spent.unheard
    BY <1>1, <1>5, RaisesSpends DEF Inv, RowsType
  <2> QED
    BY <1>1, <1>2, <1>5, <2>1, TakesUp DEF Reports
<1>6. CASE SendUnconfirmed(l, h)
  <2>1. sent' = [sent EXCEPT ![h] = @ + 1] /\ WillReport(l, h, "reject") /\ Spend("unheard", MaxUnheard)
    BY <1>6 DEF SendUnconfirmed
  <2>2. SpentNat' /\ spent'.unheard > 0
    BY <1>2, <2>1, Spends
  <2>3. RowsType' /\ spent'.unheard # 0
    BY <1>1, <1>3, <2>1, <2>2 DEF Inv, RowsType, SpentNat
  <2> QED
    BY <1>1, <1>2, <1>3, <2>1, <2>3, TakesUp DEF Reports
<1> QED
  BY <1>4, <1>5, <1>6 DEF Send

LEMMA CloseStep ==
  ASSUME Inv, NEW l \in Sessions, NEW h \in Covers, Close(l, h)
  PROVE  Inv'
<1>1. Comes(l, "closes", h) /\ UNCHANGED <<status, sent, desk, session, late, again>>
  BY DEF Close, hedgeRows
<1>2. /\ sent[h] \in Nat /\ shut[h] \in Nat /\ again[h] \in Nat
      /\ bridge[l] \in Passes /\ LoopOK(l)
  BY DEF Inv, RowsType, BridgeType
<1>3. CASE sent[h] > shut[h] /\ shut' = [shut EXCEPT ![h] = @ + 1] /\ WillReport(l, h, "closed") /\ UNCHANGED spent
  <2>1. RowsType'
    BY <1>1, <1>3 DEF Inv, RowsType, SpentNat
  <2>2. shut'[h] = shut[h] + 1 /\ \A g \in Covers \ {h} : shut'[g] = shut[g]
    BY <1>3 DEF Inv, RowsType
  <2>3. again[h] = 0 => shut'[h] >= sent[h]
    <3>1. sent[h] + Cardinality(Waiting(h)) + ToCome(h) <= 1 + again[h] /\ ToCome(h) \in {0, 1}
      BY DEF Inv, Counted, CountOK, ToCome
    <3>2. Cardinality(Waiting(h)) \in Nat
      <4>1. Waiting(h) \in SUBSET Sessions
        BY DEF Waiting
      <4> QED
        BY <4>1, CardMoves
    <3>3. again[h] = 0 => sent[h] <= 1
      BY <1>2, <3>1, <3>2
    <3> QED
      BY <1>2, <2>2, <3>3
  <2> QED
    BY <1>1, <1>2, <1>3, <2>1, <2>2, <2>3, TakesUp DEF Reports
<1>4. CASE /\ IF sent[h] > shut[h] THEN Raises(l) ELSE UNCHANGED spent
           /\ bridge' = [bridge EXCEPT ![l].closes = @ \ {h}]
           /\ UNCHANGED shut
  <2>1. SpentNat' /\ spent'.unheard = spent.unheard
    BY <1>4, RaisesSpends DEF Inv, RowsType, SpentNat
  <2>2. RowsType' /\ session' >= session /\ \A g \in Covers : again'[g] >= again[g]
    BY <1>1, <1>4, <2>1, SessionsFinite DEF Inv, RowsType
  <2>3. /\ bridge[l].cover = 0 /\ bridge'[l].cover = 0 /\ bridge'[l].unread = bridge[l].unread
        /\ bridge'[l].opens = bridge[l].opens /\ bridge'[l].closes = bridge[l].closes \ {h}
        /\ bridge[l].closes # {}
        /\ bridge'[l] \in Passes /\ \A k \in Sessions \ {l} : bridge'[k] = bridge[k]
    BY <1>1, <1>2, <1>4 DEF Comes, Inv, BridgeType, Passes
  <2>4. BridgeType'
    BY <1>4, <2>3 DEF Inv, BridgeType
  <2>5. LoopOK(l)'
    <3>1. ~(l > session)
      BY <1>2, <2>3, IdleLoops DEF LoopOK
    <3> QED
      BY <1>1, <1>2, <2>3, <3>1 DEF LoopOK
  <2>6. Alone'
    BY <1>1, <2>3 DEF Inv, Alone
  <2>7. \A g \in Covers : CountOK(g)'
    <3>1. \A g \in Covers : Waits(l, g)' = Waits(l, g)
      BY <2>3 DEF Waits
    <3> QED
      BY <1>1, <2>2, <2>3, <3>1, CountsAlike
  <2> QED
    BY <1>1, <1>4, <2>1, <2>2, <2>3, <2>4, <2>5, <2>6, <2>7, QuietLoop
<1> QED
  BY <1>3, <1>4 DEF Close

\* A loop goes on to the next cover, and the row of the one it leaves is not PENDING.
LEMMA PassesOn ==
  ASSUME Inv, NEW l \in Sessions, NEW h \in Covers, bridge[l].cover = h, PassOn(l),
         RowsType', UNCHANGED <<sent, shut, desk, session, again>>,
         \A g \in Covers \ {h} : status'[g] = status[g],
         status'[h] \notin {"NONE", "PENDING"},
         Known', FilledIsReal', NoUnbookedPosition',
         spent'.unheard = 0 => spent.unheard = 0
  PROVE  Inv'
<1>1. bridge[l] \in Passes /\ LoopOK(l) /\ h # 0
  BY CoverIsNotZero DEF Inv, BridgeType
<1>2. /\ bridge'[l].cover = 0 /\ bridge'[l].opens = bridge[l].opens \ {h}
      /\ bridge'[l].closes \subseteq bridge[l].closes /\ bridge'[l].unread = bridge[l].unread
      /\ bridge'[l] \in Passes /\ \A k \in Sessions \ {l} : bridge'[k] = bridge[k]
  BY <1>1 DEF PassOn, Inv, BridgeType, Passes
<1>3. BridgeType'
  <2>1. bridge' = [k \in Sessions |-> bridge'[k]]
    BY DEF Inv, BridgeType, PassOn
  <2>2. \A k \in Sessions : bridge'[k] \in Passes
    BY <1>2 DEF Inv, BridgeType
  <2> QED
    BY <2>1, <2>2 DEF BridgeType
<1>4. MovesOn
  <2>1. \A g \in Covers : sent[g] \in Nat /\ shut[g] \in Nat /\ again[g] \in Nat
    BY DEF Inv, RowsType
  <2>2. session \in Nat
    BY SessionsFinite DEF Inv, RowsType
  <2> QED
    BY <2>1, <2>2 DEF MovesOn
<1>5. \A k \in Sessions : LoopOK(k)' /\ Truth(k)'
  <2>1. \A k \in Sessions \ {l} : LoopOK(k)' /\ Truth(k)'
    BY <1>2, <1>4, OthersKept
  <2>2. LoopOK(l)'
    <3>1. ~(l > session)
      BY <1>1, IdleLoops DEF LoopOK
    <3>2. bridge[l].unread = {}
      BY <1>1 DEF LoopOK
    <3> QED
      BY <1>1, <1>2, <1>4, <3>1, <3>2 DEF LoopOK, MovesOn, Passes
  <2>3. Truth(l)'
    BY <1>2 DEF Truth
  <2> QED
    BY <2>1, <2>2, <2>3
<1>6. \A k \in Sessions : Heard(k)'
  BY <1>2 DEF Inv, Heard
<1>7. Alone'
  BY <1>2 DEF Inv, Alone
<1>8. Counted'
  <2>1. \A g \in Covers \ {h} : CountOK(g)'
    <3>1. \A g \in Covers \ {h} : Waits(l, g)' = Waits(l, g)
      BY <1>1, <1>2, CoverIsNotZero DEF Waits
    <3>2. \A g \in Covers \ {h} : Held(g)' <=> Held(g)
      BY <1>2 DEF Held
    <3>3. \A g \in Covers \ {h} : ToCome(g)' = ToCome(g)
      BY <3>2 DEF ToCome
    <3>4. \A g \in Covers : again'[g] >= again[g]
      BY <1>4 DEF MovesOn
    <3> QED
      BY <1>2, <3>1, <3>3, <3>4, CountKept
  <2>2. CountOK(h)'
    <3>1. Waits(l, h) = 0 /\ Waits(l, h)' = 0 /\ ToCome(h)' = 0 /\ again'[h] >= again[h]
      BY <1>2, <1>4 DEF Waits, ToCome, MovesOn
    <3> QED
      BY <1>2, <3>1, CountKept
  <2>3. \A g \in Covers : status'[g] = "NONE" => sent'[g] = 0
    BY DEF Inv, Counted
  <2> QED
    BY <2>1, <2>2, <2>3 DEF Counted
<1> QED
  BY <1>3, <1>5, <1>6, <1>7, <1>8 DEF Inv

LEMMA ReportStep ==
  ASSUME Inv, NEW l \in Sessions, Report(l)
  PROVE  Inv'
<1> DEFINE h == bridge[l].cover
           report == bridge[l].report
<1>1. /\ h \in Covers /\ report \in Reports /\ Write(h, report) /\ PassOn(l) /\ Executed(h, report)
      /\ UNCHANGED <<sent, shut, desk, session, late, again, spent>>
  BY AtCover DEF Report, mt5
<1>2. /\ status' \in [Covers -> Statuses]
      /\ status'[h] = Reported[report] /\ \A g \in Covers \ {h} : status'[g] = status[g]
      /\ status'[h] \in {"FILLED", "REJECTED", "CLOSED"}
      /\ status'[h] = "FILLED" => sent[h] > 0
      /\ status'[h] = "CLOSED" => sent[h] > 0 /\ shut[h] > 0
  BY <1>1, Writes
<1>3. RowsType'
  BY <1>1, <1>2 DEF Inv, RowsType, SpentNat
<1>4. /\ FilledIsReal'
      /\ \A d \in Desks : desk'[d] # 0 => status'[desk'[d]] # "NONE" /\ sent'[desk'[d]] > 0
  BY <1>1, <1>2, StaysReal
<1>5. Known'
  BY <1>1, <1>2, <1>4 DEF Inv, Known, Executed
<1>6. \A k \in Sessions \ {l} : bridge'[k] = bridge[k]
  BY <1>1 DEF PassOn, Inv, BridgeType
<1>7. NoUnbookedPosition'
  <2>1. SUFFICES ASSUME NEW g \in Covers, spent.unheard = 0, again[g] = 0, sent[g] > shut[g]
                 PROVE  status'[g] \in {"FILLED", "CLOSE_PENDING"} \/ \E k \in Sessions : bridge'[k].cover = g
    BY <1>1 DEF NoUnbookedPosition
  <2>2. CASE g = h
    <3>1. sent[h] \in Nat /\ shut[h] \in Nat /\ h # 0 /\ Heard(l)
      BY <1>1, CoverIsNotZero DEF Inv, RowsType
    <3>2. /\ report = "reject" => sent[h] = 0
          /\ report = "closed" => shut[h] >= sent[h]
      BY <2>1, <2>2, <3>1 DEF Heard
    <3>3. report = "fill"
      BY <1>1, <2>1, <2>2, <3>1, <3>2 DEF Reports
    <3> QED
      BY <1>2, <2>2, <3>3 DEF Reported
  <2>3. CASE g # h
    <3>1. status[g] \in {"FILLED", "CLOSE_PENDING"} \/ \E k \in Sessions : bridge[k].cover = g
      BY <2>1 DEF Inv, NoUnbookedPosition
    <3>2. \A k \in Sessions : bridge[k].cover = g => bridge'[k].cover = g
      BY <1>6, <2>3
    <3> QED
      BY <1>2, <2>3, <3>1, <3>2
  <2> QED
    BY <2>2, <2>3
<1>8. status'[h] \notin {"NONE", "PENDING"}
  BY <1>2
<1> QED
  <2> HIDE DEF h
  <2>1. bridge[l].cover = h
    BY DEF h
  <2> QED
    BY <1>1, <1>2, <1>3, <1>4, <1>5, <1>7, <1>8, <2>1, PassesOn

\* What a report that is given up leaves behind.
LEMMA GivenUp ==
  ASSUME Inv, NEW h \in Covers, NEW report \in Reports, Executed(h, report), status[h] # "NONE",
         GivesUp(h, report), UNCHANGED <<sent, shut, desk>>
  PROVE  /\ status' \in [Covers -> Statuses]
         /\ \A g \in Covers \ {h} : status'[g] = status[g]
         /\ status'[h] = status[h] \/ status'[h] \in {"FILLED", "REJECTED", "CLOSED"}
         /\ late' \in [Covers -> SUBSET Reports]
         /\ SpentNat' /\ spent'.unheard # 0
         /\ Known' /\ FilledIsReal'
<1>1. SpentNat' /\ spent'.unheard # 0
  <2>1. MaxUnheard \in Nat /\ SpentNat /\ Spend("unheard", MaxUnheard)
    BY DEF Inv, RowsType, GivesUp
  <2>2. SpentNat' /\ spent'.unheard > 0
    BY <2>1, Spends
  <2> QED
    BY <2>2
<1>2. /\ status' \in [Covers -> Statuses]
      /\ \A g \in Covers \ {h} : status'[g] = status[g]
      /\ \/ status'[h] = status[h]
         \/ /\ status'[h] \in {"FILLED", "REJECTED", "CLOSED"}
            /\ status'[h] = "FILLED" => sent[h] > 0
            /\ status'[h] = "CLOSED" => sent[h] > 0 /\ shut[h] > 0
  <2>1. CASE Write(h, report)
    BY <2>1, Writes
  <2>2. CASE UNCHANGED status
    BY <2>2 DEF Inv, RowsType
  <2> QED
    BY <2>1, <2>2 DEF GivesUp
<1>3. /\ late' \in [Covers -> SUBSET Reports]
      /\ \A g \in Covers : \A r \in late'[g] : r \in late[g] \/ (g = h /\ r = report)
  BY DEF GivesUp, Inv, RowsType
<1>4. /\ FilledIsReal'
      /\ \A d \in Desks : desk'[d] # 0 => status'[desk'[d]] # "NONE" /\ sent'[desk'[d]] > 0
  BY <1>2, StaysReal
<1>5. Known'
  <2>1. \A g \in Covers : \A r \in late'[g] : Executed(g, r)'
    BY <1>3 DEF Inv, Known, Executed
  <2>2. \A g \in Covers : late'[g] # {} => status'[g] # "NONE"
    BY <1>2, <1>3 DEF Inv, Known
  <2> QED
    BY <1>1, <1>4, <2>1, <2>2 DEF Known
<1> QED
  BY <1>1, <1>2, <1>3, <1>4, <1>5

LEMMA ReportFailsStep ==
  ASSUME Inv, NEW l \in Sessions, ReportFails(l)
  PROVE  Inv'
<1> DEFINE h == bridge[l].cover
           report == bridge[l].report
<1>1. /\ h \in Covers /\ report \in Reports /\ GivesUp(h, report) /\ status[h] # "NONE"
      /\ bridge[l].unread = {} /\ Executed(h, report) /\ h # 0
      /\ report = "closed" => status[h] \notin {"NONE", "PENDING"}
      /\ UNCHANGED <<sent, shut, desk, session>>
  BY AtCover DEF ReportFails, mt5
<1>2. /\ status' \in [Covers -> Statuses]
      /\ \A g \in Covers \ {h} : status'[g] = status[g]
      /\ status'[h] = status[h] \/ status'[h] \in {"FILLED", "REJECTED", "CLOSED"}
      /\ late' \in [Covers -> SUBSET Reports]
      /\ SpentNat' /\ spent'.unheard # 0
      /\ Known' /\ FilledIsReal'
  BY <1>1, GivenUp
<1>3. NoUnbookedPosition' /\ \A k \in Sessions : Heard(k)'
  BY <1>2 DEF Heard, NoUnbookedPosition
<1>4. bridge[l] \in Passes /\ LoopOK(l) /\ \A g \in Covers : again[g] \in Nat
  BY DEF Inv, BridgeType, RowsType
<1>5. ~(l > session)
  BY <1>1, <1>4, IdleLoops DEF LoopOK
<1>6. ASSUME RowsType', \A g \in Covers : again'[g] >= again[g]
      PROVE  MovesOn
  <2>1. \A g \in Covers : sent[g] \in Nat /\ shut[g] \in Nat
    BY DEF Inv, RowsType
  <2>2. session \in Nat
    BY SessionsFinite DEF Inv, RowsType
  <2>3. status'[h] # "NONE" /\ (status[h] # "PENDING" => status'[h] # "PENDING")
    BY <1>1, <1>2
  <2> QED
    BY <1>1, <1>2, <1>6, <2>1, <2>2, <2>3 DEF MovesOn
<1>7. CASE report = "fill"
  <2>1. bridge' = [bridge EXCEPT ![l].cover = h, ![l].report = "reject"] /\ again' = again
    BY <1>7 DEF ReportFails, WillReport
  <2>2. /\ bridge'[l].cover = h /\ bridge'[l].report = "reject" /\ bridge'[l].unread = {}
        /\ bridge'[l].opens = bridge[l].opens /\ bridge'[l].closes = bridge[l].closes
        /\ bridge'[l] \in Passes /\ \A k \in Sessions \ {l} : bridge'[k] = bridge[k]
    BY <1>1, <1>4, <2>1 DEF Inv, BridgeType, Passes, Reports
  <2>3. RowsType' /\ BridgeType'
    <3>1. bridge' = [k \in Sessions |-> bridge'[k]]
      BY <2>1 DEF Inv, BridgeType
    <3>2. \A k \in Sessions : bridge'[k] \in Passes
      BY <2>2 DEF Inv, BridgeType
    <3> QED
      BY <1>1, <1>2, <2>1, <3>1, <3>2 DEF Inv, RowsType, BridgeType
  <2>4. MovesOn /\ \A g \in Covers : again'[g] >= again[g]
    BY <1>4, <1>6, <2>1, <2>3
  <2>5. \A k \in Sessions : LoopOK(k)' /\ Truth(k)'
    <3>1. \A k \in Sessions \ {l} : LoopOK(k)' /\ Truth(k)'
      BY <2>2, <2>3, <2>4, OthersKept
    <3>2. LoopOK(l)'
      <4>1. h \in bridge[l].opens
        BY <1>1, <1>4, <1>7 DEF LoopOK
      <4>2. \A g \in bridge[l].opens : status'[g] # "NONE"
        BY <1>4, <2>4 DEF LoopOK, MovesOn, Passes
      <4>3. \A g \in bridge[l].closes : status'[g] \notin {"NONE", "PENDING"}
        BY <1>4, <2>4 DEF LoopOK, MovesOn, Passes
      <4> HIDE DEF h, report
      <4> QED
        BY <1>1, <1>5, <2>2, <4>1, <4>2, <4>3 DEF LoopOK, Reports
    <3>3. Truth(l)'
      BY <2>2 DEF Truth, Executed
    <3> QED
      BY <3>1, <3>2, <3>3
  <2>6. Alone'
    BY <2>1, <2>2 DEF Inv, Alone
  <2>7. Counted'
    <3>1. \A k \in Sessions : bridge'[k].opens = bridge[k].opens
      BY <2>2
    <3>2. \A g \in Covers : ToCome(g)' = 1 => ToCome(g) = 1
      BY <1>2, <3>1 DEF ToCome, Held
    <3>3. \A g \in Covers : Waits(l, g)' = Waits(l, g)
      BY <2>2 DEF Waits
    <3>4. \A g \in Covers : CountOK(g)'
      BY <1>1, <2>2, <2>3, <2>4, <3>2, <3>3, CountKept
    <3>5. \A g \in Covers : status'[g] = "NONE" => sent'[g] = 0
      BY <1>1, <1>2 DEF Inv, Counted
    <3> QED
      BY <3>4, <3>5 DEF Counted
  <2> QED
    BY <1>2, <1>3, <2>3, <2>5, <2>6, <2>7 DEF Inv
<1>8. CASE report = "reject"
  <2> DEFINE turned == Between(l)
  <2>1. bridge' = [bridge EXCEPT ![l] = turned] /\ Leaves(h)
    BY <1>8 DEF ReportFails
  <2>2. /\ turned \in {NoPass, Ended} /\ turned \in Passes
        /\ turned.cover = 0 /\ turned.opens = {} /\ turned.closes = {}
    BY PassTypes, IdleLoops DEF Between
  <2> HIDE DEF turned
  <2>3. /\ bridge'[l] = turned /\ \A k \in Sessions \ {l} : bridge'[k] = bridge[k]
        /\ BridgeType'
    BY <2>1, <2>2 DEF Inv, BridgeType
  <2>4. /\ again' \in [Covers -> Nat] /\ \A g \in Covers : again'[g] >= again[g]
        /\ status'[h] = "PENDING" => again'[h] > again[h]
    BY <1>1, <1>4, <2>1 DEF Leaves, Inv, RowsType
  <2>5. RowsType'
    BY <1>1, <1>2, <2>4 DEF Inv, RowsType
  <2>6. \A k \in Sessions : LoopOK(k)' /\ Truth(k)'
    <3>1. \A k \in Sessions \ {l} : LoopOK(k)' /\ Truth(k)'
      BY <1>6, <2>3, <2>4, <2>5, OthersKept
    <3>2. LoopOK(l)' /\ Truth(l)'
      BY <1>1, <1>5, <2>2, <2>3 DEF LoopOK, Truth
    <3> QED
      BY <3>1, <3>2
  <2>7. Alone'
    <3>1. \A g \in Covers : again[g] > 0 => again'[g] > 0
      BY <1>4, <2>4, <2>5 DEF RowsType
    <3> QED
      BY <2>2, <2>3, <3>1 DEF Inv, Alone
  <2>8. Counted'
    <3>1. \A g \in Covers : Waits(l, g)' = 0
      BY <2>2, <2>3 DEF Waits
    <3>2. ASSUME NEW g \in Covers, g = h PROVE CountOK(g)'
      <4>1. Waits(l, g) = 0
        BY <3>2 DEF Waits
      <4>2. ToCome(g)' = 1 => again'[g] > again[g]
        BY <2>4, <3>2 DEF ToCome
      <4> QED
        BY <1>1, <2>3, <2>4, <2>5, <3>1, <4>1, <4>2, CountKept
    <3>3. ASSUME NEW g \in Covers, g # h PROVE CountOK(g)'
      <4>1. Waits(l, g) \in {0, 1} /\ (Waits(l, g) = 0 => g \notin bridge[l].opens)
        BY <3>3 DEF Waits
      <4>2. Waits(l, g) = 0 /\ ToCome(g)' = 1 => ToCome(g) = 1
        <5>1. SUFFICES ASSUME Waits(l, g) = 0, ToCome(g)' = 1 PROVE ToCome(g) = 1
          OBVIOUS
        <5>2. status'[g] = "PENDING" /\ ~Held(g)'
          BY <5>1 DEF ToCome
        <5>3. ~Held(g)
          BY <2>3, <4>1, <5>1, <5>2 DEF Held
        <5> QED
          BY <1>2, <3>3, <5>2, <5>3 DEF ToCome
      <4> QED
        BY <1>1, <2>3, <2>4, <2>5, <3>1, <4>1, <4>2, CountKept
    <3>4. \A g \in Covers : status'[g] = "NONE" => sent'[g] = 0
      BY <1>1, <1>2 DEF Inv, Counted
    <3> QED
      BY <3>2, <3>3, <3>4 DEF Counted
  <2> QED
    BY <1>2, <1>3, <2>3, <2>5, <2>6, <2>7, <2>8 DEF Inv
<1>9. CASE report = "closed"
  <2>1. PassOn(l) /\ again' = again
    BY <1>9 DEF ReportFails
  <2>2. RowsType' /\ status'[h] \notin {"NONE", "PENDING"}
    BY <1>1, <1>2, <1>9, <2>1 DEF Inv, RowsType
  <2>3. bridge[l].cover = h
    OBVIOUS
  <2> HIDE DEF h
  <2> QED
    BY <1>1, <1>2, <1>3, <2>1, <2>2, <2>3, PassesOn
<1> QED
  BY <1>1, <1>7, <1>8, <1>9 DEF Reports

LEMMA BridgeCrashStep ==
  ASSUME Inv, BridgeCrash
  PROVE  Inv'
<1> DEFINE at(h) == \E l \in Sessions : bridge[l].cover = h
<1>1. /\ bridge' = [l \in Sessions |-> Between(l)]
      /\ UNCHANGED <<status, sent, shut, desk, session, late>>
      /\ again' = [h \in Covers |-> again[h] + IF status[h] = "PENDING" /\ at(h) THEN 1 ELSE 0]
      /\ Spend("unheard", MaxUnheard)
  BY DEF BridgeCrash, hedgeRows, mt5
<1>2. SpentNat' /\ spent'.unheard # 0
  <2>1. MaxUnheard \in Nat /\ SpentNat
    BY DEF Inv, RowsType
  <2>2. SpentNat' /\ spent'.unheard > 0
    BY <1>1, <2>1, Spends
  <2> QED
    BY <2>2
<1>3. \A h \in Covers : /\ again[h] \in Nat /\ again'[h] \in Nat /\ again'[h] >= again[h]
                        /\ status[h] = "PENDING" /\ at(h) => again'[h] = again[h] + 1
  BY <1>1 DEF Inv, RowsType
<1>4. \A l \in Sessions : /\ bridge'[l] \in {NoPass, Ended} /\ bridge'[l] \in Passes
                          /\ bridge'[l].cover = 0 /\ bridge'[l].opens = {} /\ bridge'[l].closes = {}
                          /\ l > session => bridge'[l] = Ended
  <2>1. \A l \in Sessions : Between(l) \in {NoPass, Ended} /\ (l # session => Between(l) = Ended)
    BY DEF Between
  <2>2. \A l \in Sessions : l > session => l # session
    BY SessionsFinite DEF Inv, RowsType
  <2> QED
    BY <1>1, <2>1, <2>2, PassTypes, IdleLoops
<1>5. RowsType' /\ BridgeType'
  <2>1. again' \in [Covers -> Nat]
    BY <1>1, <1>3
  <2> QED
    BY <1>1, <1>2, <1>4, <2>1 DEF Inv, RowsType, BridgeType
<1>6. \A l \in Sessions : LoopOK(l)' /\ Truth(l)' /\ Heard(l)'
  BY <1>1, <1>4, IdleLoops DEF LoopOK, Truth, Heard
<1>7. Known' /\ FilledIsReal' /\ NoUnbookedPosition'
  BY <1>1, <1>2 DEF Inv, Known, Executed, FilledIsReal, NoUnbookedPosition
<1>8. Alone'
  BY <1>4 DEF Alone
<1>9. Counted'
  <2>1. ASSUME NEW h \in Covers PROVE CountOK(h)'
    <3>1. Cardinality(Waiting(h))' = 0
      <4>1. Waiting(h)' = {}
        BY <1>4 DEF Waiting
      <4> QED
        BY <4>1, FS_EmptySet
    <3>2. /\ sent[h] \in Nat /\ ToCome(h) \in {0, 1} /\ ToCome(h)' \in {0, 1}
          /\ sent[h] + Cardinality(Waiting(h)) + ToCome(h) <= 1 + again[h]
          /\ Waiting(h) \in SUBSET Sessions
      BY DEF Inv, RowsType, Counted, CountOK, ToCome, Waiting
    <3>3. Cardinality(Waiting(h)) \in Nat /\ \A l \in Waiting(h) : Cardinality(Waiting(h)) > 0
      <4>1. \A l \in Sessions : Cardinality(Waiting(h)) \in Nat /\ (l \in Waiting(h) => Cardinality(Waiting(h)) > 0)
        BY <3>2, CardMoves
      <4> QED
        BY <3>2, <4>1, SessionsFinite
    <3>4. sent[h] + ToCome(h)' <= 1 + again'[h]
      <4>1. CASE ToCome(h)' = 0
        BY <1>3, <3>2, <3>3, <4>1
      <4>2. CASE ToCome(h)' = 1 /\ at(h)
        <5>1. status[h] = "PENDING"
          BY <1>1, <4>2 DEF ToCome
        <5>2. again'[h] = again[h] + 1
          BY <1>3, <4>2, <5>1
        <5> HIDE DEF at
        <5> QED
          BY <1>3, <3>2, <3>3, <4>2, <5>2
      <4>3. CASE ToCome(h)' = 1 /\ ~at(h)
        <5>1. status[h] = "PENDING"
          BY <1>1, <4>3 DEF ToCome
        <5>2. CASE Held(h)
          <6>1. \E l \in Sessions : l \in Waiting(h)
            BY <4>3, <5>2 DEF Held, Waiting
          <6>2. Cardinality(Waiting(h)) > 0
            BY <3>3, <6>1
          <6> QED
            BY <1>3, <3>2, <3>3, <4>3, <6>2
        <5>3. CASE ~Held(h)
          <6>1. ToCome(h) = 1
            BY <5>1, <5>3 DEF ToCome
          <6> QED
            BY <1>3, <3>2, <3>3, <4>3, <6>1
        <5> QED
          BY <5>2, <5>3
      <4> QED
        BY <3>2, <4>1, <4>2, <4>3
    <3>5. sent'[h] = sent[h]
      BY <1>1
    <3>6. sent[h] + 0 + ToCome(h)' = sent[h] + ToCome(h)'
      BY <3>2
    <3> QED
      BY <3>1, <3>4, <3>5, <3>6 DEF CountOK
  <2>2. \A h \in Covers : status'[h] = "NONE" => sent'[h] = 0
    BY <1>1 DEF Inv, Counted
  <2> QED
    BY <2>1, <2>2 DEF Counted
<1> QED
  BY <1>5, <1>6, <1>7, <1>8, <1>9 DEF Inv

-----------------------------------------------------------------------------
(* The exposure, the lots and the bounds                                    *)

SpentType ==
  spent \in [moves : 0 .. MaxMoves, asked : 0 .. MaxAsked,
             refusals : 0 .. MaxRefusals, unheard : 0 .. MaxUnheard]

SweepType ==
  sweep \in [Sweeps -> [pc : {"idle", "positions", "fills", "create"}, net : Exposures, hedged : Int]]

Clips == -MaxClip .. MaxClip
DeskLots == DeskVolumes \cup {-volume : volume \in DeskVolumes}

LotsType == lots \in [Covers -> Clips \cup DeskLots]

\* The bounds hold.
LEMMA SpendKeeps ==
  ASSUME SpentType,
         \/ Spend("moves", MaxMoves) \/ Spend("asked", MaxAsked)
         \/ Spend("refusals", MaxRefusals) \/ Spend("unheard", MaxUnheard)
  PROVE  SpentType'
<1> USE DEF SpentType, Spend
<1>1. CASE Spend("moves", MaxMoves)
  BY <1>1
<1>2. CASE Spend("asked", MaxAsked)
  BY <1>2
<1>3. CASE Spend("refusals", MaxRefusals)
  BY <1>3
<1>4. CASE Spend("unheard", MaxUnheard)
  BY <1>4
<1> QED
  BY <1>1, <1>2, <1>3, <1>4

LEMMA SpentKept == ASSUME SpentType, [Next]_vars PROVE SpentType'
<1>1. CASE spent' = spent
  BY <1>1 DEF SpentType
<1>2. CASE ClientsTrade \/ Desk
  BY <1>1, <1>2, SpendKeeps DEF ClientsTrade, Desk, ManualHedge, CloseWrite, CloseRead
<1>3. ASSUME NEW s \in Sweeps, Sweep(s) PROVE SpentType'
  BY <1>1, <1>3 DEF Sweep, SweepCount, SweepPositions, SweepFills, SweepCreate
<1>4. ASSUME NEW l \in Sessions, Pass(l) PROVE SpentType'
  BY <1>1, <1>4, SpendKeeps DEF Pass, PollReads, PassEnds, LoopStops, Report, Send, Close, Raises
<1>5. ASSUME NEW l \in Sessions, ReportFails(l) \/ \E h \in Covers : SendUnconfirmed(l, h)
      PROVE  SpentType'
  BY <1>5, SpendKeeps DEF ReportFails, GivesUp, SendUnconfirmed
<1>6. CASE BridgeCrash
  BY <1>6, SpendKeeps DEF BridgeCrash
<1>7. CASE Reconnect \/ \E h \in Covers : \E report \in Reports : ReportLate(h, report)
  BY <1>1, <1>7 DEF Reconnect, ReportLate
<1>8. CASE UNCHANGED vars
  BY <1>1, <1>8 DEF vars
<1> QED
  BY <1>2, <1>3, <1>4, <1>5, <1>6, <1>7, <1>8 DEF Next

\* Apart from the clients and the sweeps, nobody changes their exposure or what a sweep has read; and
\* only the sweeps and the desk add rows.
LEMMA AtTheBridge ==
  ASSUME \/ \E l \in Sessions : Pass(l) \/ ReportFails(l) \/ \E h \in Covers : SendUnconfirmed(l, h)
         \/ Reconnect \/ BridgeCrash \/ \E h \in Covers : \E report \in Reports : ReportLate(h, report)
         \/ UNCHANGED vars
  PROVE  UNCHANGED <<net, sweep, lots>>
<1>1. ASSUME NEW l \in Sessions, Pass(l) PROVE UNCHANGED <<net, sweep, lots>>
  BY <1>1 DEF Pass, PollReads, PassEnds, LoopStops, Report, Send, Close, hedgeRows
<1>2. ASSUME NEW l \in Sessions, ReportFails(l) \/ \E h \in Covers : SendUnconfirmed(l, h)
      PROVE  UNCHANGED <<net, sweep, lots>>
  BY <1>2 DEF ReportFails, SendUnconfirmed, hedgeRows
<1>3. CASE Reconnect \/ BridgeCrash \/ \E h \in Covers : \E report \in Reports : ReportLate(h, report)
  BY <1>3 DEF Reconnect, BridgeCrash, ReportLate, hedgeRows
<1>4. CASE UNCHANGED vars
  BY <1>4 DEF vars
<1> QED
  BY <1>1, <1>2, <1>3, <1>4

\* The clients trade within the exposures there can be; nobody else changes theirs.
LEMMA NetKept == ASSUME net \in Exposures, [Next]_vars PROVE net' \in Exposures
<1>1. CASE ClientsTrade
  BY <1>1 DEF ClientsTrade
<1>2. CASE UNCHANGED net
  BY <1>2
<1> QED
  BY <1>1, <1>2, AtTheBridge DEF Next, Desk, ManualHedge, CloseWrite, CloseRead, Sweep, SweepCount,
       SweepPositions, SweepFills, SweepCreate

\* A clip is at most the greatest one, to either side.
LEMMA ClipIs == ASSUME NEW delta \in Int PROVE Clip(delta) \in Clips
<1>1. MaxClip \in Nat \ {0} /\ MinClip \in Nat \ {0}
  OBVIOUS
<1>2. CASE delta < 0
  BY <1>1, <1>2 DEF Clip, Size, SignOf, Smaller, Clips
<1>3. CASE ~(delta < 0)
  BY <1>1, <1>3 DEF Clip, Size, SignOf, Smaller, Clips
<1> QED
  BY <1>2, <1>3

LEMMA DesiredIs == ASSUME NEW n \in Int PROVE Desired(n) \in Int
<1>1. Threshold \in Nat
  OBVIOUS
<1> QED
  BY <1>1 DEF Desired, Size, SignOf

\* The lots of any covers add up to an integer.
LEMMA LotsAddUp == ASSUME LotsType, NEW covers \in SUBSET Covers PROVE SumOfLots(covers) \in Int
<1>1. SumOfLots(covers) = SumOver(lots, covers)
  BY DEF SumOfLots, SumOver, MapThenSumSet, MapThenFoldSet
<1>2. MaxCovers \in Nat /\ MaxClip \in Nat /\ DeskVolumes \subseteq Nat
  OBVIOUS
<1>3. IsFiniteSet(covers)
  <2>1. IsFiniteSet(Covers)
    BY <1>2, FS_Interval DEF Covers
  <2> QED
    BY <2>1, FS_Subset
<1>4. \A h \in covers : lots[h] \in Int
  <2>1. Clips \subseteq Int
    BY <1>2 DEF Clips
  <2>2. \A volume \in DeskVolumes : volume \in Int /\ -volume \in Int
    <3>1. \A n \in Nat : n \in Int /\ -n \in Int
      OBVIOUS
    <3> QED
      BY <1>2, <3>1, Zenon
  <2>3. \A lot \in DeskLots : lot \in Int
    BY <2>2 DEF DeskLots
  <2> QED
    BY <2>1, <2>3 DEF LotsType
<1> QED
  BY <1>1, <1>3, <1>4, SumIsInt

LEMMA SweepKept == ASSUME SweepType, LotsType, net \in Exposures, [Next]_vars PROVE SweepType'
<1>1. CASE UNCHANGED sweep
  BY <1>1 DEF SweepType
<1>2. ASSUME NEW s \in Sweeps, SweepCount(s) \/ SweepPositions(s) PROVE SweepType'
  BY <1>2 DEF SweepType, SweepCount, SweepPositions
<1>3. ASSUME NEW s \in Sweeps, SweepFills(s) PROVE SweepType'
  <2>1. PICK sum \in Int : sweep' = [sweep EXCEPT ![s].pc = "create", ![s].hedged = sum]
    BY <1>3, LotsAddUp DEF SweepFills
  <2> QED
    BY <2>1 DEF SweepType
<1>4. ASSUME NEW s \in Sweeps, SweepCreate(s) PROVE SweepType'
  <2>1. NoSweep \in [pc : {"idle", "positions", "fills", "create"}, net : Exposures, hedged : Int]
    BY DEF NoSweep
  <2>2. sweep' = [sweep EXCEPT ![s] = NoSweep]
    BY <1>4 DEF SweepCreate
  <2> QED
    BY <2>1, <2>2 DEF SweepType
<1>5. CASE ClientsTrade \/ Desk
  BY <1>1, <1>5 DEF ClientsTrade, Desk, ManualHedge, CloseWrite, CloseRead
<1> QED
  BY <1>1, <1>2, <1>3, <1>4, <1>5, AtTheBridge DEF Next, Sweep

LEMMA LotsKept == ASSUME SweepType, LotsType, [Next]_vars PROVE LotsType'
<1>1. CASE UNCHANGED lots
  BY <1>1 DEF LotsType
<1>2. ASSUME NEW volume \in Clips \cup DeskLots, Insert(volume) PROVE LotsType'
  BY <1>2 DEF Insert, LotsType
<1>3. ASSUME NEW volume \in DeskVolumes, ManualHedge(volume) \/ ManualHedge(-volume) PROVE LotsType'
  <2>1. volume \in DeskLots /\ -volume \in DeskLots
    BY DEF DeskLots
  <2> QED
    BY <1>2, <1>3, <2>1 DEF ManualHedge
<1>4. ASSUME NEW s \in Sweeps, SweepCreate(s) PROVE LotsType'
  <2>1. sweep[s].net \in Int /\ sweep[s].hedged \in Int
    BY DEF SweepType
  <2>2. Desired(sweep[s].net) - sweep[s].hedged \in Int
    BY <2>1, DesiredIs
  <2>3. Clip(Desired(sweep[s].net) - sweep[s].hedged) \in Clips
    BY <2>2, ClipIs
  <2>4. UNCHANGED lots \/ Insert(Clip(Desired(sweep[s].net) - sweep[s].hedged))
    BY <1>4 DEF SweepCreate, hedgeRows
  <2> QED
    BY <1>1, <1>2, <2>3, <2>4
<1>5. CASE ClientsTrade \/ \E d \in Desks : CloseWrite(d) \/ \E h \in Covers : CloseRead(d, h)
  BY <1>1, <1>5 DEF ClientsTrade, CloseWrite, CloseRead, hedgeRows
<1>6. ASSUME NEW s \in Sweeps, SweepCount(s) \/ SweepPositions(s) \/ SweepFills(s) PROVE LotsType'
  BY <1>1, <1>6 DEF SweepCount, SweepPositions, SweepFills, hedgeRows
<1> QED
  BY <1>1, <1>3, <1>4, <1>5, <1>6, AtTheBridge DEF Next, Desk, Sweep

Volumes == net \in Exposures /\ SweepType /\ LotsType /\ SpentType

LEMMA VolumesInit == Init => Volumes
<1> SUFFICES ASSUME Init PROVE Volumes
  OBVIOUS
<1>1. {MaxMoves, MaxAsked, MaxRefusals, MaxUnheard} \subseteq Nat /\ MaxClip \in Nat /\ 0 \in Exposures
  OBVIOUS
<1>2. net \in Exposures /\ LotsType
  BY <1>1 DEF Init, LotsType, Clips
<1>3. SweepType
  BY <1>1 DEF Init, SweepType, NoSweep
<1>4. SpentType
  BY <1>1 DEF Init, SpentType
<1> QED
  BY <1>2, <1>3, <1>4 DEF Volumes

LEMMA VolumesStep == Volumes /\ [Next]_vars => Volumes'
BY NetKept, SweepKept, LotsKept, SpentKept DEF Volumes

-----------------------------------------------------------------------------
(* The theorems                                                             *)

LEMMA StepInv == Inv /\ [Next]_vars => Inv'
<1> SUFFICES ASSUME Inv, [Next]_vars PROVE Inv'
  OBVIOUS
<1>0. {MaxMoves, MaxAsked} \subseteq Nat /\ SpentNat
  BY DEF Inv, RowsType
<1>1. CASE ClientsTrade
  <2>1. SpentNat' /\ spent'.unheard = spent.unheard
    BY <1>0, <1>1, Spends DEF ClientsTrade
  <2> QED
    BY <1>1, <2>1, AwayFromTheRows DEF ClientsTrade, hedgeRows, crew
<1>2. CASE Desk
  <2>1. ASSUME NEW volume, ManualHedge(volume)
        PROVE  Inv'
    <3>1. SpentNat' /\ spent'.unheard = spent.unheard
      BY <1>0, <2>1, Spends DEF ManualHedge
    <3> QED
      BY <2>1, <3>1, InsertStep DEF ManualHedge, crew
  <2> QED
    BY <1>2, <2>1, CloseReadStep, CloseWriteStep DEF Desk
<1>3. ASSUME NEW s \in Sweeps, Sweep(s)
      PROVE  Inv'
  <2>1. UNCHANGED <<mt5, desk, session, bridge, late, again>>
    BY <1>3 DEF Sweep, SweepCount, SweepPositions, SweepFills, SweepCreate, crew
  <2>2. SpentNat' /\ spent'.unheard = spent.unheard
    BY <1>0, <1>3 DEF SpentNat, Sweep, SweepCount, SweepPositions, SweepFills, SweepCreate
  <2>3. UNCHANGED status \/ \E volume : Insert(volume)
    BY <1>3 DEF Sweep, SweepCount, SweepPositions, SweepFills, SweepCreate, hedgeRows
  <2> QED
    BY <2>1, <2>2, <2>3, AwayFromTheRows, InsertStep
<1>4. ASSUME NEW l \in Sessions, Pass(l)
      PROVE  Inv'
  BY <1>4, PollReadsStep, TurnsStep, ReportStep, SendStep, CloseStep DEF Pass
<1>5. CASE UNCHANGED vars
  <2>1. UNCHANGED <<status, mt5, desk, session, bridge, late, again>> /\ spent' = spent
    BY <1>5 DEF vars, mt5
  <2> QED
    BY <1>0, <2>1, AwayFromTheRows DEF SpentNat
<1>6. ASSUME NEW l \in Sessions, ReportFails(l) \/ \E h \in Covers : SendUnconfirmed(l, h)
      PROVE  Inv'
  BY <1>6, ReportFailsStep, SendStep
<1>7. CASE Reconnect \/ BridgeCrash \/ \E h \in Covers : \E report \in Reports : ReportLate(h, report)
  BY <1>7, TurnsStep, BridgeCrashStep, ReportLateStep
<1> QED
  BY <1>1, <1>2, <1>3, <1>4, <1>5, <1>6, <1>7 DEF Next

\* Every variable keeps its type: a cover of the sweep is no larger than the rule's greatest clip,
\* and another has a volume that the desk asked for; what a sweep adds up is a number
\* (autoHedgeSymbol, manualHedge).
THEOREM TypeCorrect == Spec => []TypeOK
<1>1. Inv /\ Volumes => TypeOK
  <2> SUFFICES ASSUME Inv, Volumes PROVE TypeOK
    OBVIOUS
  <2>1. lots \in [Covers -> (-MaxClip .. MaxClip) \cup DeskVolumes \cup {-volume : volume \in DeskVolumes}]
    <3>1. Clips \cup DeskLots = (-MaxClip .. MaxClip) \cup DeskVolumes \cup {-volume : volume \in DeskVolumes}
      BY DEF Clips, DeskLots
    <3> QED
      BY <3>1 DEF Volumes, LotsType
  <2> QED
    BY <2>1 DEF Inv, RowsType, BridgeType, Passes, Volumes, SweepType, SpentType, TypeOK
<1> QED
  BY <1>1, InitInv, StepInv, VolumesInit, VolumesStep, PTL DEF Spec

\* A cover is executed once, and once more only for each time a loop of the bridge left it PENDING or
\* listed it while the loop of an earlier session had it before it (dealer_send in hedge_loop,
\* against the list that pendingHedges gave it earlier; run, which starts a loop with each session).
THEOREM SendsCounted == Spec => []SentOncePerOffer
<1>1. Inv => SentOncePerOffer
  <2> SUFFICES ASSUME Inv, NEW h \in Covers PROVE sent[h] <= 1 + again[h]
    BY DEF SentOncePerOffer
  <2> DEFINE waiting == Cardinality(Waiting(h))
  <2>1. waiting \in Nat
    <3>1. Waiting(h) \in SUBSET Sessions
      BY DEF Waiting
    <3> QED
      BY <3>1, SessionsFinite, CardMoves
  <2>2. sent[h] \in Nat /\ again[h] \in Nat /\ ToCome(h) \in {0, 1}
    BY DEF Inv, RowsType, ToCome
  <2>3. sent[h] + waiting + ToCome(h) <= 1 + again[h]
    BY DEF Inv, Counted, CountOK
  <2> HIDE DEF waiting
  <2> QED
    BY <2>1, <2>2, <2>3
<1> QED
  BY <1>1, InitInv, StepInv, PTL DEF Spec

\* However reports are lost, delayed and repeated, however many loops run, and whatever the desk
\* writes in between, a row that reads FILLED was executed on MT5 and one that reads CLOSED was closed
\* there (fillHedge, closedHedge, closeHedge).
THEOREM FillsAreReal == Spec => []FilledIsReal
<1>1. Inv => FilledIsReal
  BY DEF Inv
<1> QED
  BY <1>1, InitInv, StepInv, PTL DEF Spec

\* As long as every report was heard, no position is open on MT5 that the rows do not show, apart
\* from one that a loop is reporting and from a cover that a second loop took up: overlapping sweeps,
\* closes of the desk and new sessions do not change that.
THEOREM PositionsAreBooked == Spec => []NoUnbookedPosition
<1>1. Inv => NoUnbookedPosition
  BY DEF Inv
<1> QED
  BY <1>1, InitInv, StepInv, PTL DEF Spec
=============================================================================
