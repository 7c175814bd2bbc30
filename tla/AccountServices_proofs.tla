----------------------- MODULE AccountServices_proofs -----------------------
(***************************************************************************)
(* Proofs about the services of one account: the halt of an account that   *)
(* used its risk budget up, the bars that fire once, orders sized to fit,  *)
(* the phones and quotas of a plan, the ledger of withdrawals and the      *)
(* checkout of a signup; for any requests, reports, plans, instruments     *)
(* and interleavings.                                                      *)
(***************************************************************************)
EXTENDS AccountServices, SumFacts, FiniteSetTheorems, TLAPS

(* The halt of an account that used its risk budget up.                    *)

\* A request about to write holds what its service method may write.
WritesAreTyped ==
    \A c \in Calls : call[c].at = "write" =>
        \/ call[c].op = "equity"
        \/ call[c].op = "tolerance" /\ call[c].arg \in Tolerances

\* While no write lowered the peak, it is above the equity and above all peaks that
\* requests have read, and those are above the equity read with them.
PeakIsAbove ==
    peakLost \/
    /\ row.peak >= row.equity
    /\ \A c \in Calls : call[c].at \in {"write", "halt"} =>
          /\ row.peak >= call[c].seen.peak
          /\ call[c].seen.peak >= call[c].seen.equity

\* What evaluate_halt looks at is as the request read it.
SeesTheRow(c) ==
    /\ call[c].at = "halt"
    /\ call[c].seen.equity = row.equity
    /\ call[c].seen.peak = row.peak
    /\ call[c].seen.tolerance = row.tolerance
    /\ call[c].seen.halted = row.halted

\* An account that should be halted has a request on its way that will halt it.
HaltIsComing ==
    UsedUp(row) => \/ row.halted \/ peakLost \/ unchecked
                   \/ \E c \in Calls : call[c].at = "evaluate" \/ SeesTheRow(c)

IInv == RiskTypeOK /\ WritesAreTyped /\ PeakIsAbove /\ HaltIsComing

\* UsedUp looks at three columns only.
LEMMA UsedUpColumns ==
    ASSUME NEW r, NEW q, r.equity = q.equity, r.peak = q.peak, r.tolerance = q.tolerance
    PROVE  UsedUp(r) = UsedUp(q)
  BY DEF UsedUp, Drawdown

\* No step of the requests, of sizing or of a restart touches what the other owns.
RiskStep ==
    \/ RiskNext
    \/ Restart
    \/ UNCHANGED riskVars

\* A step changes the risk row by one of its operations.
LEMMA StepsOfTheRow == [Next]_vars => RiskStep
  BY DEF Next, AutonomousNext, Post, SizeReads, CountsPairs, SizeFails, SizeAndPublish,
         ReplaceSides, RiskStep, vars, riskVars

\* The invariant holds at the start.
LEMMA InitIInv == Init => IInv
  <1> SUFFICES ASSUME Init PROVE IInv
    OBVIOUS
  <1>1. row \in Rows /\ row.peak >= row.equity /\ (UsedUp(row) => row.halted)
    BY RiskBudgetAssumption DEF Init, RiskInit
  <1>2. FreshRow \in Rows
    BY RiskBudgetAssumption DEF FreshRow, Rows
  <1>3. \A c \in Calls : call[c] = IdleCall
    BY DEF Init, RiskInit
  <1>4. RiskTypeOK
    BY <1>1, <1>2 DEF Init, RiskInit, RiskTypeOK, IdleCall
  <1>5. WritesAreTyped /\ PeakIsAbove
    BY <1>1, <1>3 DEF WritesAreTyped, PeakIsAbove, IdleCall
  <1>6. HaltIsComing
    BY <1>1 DEF HaltIsComing
  <1> QED BY <1>4, <1>5, <1>6 DEF IInv

-----------------------------------------------------------------------------
(* What the two writing transactions do to the row. *)

\* The first transaction of set_equity and set_risk_tolerance_pct.
New(c) ==
    CASE call[c].op = "equity" -> WithEquity(call[c].seen, call[c].arg)
      [] call[c].op = "tolerance" -> [call[c].seen EXCEPT !.tolerance = call[c].arg]

\* The row that a call writes.
LEMMA NewTyped ==
    ASSUME IInv, NEW c \in Calls, call[c].at = "write"
    PROVE  /\ New(c) \in Rows
           /\ New(c).peak >= call[c].seen.peak
           /\ New(c).equity # call[c].seen.equity => New(c).peak >= New(c).equity
           /\ New(c).peak # call[c].seen.peak => New(c).peak >= New(c).equity
  <1> DEFINE seen == call[c].seen
  <1>1. seen \in Rows /\ call[c].arg \in Nat
    BY DEF IInv, RiskTypeOK
  <1>2. CASE call[c].op = "equity"
    <2> DEFINE e == call[c].arg
    <2>1. New(c) \in { [seen EXCEPT !.equity = e, !.peak = Raised(@, e)],
                       [[seen EXCEPT !.equity = e, !.peak = Raised(@, e)] EXCEPT !.halted = FALSE] }
      BY <1>2 DEF New, WithEquity
    <2>2. Raised(seen.peak, e) \in Nat /\ Raised(seen.peak, e) >= seen.peak
          /\ Raised(seen.peak, e) >= e
      BY <1>1 DEF Raised, Rows
    <2> QED BY <1>1, <2>1, <2>2 DEF Rows
  <1>3. CASE call[c].op = "tolerance" /\ call[c].arg \in Tolerances
    <2>1. New(c) = [seen EXCEPT !.tolerance = call[c].arg]
      BY <1>3 DEF New
    <2> QED BY <1>1, <1>3, <2>1 DEF Rows
  <1> QED BY <1>2, <1>3 DEF IInv, WritesAreTyped

\* The row that an update leaves.
LEMMA UpdatedTyped ==
    ASSUME row \in Rows, NEW seen \in Rows, NEW new \in Rows
    PROVE  Updated(seen, new) \in Rows
  BY DEF Updated, Changed, Rows

\* The row that an evaluation leaves.
LEMMA EvaluatedTyped ==
    ASSUME NEW r \in Rows
    PROVE  /\ Evaluated(r) \in Rows
           /\ Evaluated(r).equity = r.equity /\ Evaluated(r).tolerance = r.tolerance
           /\ Evaluated(r).open = r.open
           /\ Evaluated(r).peak = Raised(r.peak, r.equity)
           /\ r.peak >= r.equity => /\ Evaluated(r).peak = r.peak
                                    /\ Evaluated(r).halted = (r.halted \/ UsedUp(r))
  <1> DEFINE new == [r EXCEPT !.peak = Raised(@, r.equity)]
  <1>1. Raised(r.peak, r.equity) \in Nat /\ (r.peak >= r.equity => Raised(r.peak, r.equity) = r.peak)
    BY DEF Raised, Rows
  <1>2. new \in Rows /\ new.equity = r.equity /\ new.tolerance = r.tolerance /\ new.open = r.open
        /\ new.halted = r.halted /\ new.peak = Raised(r.peak, r.equity)
    BY <1>1 DEF Rows
  <1>3. UsedUp(new) \in BOOLEAN
    BY DEF UsedUp
  <1>4. Evaluated(r) = [new EXCEPT !.halted = @ \/ UsedUp(new)]
    BY DEF Evaluated
  <1>5. /\ Evaluated(r).equity = new.equity /\ Evaluated(r).tolerance = new.tolerance
        /\ Evaluated(r).open = new.open /\ Evaluated(r).peak = new.peak
        /\ Evaluated(r).halted = (new.halted \/ UsedUp(new))
        /\ Evaluated(r) \in Rows
    BY <1>2, <1>3, <1>4 DEF Rows
  <1>6. r.peak >= r.equity => UsedUp(new) = UsedUp(r)
    BY <1>1, <1>2, UsedUpColumns
  <1> QED BY <1>1, <1>2, <1>5, <1>6

-----------------------------------------------------------------------------
(* Each step keeps the invariant. *)

\* A request reads the row.
LEMMA ReadKeeps ==
    ASSUME IInv, NEW c \in Calls, NEW op, NEW arg, Read(c, op, arg),
           \/ op = "equity" /\ arg \in Equities
           \/ op = "tolerance" /\ arg \in Tolerances
    PROVE  IInv'
  <1> USE DEF IInv, Read
  <1>1. op \in {"equity", "tolerance"} /\ arg \in Nat
    BY RiskBudgetAssumption
  <1>2. RiskTypeOK'
    BY <1>1 DEF RiskTypeOK
  <1>3. /\ call'[c] = [at |-> "write", op |-> op, arg |-> arg, seen |-> row]
        /\ \A d \in Calls : d # c => call'[d] = call[d]
    BY DEF RiskTypeOK
  <1>4. WritesAreTyped'
    BY <1>3 DEF WritesAreTyped
  <1>5. PeakIsAbove'
    BY <1>3 DEF PeakIsAbove, RiskTypeOK, Rows
  <1>6. UsedUp(row)' = UsedUp(row)
    OBVIOUS
  <1>7. \A d \in Calls : call[d].at = "evaluate" \/ SeesTheRow(d) => d # c
    BY DEF SeesTheRow
  <1>8. HaltIsComing'
    BY <1>3, <1>6, <1>7 DEF HaltIsComing, SeesTheRow
  <1> QED BY <1>2, <1>4, <1>5, <1>8

\* A request writes the row, and asks for an evaluation.
LEMMA WriteKeeps ==
    ASSUME IInv, NEW c \in Calls, Write(c) PROVE IInv'
  <1> DEFINE seen == call[c].seen
  <1>1. /\ call[c].at = "write" /\ row' = Updated(seen, New(c))
        /\ call' = [call EXCEPT ![c] = [@ EXCEPT !.at = "evaluate", !.seen = FreshRow]]
        /\ peakLost' = (peakLost \/ row'.peak < row.peak)
        /\ unchecked' = unchecked /\ scene' = scene
    BY DEF Write, New, AfterWrite, NotesLoss
  <1>2. row \in Rows /\ seen \in Rows /\ FreshRow \in Rows /\ RiskTypeOK
    BY RiskBudgetAssumption DEF IInv, RiskTypeOK, FreshRow, Rows
  <1>3. /\ New(c) \in Rows
        /\ New(c).peak >= seen.peak
        /\ New(c).equity # seen.equity => New(c).peak >= New(c).equity
        /\ New(c).peak # seen.peak => New(c).peak >= New(c).equity
    BY <1>1, NewTyped
  <1>4. row' \in Rows
    BY <1>1, <1>2, <1>3, UpdatedTyped
  <1>5. /\ call'[c].at = "evaluate"
        /\ \A d \in Calls : d # c => call'[d] = call[d]
    BY <1>1, <1>2 DEF RiskTypeOK
  <1>6. RiskTypeOK'
    BY <1>1, <1>2, <1>4 DEF RiskTypeOK
  <1>7. WritesAreTyped'
    BY <1>5 DEF IInv, WritesAreTyped
  <1>8. PeakIsAbove'
    <2> SUFFICES ASSUME ~peakLost' PROVE PeakIsAbove'
      BY DEF PeakIsAbove
    <2>0. row.peak \in Nat /\ row'.peak \in Nat
      BY <1>2, <1>4 DEF Rows
    <2>1. row'.peak >= row.peak /\ ~peakLost
      <3>1. ~(peakLost \/ row'.peak < row.peak)
        BY <1>1
      <3> QED BY <2>0, <3>1
    <2>2. /\ row.peak >= row.equity /\ row.peak >= seen.peak /\ seen.peak >= seen.equity
          /\ \A d \in Calls : call[d].at \in {"write", "halt"} =>
                row.peak >= call[d].seen.peak /\ call[d].seen.peak >= call[d].seen.equity
      BY <1>1, <2>1 DEF IInv, PeakIsAbove
    <2>3. row'.equity = IF New(c).equity # seen.equity THEN New(c).equity ELSE row.equity
      BY <1>1 DEF Updated, Changed
    <2>4. row'.peak = IF New(c).peak # seen.peak THEN New(c).peak ELSE row.peak
      BY <1>1 DEF Updated, Changed
    <2>5. row'.peak >= row'.equity
      <3>1. CASE New(c).equity = seen.equity
        BY <1>2, <1>4, <2>1, <2>2, <2>3, <3>1 DEF Rows
      <3>2. CASE New(c).equity # seen.equity /\ New(c).peak # seen.peak
        BY <1>2, <1>3, <1>4, <2>3, <2>4, <3>2 DEF Rows
      <3>3. CASE New(c).equity # seen.equity /\ New(c).peak = seen.peak
        BY <1>2, <1>3, <1>4, <2>2, <2>3, <2>4, <3>3 DEF Rows
      <3> QED BY <3>1, <3>2, <3>3
    <2>6. \A d \in Calls : call[d] \in [at : {"free", "write", "evaluate", "halt"},
              op : {"none", "equity", "tolerance"}, arg : Nat, seen : Rows]
      BY <1>2 DEF RiskTypeOK
    <2> QED BY <1>2, <1>4, <1>5, <2>1, <2>2, <2>5, <2>6 DEF PeakIsAbove, Rows
  <1>9. HaltIsComing'
    BY <1>5 DEF HaltIsComing
  <1> QED BY <1>6, <1>7, <1>8, <1>9 DEF IInv

\* An evaluation reads the row.
LEMMA EvaluateReadsKeeps ==
    ASSUME IInv, NEW c \in Calls, EvaluateReads(c) PROVE IInv'
  <1> USE DEF IInv, EvaluateReads
  <1>1. row \in Rows /\ RiskTypeOK /\ FreshRow \in Rows
    BY RiskBudgetAssumption DEF RiskTypeOK, FreshRow, Rows
  <1>2. /\ call'[c] = IF row.equity = 0 THEN IdleCall
                      ELSE [call[c] EXCEPT !.at = "halt", !.seen = row]
        /\ \A d \in Calls : d # c => call'[d] = call[d]
    BY DEF RiskTypeOK
  <1>3. RiskTypeOK'
    BY <1>1 DEF RiskTypeOK, IdleCall
  <1>4. row.equity # 0 => call'[c].at = "halt" /\ call'[c].seen = row
    BY <1>1, <1>2 DEF RiskTypeOK
  <1>5. row.equity = 0 => call'[c].at = "free"
    BY <1>2 DEF IdleCall
  <1>6. WritesAreTyped'
    BY <1>2, <1>4, <1>5 DEF WritesAreTyped
  <1>7. PeakIsAbove'
    BY <1>1, <1>2, <1>4, <1>5 DEF PeakIsAbove, Rows
  <1>8. HaltIsComing'
    BY <1>1, <1>4 DEF HaltIsComing, SeesTheRow, UsedUp, Rows
  <1> QED BY <1>3, <1>6, <1>7, <1>8

\* An evaluation writes what it has decided.
LEMMA EvaluateWritesKeeps ==
    ASSUME IInv, NEW c \in Calls, EvaluateWrites(c) PROVE IInv'
  <1> DEFINE seen == call[c].seen
             new  == Evaluated(seen)
  <1>1. /\ call[c].at = "halt" /\ row' = Updated(seen, new)
        /\ call' = [call EXCEPT ![c] = IdleCall]
        /\ peakLost' = (peakLost \/ row'.peak < row.peak)
        /\ unchecked' = unchecked /\ scene' = scene
    BY DEF EvaluateWrites, NotesLoss
  <1>2. row \in Rows /\ seen \in Rows /\ FreshRow \in Rows /\ RiskTypeOK
    BY RiskBudgetAssumption DEF IInv, RiskTypeOK, FreshRow, Rows
  <1>3. /\ new \in Rows
        /\ new.equity = seen.equity /\ new.tolerance = seen.tolerance /\ new.open = seen.open
        /\ seen.peak >= seen.equity => /\ new.peak = seen.peak
                                       /\ new.halted = (seen.halted \/ UsedUp(seen))
    BY <1>2, EvaluatedTyped
  <1>4. row' \in Rows
    BY <1>1, <1>2, <1>3, UpdatedTyped
  <1>5. /\ call'[c] = IdleCall
        /\ \A d \in Calls : d # c => call'[d] = call[d]
    BY <1>1, <1>2 DEF RiskTypeOK
  <1>6. RiskTypeOK'
    BY <1>1, <1>2, <1>4 DEF RiskTypeOK, IdleCall
  <1>7. WritesAreTyped'
    BY <1>5 DEF IInv, WritesAreTyped, IdleCall
  <1>8. ASSUME ~peakLost'
        PROVE  /\ ~peakLost
               /\ row'.equity = row.equity /\ row'.peak = row.peak /\ row'.tolerance = row.tolerance
               /\ row'.halted = Changed(seen.halted, seen.halted \/ UsedUp(seen), row.halted)
    <2>1. ~peakLost /\ seen.peak >= seen.equity
      BY <1>1, <1>8 DEF IInv, PeakIsAbove
    <2> QED BY <1>1, <1>3, <2>1 DEF Updated, Changed
  <1>9. PeakIsAbove'
    <2> SUFFICES ASSUME ~peakLost' PROVE PeakIsAbove'
      BY DEF PeakIsAbove
    <2> QED BY <1>5, <1>8 DEF IInv, PeakIsAbove, IdleCall
  <1>10. HaltIsComing'
    <2> SUFFICES ASSUME ~peakLost', ~unchecked', UsedUp(row'), ~row'.halted
                 PROVE  \E d \in Calls : (call[d].at = "evaluate" \/ SeesTheRow(d))'
      BY DEF HaltIsComing
    <2>1. UsedUp(row)
      BY <1>8, UsedUpColumns
    <2>2. row.halted = row'.halted
      BY <1>2, <1>8 DEF Changed, Rows
    <2>3. PICK d \in Calls : call[d].at = "evaluate" \/ SeesTheRow(d)
      BY <1>1, <1>8, <2>1, <2>2 DEF IInv, HaltIsComing
    <2>4. d # c
      <3> SUFFICES ASSUME SeesTheRow(c) PROVE FALSE
        BY <1>1, <2>3
      <3>1. UsedUp(seen)
        BY <2>1, UsedUpColumns DEF SeesTheRow
      <3>2. seen.halted = FALSE
        BY <1>2, <2>2 DEF SeesTheRow, Rows
      <3> QED BY <1>8, <3>1, <3>2 DEF Changed
    <2>5. (call[d].at = "evaluate" \/ SeesTheRow(d))'
      BY <1>5, <1>8, <2>2, <2>3, <2>4 DEF SeesTheRow
    <2> QED BY <2>5
  <1> QED BY <1>6, <1>7, <1>9, <1>10 DEF IInv

\* Requests end, one or all, without a word to the database.
LEMMA RequestsEndKeeps ==
    ASSUME IInv, NEW dead \in SUBSET Calls, row' = row, peakLost' = peakLost, scene' = scene,
           call' \in [Calls -> {IdleCall} \cup {call[c] : c \in Calls}],
           \A c \in Calls : call'[c] = IF c \in dead THEN IdleCall ELSE call[c],
           unchecked' = (unchecked \/ \E c \in dead : Unevaluated(c))
    PROVE  IInv'
  <1>1. FreshRow \in Rows
    BY RiskBudgetAssumption DEF FreshRow, Rows
  <1>2. RiskTypeOK'
    BY <1>1 DEF IInv, RiskTypeOK, IdleCall
  <1>3. WritesAreTyped' /\ PeakIsAbove'
    BY DEF IInv, WritesAreTyped, PeakIsAbove, IdleCall
  <1>4. HaltIsComing'
    BY DEF IInv, HaltIsComing, SeesTheRow, Unevaluated
  <1> QED BY <1>2, <1>3, <1>4 DEF IInv

\* Fills and closes move the open risk alone.
LEMMA OpenRiskKeeps ==
    ASSUME IInv, NEW open \in Nat, row' = [row EXCEPT !.open = open],
           UNCHANGED <<call, peakLost, unchecked, scene>>
    PROVE  IInv'
  <1>1. row \in Rows
    BY DEF IInv, RiskTypeOK
  <1>2. /\ row' \in Rows /\ row'.equity = row.equity /\ row'.peak = row.peak
        /\ row'.tolerance = row.tolerance /\ row'.halted = row.halted
    BY <1>1 DEF Rows
  <1>3. UsedUp(row') = UsedUp(row)
    BY <1>2, UsedUpColumns
  <1> QED BY <1>2, <1>3 DEF IInv, RiskTypeOK, WritesAreTyped, PeakIsAbove, HaltIsComing, SeesTheRow

\* Every step keeps it.
LEMMA NextIInv == IInv /\ [Next]_vars => IInv'
  <1> SUFFICES ASSUME IInv, RiskStep PROVE IInv'
    BY StepsOfTheRow
  <1>1. ASSUME NEW c \in Calls, NEW e \in Equities, Read(c, "equity", e) PROVE IInv'
    BY <1>1, ReadKeeps
  <1>2. ASSUME NEW c \in Calls, NEW t \in Tolerances, Read(c, "tolerance", t) PROVE IInv'
    BY <1>2, ReadKeeps
  <1>3. ASSUME NEW c \in Calls, Write(c) \/ EvaluateReads(c) \/ EvaluateWrites(c) PROVE IInv'
    BY <1>3, WriteKeeps, EvaluateReadsKeeps, EvaluateWritesKeeps
  <1>4. call = [c \in Calls |-> call[c]]
    BY DEF IInv, RiskTypeOK
  <1>5. ASSUME NEW c \in Calls, RequestFails(c) PROVE IInv'
    <2>1. /\ call' \in [Calls -> {IdleCall} \cup {call[d] : d \in Calls}]
          /\ \A d \in Calls : call'[d] = IF d \in {c} THEN IdleCall ELSE call[d]
          /\ unchecked' = (unchecked \/ \E d \in {c} : Unevaluated(d))
      BY <1>4, <1>5 DEF RequestFails
    <2> QED BY <1>5, <2>1, RequestsEndKeeps DEF RequestFails
  <1>6. CASE Restart
    <2>1. /\ call' \in [Calls -> {IdleCall} \cup {call[d] : d \in Calls}]
          /\ \A d \in Calls : call'[d] = IF d \in Calls THEN IdleCall ELSE call[d]
          /\ unchecked' = (unchecked \/ \E d \in Calls : Unevaluated(d))
      BY <1>6 DEF Restart
    <2> QED BY <1>6, <2>1, RequestsEndKeeps DEF Restart
  <1>7. ASSUME NEW d \in Fills, RecordOpenRisk(d) \/ ReleaseOpenRisk(d) PROVE IInv'
    <2>1. row.open + d \in Nat /\ Released(row.open, d) \in Nat
      BY RiskBudgetAssumption DEF IInv, RiskTypeOK, Rows, Released
    <2> QED BY <1>7, <2>1, OpenRiskKeeps DEF RecordOpenRisk, ReleaseOpenRisk
  <1>8. CASE UNCHANGED riskVars
    BY <1>8 DEF riskVars, IInv, RiskTypeOK, WritesAreTyped, PeakIsAbove, HaltIsComing, SeesTheRow,
            UsedUp, Drawdown
  <1> QED BY <1>1, <1>2, <1>3, <1>5, <1>6, <1>7, <1>8 DEF RiskStep, RiskNext

-----------------------------------------------------------------------------
(* Closed bars fire once.                                                  *)

\* Posts that are being served, and those that may still publish this bar.
Busy == { p \in Posts : post[p].at # "free" }
Serving(s, b) == { p \in Busy : post[p].symbol = s /\ post[p].bar = b }
InProgressOf(s, b) == Cardinality(Serving(s, b))

Reached(s, b) == IF lastBar[s] >= b THEN 1 ELSE 0

\* Every time a bar was let in it was the first, or followed a restart or a later bar.
BarsAreCounted ==
    \A s \in Symbols, b \in Bars :
        published[s][b] + InProgressOf(s, b) <= Reached(s, b) + starts + overtaken[s]

SignalInv ==
    /\ IInv /\ TypeOK
    /\ IsFiniteSet(Busy)
    /\ BarsAreCounted

Records == [at : {"free", "state", "pairs", "size"}, symbol : Symbols, bar : Bars \cup {0}, seen : Rows]

\* The types of the signal service.
LEMMA SignalTypes ==
    ASSUME SignalInv
    PROVE  /\ post \in [Posts -> Records] /\ row \in Rows /\ Idle \in Records
           /\ Bars \subseteq Nat \ {0}
           /\ lastBar \in [Symbols -> Bars \cup {0}]
           /\ \A s \in Symbols : lastBar[s] \in Nat
           /\ published \in [Symbols -> [Bars -> Nat]]
           /\ \A s \in Symbols, b \in Bars : published[s][b] \in Nat
           /\ overtaken \in [Symbols -> 0..MaxOvertaken] /\ MaxOvertaken \in Nat
           /\ \A s \in Symbols : overtaken[s] \in Nat
           /\ starts \in Nat /\ MaxStarts \in Nat
  <1>1. /\ Symbols # {} /\ Bars \subseteq Nat \ {0} /\ MaxStarts \in Nat /\ MaxOvertaken \in Nat
    BY AutonomousAssumption
  <1>2. FreshRow \in Rows
    BY RiskBudgetAssumption DEF FreshRow, Rows
  <1>3. (CHOOSE s \in Symbols : TRUE) \in Symbols
    BY <1>1
  <1>4. Idle \in Records
    BY <1>2, <1>3 DEF Idle, Records
  <1>5. /\ post \in [Posts -> Records] /\ row \in Rows
        /\ lastBar \in [Symbols -> Bars \cup {0}]
        /\ published \in [Symbols -> [Bars -> Nat]]
        /\ overtaken \in [Symbols -> 0..MaxOvertaken]
        /\ starts \in 0..MaxStarts
    BY DEF SignalInv, TypeOK, RiskTypeOK, Records
  <1>6. ASSUME NEW s \in Symbols PROVE lastBar[s] \in Nat /\ overtaken[s] \in Nat
    <2>1. lastBar[s] \in Bars \cup {0} /\ overtaken[s] \in 0..MaxOvertaken
      BY <1>5
    <2>2. lastBar[s] \in Bars => lastBar[s] \in Nat \ {0}
      BY <1>1
    <2>3. lastBar[s] \in Nat
      BY <2>1, <2>2
    <2>4. overtaken[s] \in Nat
      BY <1>1, <2>1
    <2> QED BY <2>3, <2>4
  <1>7. \A s \in Symbols, b \in Bars : published[s][b] \in Nat
    BY <1>5
  <1> QED BY <1>1, <1>4, <1>5, <1>6, <1>7

\* Posts in progress are finitely many.
LEMMA InProgressIsNat ==
    ASSUME IsFiniteSet(Busy), NEW s, NEW b
    PROVE  IsFiniteSet(Serving(s, b)) /\ InProgressOf(s, b) \in Nat
  <1>1. Serving(s, b) \in SUBSET Busy
    BY DEF Serving
  <1> QED BY <1>1, FS_Subset, FS_CardinalityType DEF InProgressOf

-----------------------------------------------------------------------------
\* One post less, or the same.
LEMMA PostEnds ==
    ASSUME SignalInv, NEW p \in Posts, post' = [post EXCEPT ![p] = Idle]
    PROVE  /\ post' \in [Posts -> Records] /\ IsFiniteSet(Busy')
           /\ \A s, b : InProgressOf(s, b)' \in Nat /\ InProgressOf(s, b)' <= InProgressOf(s, b)
           /\ \A s, b : p \in Serving(s, b) => InProgressOf(s, b)' = InProgressOf(s, b) - 1
  <1>1. post \in [Posts -> Records] /\ Idle \in Records /\ IsFiniteSet(Busy)
    BY SignalTypes DEF SignalInv
  <1>2. /\ \A q \in Posts : q # p => post'[q] = post[q]
        /\ post'[p].at = "free"
    BY <1>1 DEF Idle
  <1>3. Busy' = Busy \ {p}
    BY <1>2 DEF Busy
  <1>4. IsFiniteSet(Busy')
    BY <1>1, <1>3, FS_RemoveElement
  <1>5. ASSUME NEW s, NEW b
        PROVE  /\ InProgressOf(s, b)' \in Nat /\ InProgressOf(s, b)' <= InProgressOf(s, b)
               /\ p \in Serving(s, b) => InProgressOf(s, b)' = InProgressOf(s, b) - 1
    <2>1. Serving(s, b)' = Serving(s, b) \ {p}
      BY <1>2, <1>3 DEF Serving, Busy
    <2>2. IsFiniteSet(Serving(s, b)) /\ InProgressOf(s, b) \in Nat
      BY <1>1, InProgressIsNat
    <2>3. Cardinality(Serving(s, b) \ {p}) = IF p \in Serving(s, b) THEN Cardinality(Serving(s, b)) - 1
                                             ELSE Cardinality(Serving(s, b))
      BY <2>2, FS_RemoveElement
    <2>5. IsFiniteSet(Serving(s, b) \ {p}) /\ Cardinality(Serving(s, b) \ {p}) \in Nat
      BY <2>2, FS_RemoveElement, FS_CardinalityType
    <2> QED BY <2>1, <2>2, <2>3, <2>5 DEF InProgressOf
  <1> QED BY <1>1, <1>4, <1>5

\* A post is refused; the bar stays unpublished.
LEMMA RefuseKeeps ==
    ASSUME SignalInv, IInv', NEW p \in Posts, Refuse(p), published' = published,
           UNCHANGED <<lastBar, held, overtaken, starts>>
    PROVE  SignalInv'
  <1>1. /\ post' \in [Posts -> Records] /\ IsFiniteSet(Busy')
        /\ \A s, b : InProgressOf(s, b)' \in Nat /\ InProgressOf(s, b)' <= InProgressOf(s, b)
    BY PostEnds DEF Refuse
  <1>2. TypeOK'
    BY <1>1 DEF SignalInv, TypeOK, IInv, Records
  <1>3. \A s \in Symbols, b \in Bars : InProgressOf(s, b) \in Nat
    BY InProgressIsNat DEF SignalInv
  <1>4. BarsAreCounted'
    <2> SUFFICES ASSUME NEW s \in Symbols, NEW b \in Bars
                 PROVE  published[s][b] + InProgressOf(s, b)' <= Reached(s, b)' + starts + overtaken[s]
      BY DEF BarsAreCounted
    <2>1. published[s][b] + InProgressOf(s, b) <= Reached(s, b) + starts + overtaken[s]
      BY DEF SignalInv, BarsAreCounted
    <2>2. Reached(s, b)' = Reached(s, b) /\ Reached(s, b) \in Nat
      BY DEF Reached
    <2>3. /\ published[s][b] \in Nat /\ starts \in Nat /\ overtaken[s] \in Nat
          /\ InProgressOf(s, b) \in Nat /\ InProgressOf(s, b)' \in Nat
          /\ InProgressOf(s, b)' <= InProgressOf(s, b)
      BY SignalTypes, <1>1, <1>3
    <2> QED BY <2>1, <2>2, <2>3
  <1> QED BY <1>1, <1>2, <1>4 DEF SignalInv

\* A post moves on: who is busy, and with which bar, stays.
LEMMA MoveOnKeeps ==
    ASSUME SignalInv, IInv', NEW p \in Posts, NEW next \in Records,
           post[p].at # "free", next.at # "free",
           next.symbol = post[p].symbol, next.bar = post[p].bar,
           post' = [post EXCEPT ![p] = next],
           UNCHANGED <<lastBar, held, published, overtaken, starts>>
    PROVE  SignalInv'
  <1>1. post \in [Posts -> Records]
    BY SignalTypes
  <1>2. post' \in [Posts -> Records] /\ \A q \in Posts : post'[q] = IF q = p THEN next ELSE post[q]
    BY <1>1
  <1>3. Busy' = Busy
    BY <1>2 DEF Busy
  <1>4. \A s, b : Serving(s, b)' = Serving(s, b)
    BY <1>2, <1>3 DEF Serving, Busy
  <1>5. \A s, b : InProgressOf(s, b)' = InProgressOf(s, b)
    BY <1>4 DEF InProgressOf
  <1>6. BarsAreCounted'
    BY <1>5 DEF SignalInv, BarsAreCounted, Reached
  <1>7. TypeOK'
    BY <1>2 DEF SignalInv, TypeOK, IInv, Records
  <1> QED BY <1>3, <1>6, <1>7 DEF SignalInv

\* A post is sized and published.
LEMMA PublishKeeps ==
    ASSUME SignalInv, IInv', NEW p \in Posts, SizeAndPublish(p)
    PROVE  SignalInv'
  <1> DEFINE t == post[p].symbol
             a == post[p].bar
  <1>1. CASE published' = published
    BY <1>1, RefuseKeeps DEF SizeAndPublish
  <1>2. CASE published' = [published EXCEPT ![t][a] = @ + 1]
    <2>0. /\ post[p].at = "size" /\ post' = [post EXCEPT ![p] = Idle]
          /\ lastBar' = lastBar /\ held' = held /\ overtaken' = overtaken /\ starts' = starts
      BY DEF SizeAndPublish, Refuse
    <2>1. /\ post' \in [Posts -> Records] /\ IsFiniteSet(Busy')
          /\ \A s, b : InProgressOf(s, b)' \in Nat /\ InProgressOf(s, b)' <= InProgressOf(s, b)
          /\ \A s, b : p \in Serving(s, b) => InProgressOf(s, b)' = InProgressOf(s, b) - 1
      BY <2>0, PostEnds
    <2>2. /\ published \in [Symbols -> [Bars -> Nat]] /\ t \in Symbols
      BY SignalTypes DEF Records
    <2>3. /\ published' \in [Symbols -> [Bars -> Nat]]
          /\ \A s \in Symbols, b \in Bars :
                published'[s][b] = IF s = t /\ b = a THEN published[s][b] + 1 ELSE published[s][b]
      <3>1. published[t] \in [Bars -> Nat]
        BY <2>2
      <3> DEFINE new == [published[t] EXCEPT ![a] = @ + 1]
      <3>2. published' = [published EXCEPT ![t] = new]
        BY <1>2
      <3>3. new \in [Bars -> Nat] /\ \A b \in Bars : new[b] = IF b = a THEN published[t][b] + 1 ELSE published[t][b]
        <4>1. CASE a \in Bars
          <5>1. published[t][a] \in Nat
            BY <3>1, <4>1
          <5>2. published[t][a] + 1 \in Nat
            BY <5>1
          <5> QED BY <3>1, <4>1, <5>2
        <4>2. CASE a \notin Bars
          <5>1. new = published[t]
            BY <3>1, <4>2
          <5> QED BY <3>1, <4>2, <5>1
        <4> QED BY <4>1, <4>2
      <3> HIDE DEF new
      <3>4. published' \in [Symbols -> [Bars -> Nat]] /\ \A s \in Symbols : published'[s] = IF s = t THEN new ELSE published[s]
        BY <2>2, <3>2, <3>3
      <3> QED BY <3>3, <3>4
    <2>4. TypeOK'
      BY <2>0, <2>1, <2>3 DEF SignalInv, TypeOK, IInv, Records
    <2>5. BarsAreCounted'
      <3> SUFFICES ASSUME NEW s \in Symbols, NEW b \in Bars
                   PROVE  published'[s][b] + InProgressOf(s, b)' <= Reached(s, b)' + starts' + overtaken'[s]
        BY DEF BarsAreCounted
      <3>1. published[s][b] + InProgressOf(s, b) <= Reached(s, b) + starts + overtaken[s]
        BY DEF SignalInv, BarsAreCounted
      <3>2. Reached(s, b)' = Reached(s, b) /\ Reached(s, b) \in Nat
        BY <2>0 DEF Reached
      <3>3. /\ published[s][b] \in Nat /\ starts \in Nat /\ overtaken[s] \in Nat
            /\ InProgressOf(s, b) \in Nat /\ InProgressOf(s, b)' \in Nat
        BY SignalTypes, <2>1, InProgressIsNat DEF SignalInv
      <3>4. CASE s = t /\ b = a
        <4>1. p \in Serving(s, b)
          BY <2>0, <3>4 DEF Serving, Busy
        <4>2. InProgressOf(s, b)' = InProgressOf(s, b) - 1
          BY <4>1, <2>1
        <4> QED BY <2>0, <2>3, <3>1, <3>2, <3>3, <3>4, <4>2
      <3>5. CASE ~(s = t /\ b = a)
        <4>1. InProgressOf(s, b)' <= InProgressOf(s, b)
          BY <2>1
        <4>2. published'[s][b] = published[s][b]
          BY <2>3, <3>5
        <4> QED BY <2>0, <3>1, <3>2, <3>3, <4>1, <4>2
      <3> QED BY <3>4, <3>5
    <2> QED BY <2>1, <2>4, <2>5 DEF SignalInv
  <1> QED BY <1>1, <1>2 DEF SizeAndPublish

\* A post begins.
LEMMA PostKeeps ==
    ASSUME SignalInv, IInv', NEW p \in Posts, NEW t \in Symbols, NEW a \in Bars, NEW fires \in BOOLEAN,
           Post(p, t, a, fires)
    PROVE  SignalInv'
  <1>1. /\ post[p].at = "free" /\ lastBar[t] # a
        /\ lastBar' = [lastBar EXCEPT ![t] = a]
        /\ lastBar[t] > a => overtaken[t] < MaxOvertaken
        /\ overtaken' = [overtaken EXCEPT ![t] = IF lastBar[t] > a THEN @ + 1 ELSE @]
        /\ published' = published /\ starts' = starts /\ held' = held
    BY DEF Post, Marked
  <1> DEFINE admitted == [post[p] EXCEPT !.at = "state", !.symbol = t, !.bar = a]
  <1>2. post' = [post EXCEPT ![p] = admitted] \/ post' = post
    <2>1. post' = [post EXCEPT ![p] = IF fires /\ t \notin held THEN admitted ELSE post[p]]
      BY DEF Post
    <2>2. post = [post EXCEPT ![p] = post[p]]
      BY SignalTypes
    <2> QED BY <2>1, <2>2
  <1>3. /\ post \in [Posts -> Records] /\ IsFiniteSet(Busy)
        /\ lastBar \in [Symbols -> Bars \cup {0}]
        /\ overtaken \in [Symbols -> 0..MaxOvertaken] /\ MaxOvertaken \in Nat
        /\ Bars \subseteq Nat \ {0}
    BY SignalTypes DEF SignalInv
  <1>4. admitted \in Records /\ admitted.at = "state" /\ admitted.symbol = t /\ admitted.bar = a
    BY <1>3 DEF Records
  <1>5. /\ post' \in [Posts -> Records]
        /\ \A q \in Posts : q # p => post'[q] = post[q]
        /\ post'[p] = admitted \/ post' = post
    BY <1>2, <1>3, <1>4
  <1>6. lastBar' \in [Symbols -> Bars \cup {0}] /\ overtaken' \in [Symbols -> 0..MaxOvertaken]
    <2>1. (IF lastBar[t] > a THEN overtaken[t] + 1 ELSE overtaken[t]) \in 0..MaxOvertaken
      <3>1. overtaken[t] \in 0..MaxOvertaken /\ MaxOvertaken \in Nat
        BY <1>3
      <3> QED BY <1>1, <3>1
    <2> QED BY <1>1, <1>3, <2>1
  <1>7. TypeOK'
    BY <1>1, <1>5, <1>6 DEF SignalInv, TypeOK, IInv, Records
  <1>8. p \notin Busy /\ (Busy' = Busy \/ Busy' = Busy \cup {p})
    BY <1>1, <1>5 DEF Busy
  <1>9. IsFiniteSet(Busy')
    BY <1>3, <1>8, FS_AddElement
  <1>10. ASSUME NEW s \in Symbols, NEW b \in Bars
         PROVE  /\ InProgressOf(s, b)' \in Nat
                /\ InProgressOf(s, b)' <= InProgressOf(s, b) + 1
                /\ ~(s = t /\ b = a) => InProgressOf(s, b)' = InProgressOf(s, b)
    <2>0. p \notin Serving(s, b) /\ IsFiniteSet(Serving(s, b)) /\ InProgressOf(s, b) \in Nat
      BY <1>3, <1>8, InProgressIsNat DEF Serving
    <2>1. Serving(s, b)' = Serving(s, b) \/ (s = t /\ b = a /\ Serving(s, b)' = Serving(s, b) \cup {p})
      <3>1. CASE post' = post
        BY <3>1 DEF Serving, Busy
      <3>2. CASE post'[p] = admitted /\ s = t /\ b = a
        BY <1>4, <1>5, <1>8, <3>2 DEF Serving, Busy
      <3>3. CASE post'[p] = admitted /\ ~(s = t /\ b = a)
        <4>1. admitted.symbol = t /\ admitted.bar = a
          BY <1>4
        <4> HIDE DEF admitted
        <4>2. \A q \in Posts : q \in Serving(s, b)' <=> q \in Serving(s, b)
          <5> TAKE q \in Posts
          <5>1. CASE q = p
            BY <1>8, <3>3, <4>1, <5>1 DEF Serving, Busy
          <5>2. CASE q # p
            BY <1>5, <5>2 DEF Serving, Busy
          <5> QED BY <5>1, <5>2
        <4>3. Serving(s, b) \subseteq Posts /\ Serving(s, b)' \subseteq Posts
          BY DEF Serving, Busy
        <4> QED BY <4>2, <4>3
      <3> QED BY <1>5, <3>1, <3>2, <3>3
    <2>2. Cardinality(Serving(s, b) \cup {p}) = Cardinality(Serving(s, b)) + 1
      BY <2>0, FS_AddElement
    <2>3. Cardinality(Serving(s, b)) \in Nat
      BY <2>0, FS_CardinalityType
    <2>4. InProgressOf(s, b) = Cardinality(Serving(s, b)) /\ InProgressOf(s, b)' = Cardinality(Serving(s, b)')
      BY DEF InProgressOf
    <2>5. CASE Serving(s, b)' = Serving(s, b)
      BY <2>3, <2>4, <2>5
    <2>6. CASE s = t /\ b = a /\ Serving(s, b)' = Serving(s, b) \cup {p}
      BY <2>2, <2>3, <2>4, <2>6
    <2> QED BY <2>1, <2>5, <2>6
  <1>11. BarsAreCounted'
    <2> SUFFICES ASSUME NEW s \in Symbols, NEW b \in Bars
                 PROVE  published[s][b] + InProgressOf(s, b)' <= Reached(s, b)' + starts + overtaken'[s]
      BY <1>1 DEF BarsAreCounted
    <2>1. published[s][b] + InProgressOf(s, b) <= Reached(s, b) + starts + overtaken[s]
      BY DEF SignalInv, BarsAreCounted
    <2>2. /\ published[s][b] \in Nat /\ starts \in Nat /\ overtaken[s] \in Nat /\ lastBar[s] \in Nat
          /\ InProgressOf(s, b) \in Nat /\ InProgressOf(s, b)' \in Nat /\ a \in Nat /\ b \in Nat
      BY SignalTypes, <1>10, InProgressIsNat, <1>3
    <2>3. CASE s # t
      <3>1. Reached(s, b)' = Reached(s, b) /\ overtaken'[s] = overtaken[s]
        BY <1>1, <1>3, <2>3 DEF Reached
      <3> QED BY <1>10, <2>1, <2>3, <3>1
    <2>4. CASE s = t
      <3>1. lastBar'[s] = a /\ overtaken'[s] = IF lastBar[s] > a THEN overtaken[s] + 1 ELSE overtaken[s]
        BY <1>1, <1>3, <2>4
      <3>2. Reached(s, b)' = IF a >= b THEN 1 ELSE 0
        BY <3>1 DEF Reached
      <3>3. Reached(s, b) = IF lastBar[s] >= b THEN 1 ELSE 0
        BY DEF Reached
      <3>4. CASE b = a
        BY <1>1, <1>10, <2>1, <2>2, <2>4, <3>1, <3>2, <3>3, <3>4
      <3>5. CASE b # a
        BY <1>10, <2>1, <2>2, <2>4, <3>1, <3>2, <3>3, <3>5
      <3> QED BY <3>4, <3>5
    <2> QED BY <2>3, <2>4
  <1> QED BY <1>7, <1>9, <1>11 DEF SignalInv

\* The server restarts and forgets the bars it has served.
LEMMA RestartKeeps ==
    ASSUME SignalInv, IInv', Restart PROVE SignalInv'
  <1>1. /\ starts < MaxStarts /\ starts' = starts + 1
        /\ lastBar' = [s \in Symbols |-> 0] /\ held' = {} /\ post' = [q \in Posts |-> Idle]
        /\ published' = published /\ overtaken' = overtaken
    BY DEF Restart
  <1>2. Idle \in Records /\ starts \in Nat /\ MaxStarts \in Nat
    BY SignalTypes
  <1>3. TypeOK'
    BY <1>1, <1>2 DEF SignalInv, TypeOK, IInv, Records
  <1>4. Busy' = {}
    BY <1>1 DEF Busy, Idle
  <1>5. IsFiniteSet(Busy') /\ \A s, b : InProgressOf(s, b)' = 0
    BY <1>4, FS_EmptySet DEF InProgressOf, Serving
  <1>6. BarsAreCounted'
    <2> SUFFICES ASSUME NEW s \in Symbols, NEW b \in Bars
                 PROVE  published[s][b] + InProgressOf(s, b)' <= Reached(s, b)' + starts' + overtaken[s]
      BY <1>1 DEF BarsAreCounted
    <2>1. published[s][b] + InProgressOf(s, b) <= Reached(s, b) + starts + overtaken[s]
      BY DEF SignalInv, BarsAreCounted
    <2>2. Reached(s, b)' \in 0..1 /\ Reached(s, b) \in 0..1
      BY DEF Reached
    <2>3. /\ published[s][b] \in Nat /\ overtaken[s] \in Nat /\ InProgressOf(s, b) \in Nat
      BY SignalTypes, InProgressIsNat DEF SignalInv
    <2> QED BY <1>1, <1>2, <1>5, <2>1, <2>2, <2>3
  <1> QED BY <1>3, <1>5, <1>6 DEF SignalInv

\* The invariant holds at the start.
LEMMA InitSignals == Init => SignalInv
  <1> SUFFICES ASSUME Init PROVE SignalInv
    OBVIOUS
  <1>1. IInv
    BY InitIInv
  <1>2. FreshRow \in Rows
    BY RiskBudgetAssumption DEF FreshRow, Rows
  <1>3. (CHOOSE s \in Symbols : TRUE) \in Symbols /\ MaxStarts \in Nat /\ MaxOvertaken \in Nat
        /\ Bars \subseteq Nat \ {0}
    BY AutonomousAssumption
  <1>4. Idle \in Records
    BY <1>2, <1>3 DEF Idle, Records
  <1>5. TypeOK
    BY <1>1, <1>3, <1>4 DEF Init, TypeOK, IInv, Records
  <1>6. Busy = {}
    BY DEF Init, Busy, Idle
  <1>7. IsFiniteSet(Busy) /\ \A s, b : InProgressOf(s, b) = 0
    BY <1>6, FS_EmptySet DEF InProgressOf, Serving
  <1>8. BarsAreCounted
    <2> SUFFICES ASSUME NEW s \in Symbols, NEW b \in Bars
                 PROVE  published[s][b] + InProgressOf(s, b) <= Reached(s, b) + starts + overtaken[s]
      BY DEF BarsAreCounted
    <2>1. published[s][b] = 0 /\ starts = 0 /\ overtaken[s] = 0
      BY DEF Init
    <2> QED BY <1>7, <2>1 DEF Reached
  <1> QED BY <1>1, <1>5, <1>7, <1>8 DEF SignalInv

\* Every step keeps it.
LEMMA NextSignals == SignalInv /\ [Next]_vars => SignalInv'
  <1> SUFFICES ASSUME SignalInv, [Next]_vars PROVE SignalInv'
    OBVIOUS
  <1>0. IInv'
    BY NextIInv DEF SignalInv
  <1>1. ASSUME NEW p \in Posts, NEW s \in Symbols, NEW b \in Bars, NEW fires \in BOOLEAN, Post(p, s, b, fires)
        PROVE SignalInv'
    BY <1>0, <1>1, PostKeeps
  <1>2. ASSUME NEW p \in Posts, NEW at \in {"pairs", "size"}, NEW seen \in Rows, post[p].at # "free",
               post' = [post EXCEPT ![p] = [post[p] EXCEPT !.at = at, !.seen = seen]],
               UNCHANGED <<lastBar, held, published, overtaken, starts>>
        PROVE SignalInv'
    <2>1. post[p] \in Records
      BY SignalTypes
    <2>2. /\ [post[p] EXCEPT !.at = at, !.seen = seen] \in Records
          /\ [post[p] EXCEPT !.at = at, !.seen = seen].at = at
          /\ [post[p] EXCEPT !.at = at, !.seen = seen].symbol = post[p].symbol
          /\ [post[p] EXCEPT !.at = at, !.seen = seen].bar = post[p].bar
      BY <2>1 DEF Records
    <2> QED BY <1>0, <1>2, <2>2, MoveOnKeeps
  <1>3. ASSUME NEW p \in Posts, SizeReads(p) PROVE SignalInv'
    <2>1. CASE row.halted \/ row.equity = 0
      BY <1>0, <1>3, <2>1, RefuseKeeps DEF SizeReads
    <2>2. CASE ~(row.halted \/ row.equity = 0)
      <3>1. post' = [post EXCEPT ![p].at = "pairs", ![p].seen = row] /\ post \in [Posts -> Records] /\ row \in Rows
        BY <1>3, <2>2, SignalTypes DEF SizeReads
      <3>2. post' = [post EXCEPT ![p] = [post[p] EXCEPT !.at = "pairs", !.seen = row]]
        BY <3>1 DEF Records
      <3> QED BY <1>2, <1>3, <3>1, <3>2 DEF SizeReads
    <2> QED BY <2>1, <2>2
  <1>4. ASSUME NEW p \in Posts, NEW many \in BOOLEAN, CountsPairs(p, many) PROVE SignalInv'
    <2>1. CASE Refuse(p)
      BY <1>0, <1>4, <2>1, RefuseKeeps DEF CountsPairs
    <2>2. CASE post' = [post EXCEPT ![p].at = "size"]
      <3>1. post \in [Posts -> Records]
        BY SignalTypes
      <3>2. post[p].seen \in Rows /\ post' = [post EXCEPT ![p] = [post[p] EXCEPT !.at = "size", !.seen = post[p].seen]]
        BY <2>2, <3>1 DEF Records
      <3> QED BY <1>2, <1>4, <3>2 DEF CountsPairs
    <2> QED BY <1>4, <2>1, <2>2 DEF CountsPairs
  <1>5. ASSUME NEW p \in Posts, SizeFails(p) PROVE SignalInv'
    BY <1>0, <1>5, RefuseKeeps DEF SizeFails
  <1>6. ASSUME NEW p \in Posts, SizeAndPublish(p) PROVE SignalInv'
    BY <1>0, <1>6, PublishKeeps
  <1>7. CASE Restart
    BY <1>0, <1>7, RestartKeeps
  <1>8. ASSUME UNCHANGED <<lastBar, post, published, overtaken, starts>>, held' \subseteq Symbols
        PROVE SignalInv'
    <2>1. TypeOK'
      BY <1>0, <1>8 DEF SignalInv, TypeOK, IInv
    <2>2. Busy' = Busy
      BY <1>8 DEF Busy
    <2>3. \A s, b : InProgressOf(s, b)' = InProgressOf(s, b)
      BY <1>8, <2>2 DEF InProgressOf, Serving
    <2>4. BarsAreCounted'
      BY <1>8, <2>3 DEF SignalInv, BarsAreCounted, Reached
    <2> QED BY <1>0, <2>1, <2>2, <2>4 DEF SignalInv
  <1>9. held \subseteq Symbols
    BY DEF SignalInv, TypeOK
  <1>10. ASSUME NEW symbols \in SUBSET Symbols, ReplaceSides(symbols) PROVE SignalInv'
    BY <1>8, <1>10 DEF ReplaceSides
  <1>11. CASE RiskNext /\ UNCHANGED <<lastBar, held, post, published, overtaken, starts>>
    BY <1>8, <1>9, <1>11
  <1>12. CASE UNCHANGED vars
    BY <1>8, <1>9, <1>12 DEF vars
  <1> QED BY <1>1, <1>3, <1>4, <1>5, <1>6, <1>7, <1>10, <1>11, <1>12 DEF Next, AutonomousNext

\* What is promised follows.
LEMMA FiresOnce == SignalInv => BarFiresOnce
  <1> SUFFICES ASSUME SignalInv, NEW s \in Symbols, NEW b \in Bars
               PROVE  published[s][b] <= 1 + starts + overtaken[s]
    BY DEF BarFiresOnce
  <1>1. published[s][b] + InProgressOf(s, b) <= Reached(s, b) + starts + overtaken[s]
    BY DEF SignalInv, BarsAreCounted
  <1>2. /\ published[s][b] \in Nat /\ starts \in Nat /\ overtaken[s] \in Nat
        /\ InProgressOf(s, b) \in Nat
    BY SignalTypes, InProgressIsNat DEF SignalInv
  <1> QED BY <1>1, <1>2 DEF Reached

-----------------------------------------------------------------------------
(* Orders are sized to fit.                                                *)

\* Division with a rest.
LEMMA Quotient ==
    ASSUME NEW a \in Nat, NEW b \in Nat \ {0}
    PROVE  a \div b \in Nat /\ b * (a \div b) <= a /\ a < b * (a \div b) + b
  OBVIOUS

\* A quotient is below what its divisor bounds.
LEMMA QuotientAtMost ==
    ASSUME NEW a \in Nat, NEW b \in Nat \ {0}, NEW c \in Nat, a <= b * c
    PROVE  a \div b <= c
  OBVIOUS

\* A quotient is above what its divisor fits.
LEMMA QuotientAtLeast ==
    ASSUME NEW a \in Nat, NEW b \in Nat \ {0}, NEW c \in Nat, b * c <= a
    PROVE  c <= a \div b
  <1>1. a \div b \in Nat /\ a < b * (a \div b) + b
    BY Quotient
  <1>2. b * (a \div b) + b = b * (a \div b + 1)
    BY <1>1
  <1>3. b * c < b * (a \div b + 1)
    BY <1>1, <1>2
  <1>4. c < a \div b + 1
    BY <1>1, <1>3
  <1> QED BY <1>1, <1>4

\* A product grows with its factor.
LEMMA ProductGrows ==
    ASSUME NEW e \in Nat, NEW x \in Nat, NEW y \in Nat, x <= y
    PROVE  e * x \in Nat /\ e * y \in Nat /\ e * x <= e * y
  OBVIOUS

\* Division without a rest.
LEMMA ExactQuotient ==
    ASSUME NEW m \in Nat, NEW s \in Nat \ {0}, m % s = 0
    PROVE  m \div s \in Nat /\ m = s * (m \div s)
  OBVIOUS

\* A percentage of an amount grows with it.
LEMMA PctGrows ==
    ASSUME NEW e \in Nat, NEW x \in Nat, NEW y \in Nat, x <= y
    PROVE  Pct(e, x) \in Nat /\ Pct(e, y) \in Nat /\ Pct(e, x) <= Pct(e, y)
  <1>1. e * x \in Nat /\ e * y \in Nat /\ e * x <= e * y
    BY ProductGrows
  <1>2. \A a, b \in Nat : a <= b => a \div 100000 \in Nat /\ b \div 100000 \in Nat /\ a \div 100000 <= b \div 100000
    OBVIOUS
  <1> QED BY <1>1, <1>2 DEF Pct

\* A part of base is at most base.
LEMMA PartOf ==
    ASSUME NEW base \in Nat, NEW part \in Nat, NEW whole \in Nat \ {0}, part <= whole
    PROVE  (base * part) \div whole \in Nat /\ (base * part) \div whole <= base
  <1>1. base * part \in Nat /\ base * part <= base * whole
    BY ProductGrows
  <1>2. base * whole = whole * base
    OBVIOUS
  <1> QED BY <1>1, <1>2, QuotientAtMost, Quotient

\* The share by the budget's use is the base at most.
LEMMA ByUseAtMost ==
    ASSUME NEW base \in Nat, NEW used \in Nat, NEW budget \in Nat \ {0}
    PROVE  ByUse(base, used, budget) \in Nat /\ ByUse(base, used, budget) <= base
  <1>1. budget - Least(used, budget) \in Nat /\ budget - Least(used, budget) <= budget
    BY DEF Least
  <1> QED BY <1>1, PartOf DEF ByUse

\* The share by the drawdown is the base at most.
LEMMA ByDrawdownAtMost ==
    ASSUME NEW base \in Nat, NEW drop \in Nat, NEW budget \in Nat \ {0}, drop < budget
    PROVE  ByDrawdown(base, drop, budget) \in Nat /\ ByDrawdown(base, drop, budget) <= base
  <1>1. CASE 4 * drop <= budget
    BY <1>1 DEF ByDrawdown
  <1>2. CASE ~(4 * drop <= budget)
    <2>1. 4 * (budget - drop) \in Nat /\ 4 * (budget - drop) <= 3 * budget /\ 3 * budget \in Nat \ {0}
      BY <1>2
    <2>2. (base * (4 * (budget - drop))) \div (3 * budget) \in Nat
          /\ (base * (4 * (budget - drop))) \div (3 * budget) <= base
      BY <2>1, PartOf
    <2>3. base * (4 * (budget - drop)) = base * 4 * (budget - drop)
      OBVIOUS
    <2> QED BY <1>2, <2>2, <2>3 DEF ByDrawdown
  <1> QED BY <1>1, <1>2

\* The share by the width of the stop is the base at most.
LEMMA ByStopAtMost ==
    ASSUME NEW base \in Nat, NEW width \in StopWidths, width # TooWide
    PROVE  ByStop(base, width) \in Nat /\ ByStop(base, width) <= base
  <1>1. 4 - width \in Nat /\ 4 - width <= 4
    BY DEF StopWidths, TooWide
  <1> QED BY <1>1, PartOf DEF ByStop

\* What is assessed is within the cap of the platform.
LEMMA AssessedWithinPlatform ==
    ASSUME NEW equity \in Nat, NEW tolerance \in Nat, NEW open \in Nat, NEW peak \in Nat,
           NEW width \in StopWidths, Assessed(equity, tolerance, open, peak, width) > 0
    PROVE  /\ Assessed(equity, tolerance, open, peak, width) \in Nat
           /\ Assessed(equity, tolerance, open, peak, width) <= PlatformMax
  <1> DEFINE budget == Budget(equity, tolerance)
             drop   == Most(0, peak - equity)
             base   == Least(tolerance \div BaseDivisor, PlatformMax)
             use    == ByUse(base, open, budget)
             drawn  == ByDrawdown(use, drop, budget)
             stop   == ByStop(drawn, width)
             risk   == Least(stop, tolerance)
  <1>1. Assessed(equity, tolerance, open, peak, width) =
            IF budget = 0 \/ drop >= budget \/ width = TooWide \/ risk < PlatformMin THEN 0 ELSE risk
    BY DEF Assessed
  <1>2. budget # 0 /\ ~(drop >= budget) /\ width # TooWide /\ Assessed(equity, tolerance, open, peak, width) = risk
    BY <1>1
  <1>3. budget \in Nat
    BY PctGrows DEF Budget
  <1>4. drop \in Nat
    BY DEF Most
  <1>5. base \in Nat /\ base <= PlatformMax
    <2>1. tolerance \div 10 \in Nat
      BY Quotient
    <2> QED BY <2>1 DEF Least, BaseDivisor, PlatformMax
  <1> HIDE DEF budget, drop, base
  <1>6. use \in Nat /\ use <= base
    BY <1>2, <1>3, <1>5, ByUseAtMost
  <1> HIDE DEF use
  <1>7. drawn \in Nat /\ drawn <= use
    BY <1>2, <1>3, <1>4, <1>6, ByDrawdownAtMost
  <1> HIDE DEF drawn
  <1>8. stop \in Nat /\ stop <= drawn
    BY <1>2, <1>7, ByStopAtMost
  <1> HIDE DEF stop
  <1>9. risk \in Nat /\ risk <= stop
    BY <1>8 DEF Least
  <1> HIDE DEF risk
  <1>10. risk <= PlatformMax
    BY <1>5, <1>6, <1>7, <1>8, <1>9 DEF PlatformMax
  <1> QED BY <1>2, <1>9, <1>10

-----------------------------------------------------------------------------
\* An order as sizing builds it.
Orders == [budget : Nat, free : Nat, loss : Nat \ {0}, step : Nat \ {0}, min : Nat \ {0},
           max : Nat, planMax : Nat, margin : Nat]

\* A volume that is rounded down to steps fits the budget, one step more does not.
LEMMA RoundedFits ==
    ASSUME NEW o \in Orders
    PROVE  /\ RoundedDown(o) \in Nat /\ RoundedDown(o) % o.step = 0
           /\ RoundedDown(o) * o.loss <= o.budget
           /\ (RoundedDown(o) + o.step) * o.loss > o.budget
  <1>1. o.loss \in Nat \ {0} /\ o.step \in Nat \ {0} /\ o.budget \in Nat
    BY DEF Orders
  <1>2. o.loss * o.step \in Nat \ {0}
    BY <1>1
  <1> DEFINE n == o.budget \div (o.loss * o.step)
  <1>3. n \in Nat /\ (o.loss * o.step) * n <= o.budget /\ o.budget < (o.loss * o.step) * n + o.loss * o.step
    BY <1>1, <1>2, Quotient
  <1>4. RoundedDown(o) = n * o.step
    BY DEF RoundedDown
  <1> HIDE DEF n
  <1>5. n * o.step \in Nat /\ (n * o.step) % o.step = 0
    BY <1>1, <1>3
  <1>6. (n * o.step) * o.loss = (o.loss * o.step) * n
    BY <1>1, <1>3
  <1>7. (n * o.step + o.step) * o.loss = (o.loss * o.step) * n + o.loss * o.step
    BY <1>1, <1>3
  <1> QED BY <1>1, <1>2, <1>3, <1>4, <1>5, <1>6, <1>7

\* No volume on the step that fits the budget is larger than the rounded one.
LEMMA RoundedIsLargest ==
    ASSUME NEW o \in Orders, NEW u \in Nat, u % o.step = 0, u * o.loss <= o.budget
    PROVE  u <= RoundedDown(o)
  <1>1. o.loss \in Nat \ {0} /\ o.step \in Nat \ {0} /\ o.budget \in Nat
    BY DEF Orders
  <1>2. o.loss * o.step \in Nat \ {0}
    BY <1>1
  <1> DEFINE n == u \div o.step
             m == o.budget \div (o.loss * o.step)
  <1>3. n \in Nat /\ u = o.step * n
    BY <1>1, ExactQuotient
  <1>4. m \in Nat
    BY <1>1, <1>2, Quotient
  <1>5. RoundedDown(o) = m * o.step
    BY DEF RoundedDown
  <1>6. (o.loss * o.step) * n <= o.budget
    <2> HIDE DEF n
    <2>1. u * o.loss = (o.loss * o.step) * n
      BY <1>1, <1>3
    <2> QED BY <2>1
  <1>7. n <= m
    <2> HIDE DEF n
    <2> QED BY <1>1, <1>2, <1>3, <1>6, QuotientAtLeast
  <1> HIDE DEF n, m
  <1>8. o.step * n <= o.step * m
    BY <1>1, <1>3, <1>4, <1>7, ProductGrows
  <1>9. o.step * m = m * o.step
    BY <1>1, <1>4
  <1> QED BY <1>3, <1>5, <1>8, <1>9

\* The volume is the largest that fits budget, plan and instrument.
LEMMA VolumeIsLargest ==
    ASSUME NEW o \in Orders
    PROVE  /\ Volume(o) \in Nat /\ Volume(o) <= o.planMax /\ Volume(o) <= o.max
           /\ Volume(o) <= RoundedDown(o)
           /\ Volume(o) \in {RoundedDown(o), o.planMax, o.max}
  <1>1. RoundedDown(o) \in Nat /\ o.planMax \in Nat /\ o.max \in Nat
    BY RoundedFits DEF Orders
  <1> QED BY <1>1 DEF Volume, Least

\* The loss of what is sized never exceeds the budget of the order.
LEMMA RiskWithinBudget ==
    ASSUME NEW o \in Orders PROVE SizedRisk(o) \in Nat /\ SizedRisk(o) <= o.budget
  <1>1. /\ Volume(o) \in Nat /\ RoundedDown(o) \in Nat /\ Volume(o) <= RoundedDown(o)
        /\ o.loss \in Nat /\ o.budget \in Nat /\ RoundedDown(o) * o.loss <= o.budget
    BY VolumeIsLargest, RoundedFits DEF Orders
  <1>2. o.loss * Volume(o) \in Nat /\ o.loss * Volume(o) <= o.loss * RoundedDown(o)
    BY <1>1, ProductGrows
  <1>3. o.loss * RoundedDown(o) = RoundedDown(o) * o.loss
    BY <1>1
  <1> QED BY <1>1, <1>2, <1>3 DEF SizedRisk

\* An order that is allowed fits, and one step more does not.
LEMMA AllowedFits ==
    ASSUME NEW o \in Orders, Allowed(o)
    PROVE  Fits(o, Volume(o)) /\ ~Fits(o, Volume(o) + o.step) /\ Volume(o) * o.margin <= o.free
  <1> DEFINE v == Volume(o)
  <1>1. /\ o.min \in Nat /\ o.max \in Nat /\ o.planMax \in Nat /\ o.step \in Nat \ {0} /\ o.loss \in Nat
        /\ o.margin \in Nat /\ o.budget \in Nat /\ o.free \in Nat
    BY DEF Orders
  <1>2. v \in Nat /\ v <= o.planMax /\ v <= o.max /\ v \in {RoundedDown(o), o.planMax, o.max}
    BY VolumeIsLargest
  <1>3. v >= o.min /\ o.margin * v <= o.free /\ o.loss * v <= o.budget
    BY DEF Allowed, SizedRisk
  <1> HIDE DEF v
  <1>4. v * o.margin <= o.free /\ v * o.loss <= o.budget
    BY <1>1, <1>2, <1>3
  <1>5. v % o.step = 0 \/ v \in {o.planMax, o.max}
    BY <1>2, RoundedFits
  <1>6. Fits(o, v)
    BY <1>1, <1>2, <1>3, <1>4, <1>5 DEF Fits
  <1>7. ~Fits(o, v + o.step)
    <2>1. CASE v = RoundedDown(o)
      <3>1. (v + o.step) * o.loss > o.budget
        BY <2>1, RoundedFits
      <3>2. v + o.step \in Nat
        BY <1>1, <1>2
      <3>3. (v + o.step) * o.loss \in Nat
        BY <1>1, <3>2
      <3>4. ~((v + o.step) * o.loss <= o.budget)
        BY <1>1, <3>1, <3>3
      <3> QED BY <3>4 DEF Fits
    <2>2. CASE v = o.planMax
      BY <1>1, <1>2, <2>2 DEF Fits
    <2>3. CASE v = o.max
      <3>1. v + o.step \notin o.min..o.max
        BY <1>1, <1>2, <2>3
      <3> QED BY <3>1 DEF Fits
    <2> QED BY <1>2, <2>1, <2>2, <2>3
  <1> QED BY <1>4, <1>6, <1>7 DEF v

\* An order that is refused has no volume that fits.
LEMMA RefusedHasNoFit ==
    ASSUME NEW o \in Orders, ~Allowed(o)
    PROVE  \/ \A u \in o.min..o.max : u % o.step = 0 => ~Fits(o, u)
           \/ Volume(o) * o.margin > o.free
  <1> DEFINE v == Volume(o)
  <1>1. /\ o.min \in Nat \ {0} /\ o.max \in Nat /\ o.planMax \in Nat /\ o.step \in Nat \ {0}
        /\ o.loss \in Nat \ {0} /\ o.margin \in Nat /\ o.budget \in Nat /\ o.free \in Nat
    BY DEF Orders
  <1>2. v \in Nat /\ v \in {RoundedDown(o), o.planMax, o.max}
    BY VolumeIsLargest
  <1>3. SizedRisk(o) <= o.budget
    BY RiskWithinBudget
  <1>4. ~(o.budget > 0) \/ ~(v >= o.min) \/ ~(o.margin * v <= o.free)
    BY <1>3 DEF Allowed
  <1> HIDE DEF v
  <1>5. CASE ~(o.margin * v <= o.free)
    <2>1. v * o.margin > o.free
      BY <1>1, <1>2, <1>5
    <2> QED BY <2>1 DEF v
  <1>6. CASE ~(o.budget > 0) \/ ~(v >= o.min)
    <2> SUFFICES ASSUME NEW u \in o.min..o.max, u % o.step = 0, Fits(o, u) PROVE FALSE
      OBVIOUS
    <2>1. u \in Nat \ {0} /\ u >= o.min /\ u <= o.max
      BY <1>1
    <2>2. u <= o.planMax /\ u * o.loss <= o.budget
      BY DEF Fits
    <2>3. u * o.loss > 0
      BY <1>1, <2>1
    <2>4. o.budget > 0
      <3>1. u * o.loss \in Nat
        BY <1>1, <2>1
      <3> QED BY <1>1, <2>2, <2>3, <3>1
    <2>5. u <= RoundedDown(o) /\ RoundedDown(o) \in Nat
      BY <2>1, <2>2, RoundedIsLargest, RoundedFits
    <2>6. u <= v
      BY <1>1, <1>2, <2>1, <2>2, <2>5
    <2> QED BY <1>1, <1>2, <1>6, <2>1, <2>4, <2>6
  <1> QED BY <1>4, <1>5, <1>6

-----------------------------------------------------------------------------
\* The budget of a trade is a number.
LEMMA BudgetOfTrade ==
    ASSUME NEW seen \in Rows, NEW width \in Widths, RiskShare(seen, width) > 0
    PROVE  /\ TradeBudget(seen, width) \in Nat
           /\ TradeBudget(seen, width) <= Pct(seen.equity, PlatformMax)
           /\ Pct(seen.equity, PlatformMax) \in Nat
           /\ TradeBudget(seen, width) > 0 =>
                 /\ Budget(seen.equity, seen.tolerance) \in Nat
                 /\ TradeBudget(seen, width) + seen.open <= Budget(seen.equity, seen.tolerance)
  <1>1. /\ seen.equity \in Nat /\ seen.tolerance \in Nat /\ seen.open \in Nat /\ seen.peak \in Nat
    <2>1. seen.tolerance \in Tolerances /\ Tolerances \subseteq Nat \ {0}
      BY RiskBudgetAssumption DEF Rows
    <2>2. seen.tolerance \in Nat \ {0}
      BY <2>1
    <2> QED BY <2>2 DEF Rows
  <1>2. width \in StopWidths
    BY AutonomousAssumption
  <1> DEFINE risk == RiskShare(seen, width)
             share == Pct(seen.equity, risk)
             budget == Budget(seen.equity, seen.tolerance)
  <1>3. risk \in Nat /\ risk <= PlatformMax
    BY <1>1, <1>2, AssessedWithinPlatform DEF RiskShare
  <1>4. PlatformMax \in Nat
    BY DEF PlatformMax
  <1>5. share \in Nat /\ Pct(seen.equity, PlatformMax) \in Nat /\ share <= Pct(seen.equity, PlatformMax)
    BY <1>1, <1>3, <1>4, PctGrows
  <1>6. budget \in Nat
    <2>1. seen.tolerance <= seen.tolerance
      BY <1>1
    <2>2. Pct(seen.equity, seen.tolerance) \in Nat
      BY <1>1, <2>1, PctGrows
    <2> QED BY <2>2 DEF Budget
  <1>7. Remaining(seen) = IF budget - seen.open > 0 THEN budget - seen.open ELSE 0
    BY DEF Remaining
  <1>8. TradeBudget(seen, width) = IF share < Remaining(seen) THEN share ELSE Remaining(seen)
    BY DEF TradeBudget
  <1> HIDE DEF share, budget, risk
  <1>9. Remaining(seen) \in Nat /\ (Remaining(seen) > 0 => Remaining(seen) + seen.open <= budget)
    BY <1>1, <1>6, <1>7
  <1>10. /\ TradeBudget(seen, width) \in Nat
         /\ TradeBudget(seen, width) <= share /\ TradeBudget(seen, width) <= Remaining(seen)
    BY <1>5, <1>8, <1>9
  <1>11. TradeBudget(seen, width) > 0 => TradeBudget(seen, width) + seen.open <= budget
    BY <1>1, <1>6, <1>9, <1>10
  <1>12. TradeBudget(seen, width) <= Pct(seen.equity, PlatformMax)
    BY <1>5, <1>10
  <1> QED BY <1>5, <1>6, <1>10, <1>11, <1>12 DEF budget

\* A post is sized from the row it has read.
LEMMA WhatIsSizedFits ==
    ASSUME NEW p \in Posts, post[p].seen \in Rows, NEW w \in Widths, NEW i \in Instruments,
           NEW free \in Margins, RiskShare(post[p].seen, w) > 0
    PROVE  LET o == OrderOf(p, w, i, free)  seen == post[p].seen  v == Volume(o)
           IN IF Sized(p, w, i, free)
              THEN /\ Fits(o, v) /\ ~Fits(o, v + o.step)
                   /\ SizedRisk(o) + seen.open <= Budget(seen.equity, seen.tolerance)
                   /\ SizedRisk(o) <= Pct(seen.equity, PlatformMax)
                   /\ v * o.margin <= free
              ELSE \/ \A u \in o.min..o.max : u % o.step = 0 => ~Fits(o, u)
                   \/ v * o.margin > free
  <1> DEFINE o == OrderOf(p, w, i, free)
             seen == post[p].seen
             budget == Budget(seen.equity, seen.tolerance)
             cap == Pct(seen.equity, PlatformMax)
  <1>1. /\ TradeBudget(seen, w) \in Nat /\ cap \in Nat /\ TradeBudget(seen, w) <= cap
        /\ TradeBudget(seen, w) > 0 => budget \in Nat /\ TradeBudget(seen, w) + seen.open <= budget
    BY BudgetOfTrade
  <1>2. i \in [loss : Nat \ {0}, step : Nat \ {0}, min : Nat \ {0}, max : Nat, planMax : Nat, margin : Nat]
    BY AutonomousAssumption
  <1>3. free \in Nat
    BY AutonomousAssumption
  <1>4. o \in Orders /\ o.budget = TradeBudget(seen, w) /\ o.free = free
    BY <1>1, <1>2, <1>3 DEF Orders, OrderOf
  <1>5. seen.open \in Nat
    BY DEF Rows
  <1>6. Sized(p, w, i, free) <=> Allowed(o)
    BY DEF Sized
  <1> HIDE DEF o, seen, budget, cap
  <1>7. CASE Allowed(o)
    <2>1. Fits(o, Volume(o)) /\ ~Fits(o, Volume(o) + o.step) /\ Volume(o) * o.margin <= free
      BY <1>4, <1>7, AllowedFits
    <2>2. SizedRisk(o) \in Nat /\ SizedRisk(o) <= o.budget /\ o.budget > 0
      BY <1>4, <1>7, RiskWithinBudget DEF Allowed
    <2>3. SizedRisk(o) + seen.open <= budget /\ SizedRisk(o) <= cap
      BY <1>1, <1>4, <1>5, <2>2
    <2> QED BY <1>6, <1>7, <2>1, <2>3 DEF o, seen, budget, cap
  <1>8. CASE ~Allowed(o)
    <2>1. \/ \A u \in o.min..o.max : u % o.step = 0 => ~Fits(o, u)
          \/ Volume(o) * o.margin > free
      BY <1>4, <1>8, RefusedHasNoFit
    <2> QED BY <1>6, <1>8, <2>1 DEF o
  <1> QED BY <1>7, <1>8

\* So is every post.
LEMMA FitsWhatItRead ==
    ASSUME \A p \in Posts : post[p].seen \in Rows PROVE SizedToFit
  BY WhatIsSizedFits DEF SizedToFit

-----------------------------------------------------------------------------
(* The phones of a plan.                                                   *)

\* Registrations whose next step commits, what they have decided to delete, and the
\* phones that are left when those of C have deleted theirs.
Inserting == { r \in Registrations : registering[r].at = "insert" }
Doomed(C) == UNION { registering[r].doomed : r \in C }
Left(C)   == Cardinality(bound \ Doomed(C))

Overlap == IF most > 1 THEN most ELSE 1

Registration == [at : {"idle", "find", "count", "insert", "delete"},
                 phone : {{}} \cup { {p} : p \in Phones }, doomed : SUBSET Phones]

DevicesOK ==
    /\ limit \in PlanLimitsOf
    /\ IsFiniteSet(bound) /\ bound \subseteq Phones
    /\ registering \in [Registrations -> Registration]
    /\ most \in Nat
    /\ IsFiniteSet(InProgress) /\ Cardinality(InProgress) <= most

\* Whichever of the pending registrations commit next, and in whatever order, the
\* phones they leave stay within the limit.
RoomIsKept ==
    \A C \in SUBSET Inserting : Left(C) + Cardinality(C) + 1 <= limit.devices + Overlap

DeviceInv == DevicesOK /\ RoomIsKept

\* Counting: what remains of a set.
LEMMA Rest ==
    ASSUME NEW B, IsFiniteSet(B), NEW D
    PROVE  IsFiniteSet(B \ D) /\ Cardinality(B \ D) \in Nat /\ Cardinality(B \ D) <= Cardinality(B)
  <1>1. B \ D \in SUBSET B
    OBVIOUS
  <1> QED BY <1>1, FS_Subset, FS_CardinalityType

\* A plan allows one phone at least.
LEMMA LimitsType ==
    ASSUME DevicesOK
    PROVE  /\ limit.devices \in Nat /\ limit.devices >= 1
           /\ Overlap \in Nat /\ Overlap >= 1 /\ most <= Overlap
  <1>1. limit.devices \in DeviceLimits
    BY DEF DevicesOK, PlanLimitsOf
  <1>2. limit.devices \in Nat \ {0}
    BY <1>1, PlanLimitsAssumption
  <1>3. most \in Nat
    BY DEF DevicesOK
  <1>4. Overlap \in Nat /\ Overlap >= 1 /\ most <= Overlap
    BY <1>3 DEF Overlap
  <1> QED BY <1>2, <1>4

\* Pending registrations are in progress, so no set of them is larger than most.
LEMMA PendingCounted ==
    ASSUME DevicesOK, NEW C \in SUBSET InProgress
    PROVE  IsFiniteSet(C) /\ Cardinality(C) \in Nat /\ Cardinality(C) <= most
  <1>1. IsFiniteSet(C) /\ Cardinality(C) <= Cardinality(InProgress)
    BY FS_Subset DEF DevicesOK
  <1>2. Cardinality(C) \in Nat /\ Cardinality(InProgress) \in Nat
    BY <1>1, FS_CardinalityType DEF DevicesOK
  <1>3. Cardinality(InProgress) <= most /\ most \in Nat
    BY DEF DevicesOK
  <1> QED BY <1>1, <1>2, <1>3

\* The invariant holds at the start.
LEMMA InitDevices == LimitsInit => DeviceInv
  <1> SUFFICES ASSUME LimitsInit PROVE DeviceInv
    OBVIOUS
  <1>1. InProgress = {} /\ Inserting = {}
    BY DEF InProgress, Inserting, LimitsInit, RegistersNothing
  <1>2. DevicesOK
    BY <1>1, FS_EmptySet DEF DevicesOK, LimitsInit, RegistersNothing, NoPhone, Registration
  <1>3. ASSUME NEW C \in SUBSET Inserting PROVE Left(C) + Cardinality(C) + 1 <= limit.devices + Overlap
    <2>1. C = {} /\ bound \ Doomed(C) = {}
      BY <1>1 DEF LimitsInit
    <2>2. Left(C) = 0 /\ Cardinality(C) = 0
      BY <2>1, FS_EmptySet DEF Left
    <2> QED BY <1>2, <2>2, LimitsType
  <1> QED BY <1>2, <1>3 DEF DeviceInv, RoomIsKept

\* A registration that starts is one more in progress.
LEMMA AfterStart ==
    ASSUME DevicesOK, NEW r \in Registrations, NEW next \in Registration, next.at # "idle",
           Starts(r, next.at, next.phone, next.doomed)
    PROVE  /\ DevicesOK' /\ limit.devices' = limit.devices /\ Overlap <= Overlap'
           /\ registering' = [registering EXCEPT ![r] = next] /\ bound' = bound
  <1>1. registering[r].at = "idle" /\ registering' = [registering EXCEPT ![r] = next]
    BY DEF Starts, Registration
  <1>2. registering' \in [Registrations -> Registration]
    BY <1>1 DEF DevicesOK
  <1>3. InProgress' = InProgress \cup {r} /\ r \notin InProgress
    BY <1>1, <1>2 DEF InProgress, DevicesOK
  <1>4. IsFiniteSet(InProgress) /\ Cardinality(InProgress) \in Nat
    BY FS_CardinalityType DEF DevicesOK
  <1>5. IsFiniteSet(InProgress') /\ Cardinality(InProgress') = Cardinality(InProgress) + 1
    BY <1>3, <1>4, FS_AddElement
  <1>6. most' = IF Cardinality(InProgress) + 1 > most THEN Cardinality(InProgress) + 1 ELSE most
    BY DEF Starts
  <1>7. most' \in Nat /\ most <= most' /\ Cardinality(InProgress') <= most'
    BY <1>4, <1>5, <1>6 DEF DevicesOK
  <1>8. Overlap <= Overlap'
    BY <1>7 DEF Overlap, DevicesOK
  <1>9. UNCHANGED <<limit, bound>>
    BY DEF Starts
  <1> QED BY <1>1, <1>2, <1>5, <1>7, <1>8, <1>9 DEF DevicesOK

\* A registration that goes on is still the only one that moves.
LEMMA AfterMove ==
    ASSUME DevicesOK, NEW r \in Registrations, NEW next \in Registration,
           registering[r].at # "idle", Moves(r, next)
    PROVE  /\ DevicesOK' /\ limit.devices' = limit.devices /\ Overlap <= Overlap'
           /\ registering' = [registering EXCEPT ![r] = next] /\ bound' = bound
  <1>1. registering' = [registering EXCEPT ![r] = next] /\ UNCHANGED <<limit, bound, most>>
    BY DEF Moves
  <1>2. registering' \in [Registrations -> Registration]
    BY <1>1 DEF DevicesOK
  <1>3. InProgress' \in SUBSET InProgress
    BY <1>1 DEF InProgress, DevicesOK
  <1>4. IsFiniteSet(InProgress') /\ Cardinality(InProgress') <= most
    BY <1>3, PendingCounted
  <1>5. Overlap' = Overlap
    BY <1>1 DEF Overlap
  <1> QED BY <1>1, <1>2, <1>4, <1>5, LimitsType DEF DevicesOK

\* When one registration moved and no phone was bound, only the sets that contain it
\* are to be looked at.
LEMMA OthersKeepRoom ==
    ASSUME DeviceInv, DevicesOK', NEW r \in Registrations, NEW next,
           registering' = [registering EXCEPT ![r] = next], bound' = bound,
           limit.devices' = limit.devices, Overlap <= Overlap',
           ASSUME NEW C \in SUBSET Inserting', r \in C
           PROVE  Left(C)' + Cardinality(C) + 1 <= limit.devices + Overlap'
    PROVE  DeviceInv'
  <1>1. ASSUME NEW C \in SUBSET Inserting'
        PROVE  Left(C)' + Cardinality(C) + 1 <= limit.devices' + Overlap'
    <2>1. CASE r \in C
      BY <2>1
    <2>2. CASE r \notin C
      <3>1. C \in SUBSET Inserting /\ Doomed(C)' = Doomed(C)
        BY <2>2 DEF Inserting, Doomed, DeviceInv, DevicesOK
      <3>2. Left(C)' = Left(C)
        BY <3>1 DEF Left
      <3>3. Left(C) + Cardinality(C) + 1 <= limit.devices + Overlap
        BY <3>1 DEF DeviceInv, RoomIsKept
      <3>4. Left(C) \in Nat
        BY Rest DEF Left, DeviceInv, DevicesOK
      <3>5. C \in SUBSET InProgress
        BY <3>1 DEF Inserting, InProgress
      <3>6. Cardinality(C) \in Nat
        BY <3>5, PendingCounted DEF DeviceInv
      <3>7. limit.devices \in Nat /\ Overlap \in Nat /\ Overlap' \in Nat
        BY LimitsType DEF DeviceInv, DevicesOK, Overlap
      <3> QED BY <3>2, <3>3, <3>4, <3>6, <3>7
    <2> QED BY <2>1, <2>2
  <1> QED BY <1>1 DEF DeviceInv, RoomIsKept

\* A registration that goes back to an earlier place.
LEMMA NarrowsKeepRoom ==
    ASSUME DeviceInv, NEW r \in Registrations, NEW next \in Registration,
           registering[r].at # "idle", next.at # "insert", Moves(r, next)
    PROVE  DeviceInv'
  <1>1. /\ DevicesOK' /\ limit.devices' = limit.devices /\ Overlap <= Overlap'
        /\ registering' = [registering EXCEPT ![r] = next] /\ bound' = bound
    BY AfterMove DEF DeviceInv
  <1>2. r \notin Inserting'
    BY <1>1 DEF Inserting, DeviceInv, DevicesOK
  <1> QED BY <1>1, <1>2, OthersKeepRoom

\* Nothing is left for a registration that deletes whatever was bound.
LEMMA DoomsAllKeepsRoom ==
    ASSUME DeviceInv, DevicesOK', NEW r \in Registrations, NEW next, next.doomed = bound,
           registering' = [registering EXCEPT ![r] = next], bound' = bound,
           limit.devices' = limit.devices, Overlap <= Overlap'
    PROVE  DeviceInv'
  <1>1. ASSUME NEW C \in SUBSET Inserting', r \in C
        PROVE  Left(C)' + Cardinality(C) + 1 <= limit.devices + Overlap'
    <2>1. bound' \ Doomed(C)' = {}
      BY <1>1 DEF Doomed, DeviceInv, DevicesOK
    <2>2. Left(C)' = 0
      BY <2>1, FS_EmptySet DEF Left
    <2>3. C \in SUBSET InProgress'
      BY DEF Inserting, InProgress
    <2>4. IsFiniteSet(InProgress') /\ Cardinality(InProgress') <= most' /\ most' \in Nat
      BY DEF DevicesOK
    <2>5. Cardinality(C) \in Nat /\ Cardinality(C) <= Cardinality(InProgress') /\ Cardinality(InProgress') \in Nat
      BY <2>3, <2>4, FS_Subset, FS_CardinalityType
    <2>6. Overlap' \in Nat /\ most' <= Overlap'
      BY <2>4 DEF Overlap
    <2> QED BY <2>2, <2>4, <2>5, <2>6, LimitsType DEF DeviceInv
  <1> QED BY <1>1, OthersKeepRoom

\* A registration begins.
LEMMA RegisterKeepsRoom ==
    ASSUME DeviceInv, NEW r \in Registrations, NEW p \in Phones, Register(r, p) PROVE DeviceInv'
  <1> DEFINE next == [at |-> "find", phone |-> {p}, doomed |-> {}]
  <1>1. next \in Registration /\ next.at # "idle" /\ next.at # "insert"
    BY DEF Registration
  <1>2. Starts(r, next.at, next.phone, next.doomed)
    BY DEF Register
  <1> HIDE DEF next
  <1>3. /\ DevicesOK' /\ limit.devices' = limit.devices /\ Overlap <= Overlap'
        /\ registering' = [registering EXCEPT ![r] = next] /\ bound' = bound
    BY <1>1, <1>2, AfterStart DEF DeviceInv
  <1>4. r \notin Inserting'
    BY <1>1, <1>3 DEF Inserting, DeviceInv, DevicesOK
  <1> QED BY <1>3, <1>4, OthersKeepRoom

\* A clearing begins.
LEMMA ClearKeepsRoom ==
    ASSUME DeviceInv, NEW r \in Registrations, Clear(r) PROVE DeviceInv'
  <1> DEFINE next == [at |-> "insert", phone |-> {}, doomed |-> bound]
  <1>1. next \in Registration /\ next.at # "idle" /\ next.doomed = bound
    BY DEF Registration, DeviceInv, DevicesOK
  <1>2. Starts(r, next.at, next.phone, next.doomed)
    BY DEF Clear, NoPhone
  <1> HIDE DEF next
  <1>3. /\ DevicesOK' /\ limit.devices' = limit.devices /\ Overlap <= Overlap'
        /\ registering' = [registering EXCEPT ![r] = next] /\ bound' = bound
    BY <1>1, <1>2, AfterStart DEF DeviceInv
  <1> QED BY <1>1, <1>3, DoomsAllKeepsRoom

\* All phones are deleted.
LEMMA DeleteAllKeepsRoom ==
    ASSUME DeviceInv, NEW r \in Registrations, DeleteAll(r) PROVE DeviceInv'
  <1> DEFINE next == [registering[r] EXCEPT !.at = "insert", !.doomed = bound]
  <1>1. next \in Registration /\ next.doomed = bound
    BY DEF Registration, DeviceInv, DevicesOK
  <1>2. registering[r].at # "idle" /\ Moves(r, next)
    BY DEF DeleteAll
  <1> HIDE DEF next
  <1>3. /\ DevicesOK' /\ limit.devices' = limit.devices /\ Overlap <= Overlap'
        /\ registering' = [registering EXCEPT ![r] = next] /\ bound' = bound
    BY <1>1, <1>2, AfterMove DEF DeviceInv
  <1> QED BY <1>1, <1>3, DoomsAllKeepsRoom

\* A registration looks for its phone.
LEMMA FindKeepsRoom ==
    ASSUME DeviceInv, NEW r \in Registrations, FindPhone(r) PROVE DeviceInv'
  <1> DEFINE next == IF registering[r].phone \subseteq bound THEN RegistersNothing
                     ELSE [registering[r] EXCEPT !.at = "count"]
  <1>1. next \in Registration /\ next.at # "insert"
    BY DEF Registration, DeviceInv, DevicesOK, RegistersNothing, NoPhone
  <1>2. registering[r].at # "idle" /\ Moves(r, next)
    BY DEF FindPhone
  <1> HIDE DEF next
  <1> QED BY <1>1, <1>2, NarrowsKeepRoom

\* A registration counts the phones and finds room.
LEMMA CountKeepsRoom ==
    ASSUME DeviceInv, NEW r \in Registrations, CountPhones(r) PROVE DeviceInv'
  <1>1. CASE ~Free(Cardinality(bound))
    <2> DEFINE next == IF limit.devices = 1 THEN [registering[r] EXCEPT !.at = "delete"]
                       ELSE RegistersNothing
    <2>1. next \in Registration /\ next.at # "insert"
      BY DEF Registration, DeviceInv, DevicesOK, RegistersNothing, NoPhone
    <2>2. registering[r].at # "idle" /\ Moves(r, next)
      BY <1>1 DEF CountPhones
    <2> HIDE DEF next
    <2> QED BY <2>1, <2>2, NarrowsKeepRoom
  <1>2. CASE Free(Cardinality(bound))
    <2> DEFINE next == [registering[r] EXCEPT !.at = "insert"]
    <2>1. next \in Registration
      BY DEF Registration, DeviceInv, DevicesOK
    <2>2. registering[r].at # "idle" /\ Moves(r, next)
      BY <1>2 DEF CountPhones
    <2> HIDE DEF next
    <2>3. /\ DevicesOK' /\ limit.devices' = limit.devices /\ Overlap <= Overlap'
          /\ registering' = [registering EXCEPT ![r] = next] /\ bound' = bound
      BY <2>1, <2>2, AfterMove DEF DeviceInv
    <2>4. ASSUME NEW C \in SUBSET Inserting', r \in C
          PROVE  Left(C)' + Cardinality(C) + 1 <= limit.devices + Overlap'
      <3>1. C \in SUBSET InProgress'
        BY DEF Inserting, InProgress
      <3>2. IsFiniteSet(InProgress') /\ Cardinality(InProgress') <= most' /\ most' \in Nat
        BY <2>3 DEF DevicesOK
      <3>3. Cardinality(C) \in Nat /\ Cardinality(C) <= Cardinality(InProgress') /\ Cardinality(InProgress') \in Nat
        BY <3>1, <3>2, FS_Subset, FS_CardinalityType
      <3>4. Left(C)' \in Nat /\ Left(C)' <= Cardinality(bound)
        <4>1. Left(C)' = Cardinality(bound \ Doomed(C)')
          BY <2>3 DEF Left
        <4> QED BY <4>1, Rest DEF DeviceInv, DevicesOK
      <3>5. Cardinality(bound) < limit.devices /\ Cardinality(bound) \in Nat
        BY <1>2, FS_CardinalityType DEF Free, DeviceInv, DevicesOK
      <3>6. Overlap' \in Nat /\ most' <= Overlap'
        BY <3>2 DEF Overlap
      <3> QED BY <3>2, <3>3, <3>4, <3>5, <3>6, LimitsType DEF DeviceInv
    <2> QED BY <2>3, <2>4, OthersKeepRoom
  <1> QED BY <1>1, <1>2

\* A registration commits its phone.
LEMMA CommitKeepsRoom ==
    ASSUME DeviceInv, NEW r \in Registrations, CommitPhone(r) PROVE DeviceInv'
  <1> DEFINE phone == registering[r].phone
             kept == bound \ registering[r].doomed
  <1>1. registering[r].at = "insert" /\ registering' = [registering EXCEPT ![r] = RegistersNothing]
    BY DEF CommitPhone
  <1>2. bound' = bound \/ bound' = kept \cup phone
    BY DEF CommitPhone
  <1>3. limit' = limit /\ most' = most /\ Overlap' = Overlap
    BY DEF CommitPhone, Overlap
  <1>4. IsFiniteSet(phone) /\ Cardinality(phone) \in Nat /\ Cardinality(phone) <= 1 /\ phone \subseteq Phones
    <2>1. phone = {} \/ \E p \in Phones : phone = {p}
      BY DEF DeviceInv, DevicesOK, Registration
    <2> HIDE DEF phone
    <2>2. CASE phone = {}
      BY <2>2, FS_EmptySet
    <2>3. CASE \E p \in Phones : phone = {p}
      <3>1. PICK p \in Phones : phone = {p}
        BY <2>3
      <3>2. IsFiniteSet({p}) /\ Cardinality({p}) = 1
        BY FS_Singleton
      <3> QED BY <3>1, <3>2
    <2> QED BY <2>1, <2>2, <2>3
  <1>5. IsFiniteSet(bound') /\ bound' \subseteq Phones
    <2>1. IsFiniteSet(kept)
      BY Rest DEF DeviceInv, DevicesOK
    <2>2. IsFiniteSet(kept \cup phone)
      BY <1>4, <2>1, FS_Union
    <2> QED BY <1>2, <1>4, <2>1, <2>2 DEF DeviceInv, DevicesOK
  <1>6. InProgress' \in SUBSET InProgress
    BY <1>1 DEF InProgress, DeviceInv, DevicesOK, RegistersNothing
  <1>7. IsFiniteSet(InProgress') /\ Cardinality(InProgress') <= most
    BY <1>6, PendingCounted DEF DeviceInv
  <1>8. registering' \in [Registrations -> Registration]
    BY <1>1 DEF DeviceInv, DevicesOK, Registration, RegistersNothing, NoPhone
  <1>9. DevicesOK'
    BY <1>3, <1>5, <1>7, <1>8 DEF DeviceInv, DevicesOK
  <1>10. r \in Inserting /\ r \notin Inserting' /\ Inserting' \subseteq Inserting
    BY <1>1 DEF Inserting, DeviceInv, DevicesOK, RegistersNothing
  <1>11. ASSUME NEW C \in SUBSET Inserting'
         PROVE  Left(C)' + Cardinality(C) + 1 <= limit.devices' + Overlap'
    <2> DEFINE D == C \cup {r}
               left == bound \ Doomed(D)
    <2>1. D \in SUBSET Inserting /\ r \notin C
      BY <1>10
    <2>2. Left(D) + Cardinality(D) + 1 <= limit.devices + Overlap
      BY <2>1 DEF DeviceInv, RoomIsKept
    <2>3. C \in SUBSET InProgress
      BY <2>1 DEF Inserting, InProgress
    <2>4. IsFiniteSet(C) /\ Cardinality(C) \in Nat
      BY <2>3, PendingCounted DEF DeviceInv
    <2>5. Cardinality(D) = Cardinality(C) + 1
      BY <2>1, <2>4, FS_AddElement
    <2>6. IsFiniteSet(left) /\ Cardinality(left) \in Nat /\ Left(D) = Cardinality(left)
      BY Rest DEF DeviceInv, DevicesOK, Left
    <2>7. Doomed(C)' = Doomed(C) /\ Doomed(D) = Doomed(C) \cup registering[r].doomed
      BY <1>1, <2>1 DEF Doomed, Inserting, DeviceInv, DevicesOK
    <2>8. limit.devices \in Nat /\ Overlap \in Nat
      BY LimitsType DEF DeviceInv
    <2>9. CASE bound' = bound
      <3>1. C \in SUBSET Inserting
        BY <2>1
      <3>2. Left(C) + Cardinality(C) + 1 <= limit.devices + Overlap
        BY <3>1 DEF DeviceInv, RoomIsKept
      <3>3. Left(C)' = Left(C)
        BY <2>7, <2>9 DEF Left
      <3> QED BY <1>3, <3>2, <3>3
    <2>10. CASE bound' = kept \cup phone
      <3>1. bound' \ Doomed(C)' \in SUBSET (left \cup phone)
        BY <2>7, <2>10
      <3> HIDE DEF left, phone, D
      <3>2. /\ IsFiniteSet(left \cup phone) /\ Cardinality(left \cup phone) \in Nat
            /\ Cardinality(left \cup phone) <= Cardinality(left) + 1
        <4>1. /\ IsFiniteSet(left \cup phone)
              /\ Cardinality(left \cup phone) = Cardinality(left) + Cardinality(phone) - Cardinality(left \cap phone)
          BY <1>4, <2>6, FS_Union
        <4>2. IsFiniteSet(left \cap phone)
          BY <1>4, <2>6, FS_Intersection
        <4>3. Cardinality(left \cap phone) \in Nat /\ Cardinality(left \cup phone) \in Nat
          BY <4>1, <4>2, FS_CardinalityType
        <4> QED BY <1>4, <2>6, <4>1, <4>3
      <3>3. Left(C)' \in Nat /\ Left(C)' <= Cardinality(left \cup phone)
        <4>1. Left(C)' = Cardinality(bound' \ Doomed(C)')
          BY DEF Left
        <4> QED BY <3>1, <3>2, <4>1, FS_Subset, FS_CardinalityType
      <3> QED BY <1>3, <2>2, <2>4, <2>5, <2>6, <2>8, <3>2, <3>3
    <2> QED BY <1>2, <2>9, <2>10
  <1> QED BY <1>9, <1>11 DEF DeviceInv, RoomIsKept

\* A phone is removed.
LEMMA RemoveKeepsRoom ==
    ASSUME DeviceInv, NEW p \in Phones, RemovePhone(p) PROVE DeviceInv'
  <1>1. bound' = bound \ {p} /\ UNCHANGED <<limit, registering, most>>
    BY DEF RemovePhone
  <1>2. Overlap' = Overlap /\ Inserting' = Inserting /\ InProgress' = InProgress
    BY <1>1 DEF Overlap, Inserting, InProgress
  <1>3. IsFiniteSet(bound') /\ bound' \subseteq Phones
    BY <1>1, Rest DEF DeviceInv, DevicesOK
  <1>4. DevicesOK'
    BY <1>1, <1>2, <1>3 DEF DeviceInv, DevicesOK
  <1>5. ASSUME NEW C \in SUBSET Inserting'
        PROVE  Left(C)' + Cardinality(C) + 1 <= limit.devices' + Overlap'
    <2>1. Left(C) + Cardinality(C) + 1 <= limit.devices + Overlap
      BY <1>2 DEF DeviceInv, RoomIsKept
    <2>2. IsFiniteSet(bound \ Doomed(C)) /\ Left(C) \in Nat
      BY Rest DEF DeviceInv, DevicesOK, Left
    <2>3. bound' \ Doomed(C)' = (bound \ Doomed(C)) \ {p}
      BY <1>1 DEF Doomed
    <2>4. Left(C)' = Cardinality((bound \ Doomed(C)) \ {p}) /\ Left(C) = Cardinality(bound \ Doomed(C))
      BY <2>3 DEF Left
    <2>5. Left(C)' \in Nat /\ Left(C)' <= Left(C)
      BY <2>2, <2>4, Rest
    <2>6. C \in SUBSET InProgress
      BY <1>2 DEF Inserting, InProgress
    <2>7. Cardinality(C) \in Nat
      BY <2>6, PendingCounted DEF DeviceInv
    <2>8. limit.devices \in Nat /\ Overlap \in Nat
      BY LimitsType DEF DeviceInv
    <2> QED BY <1>1, <1>2, <2>1, <2>2, <2>5, <2>7, <2>8
  <1> QED BY <1>4, <1>5 DEF DeviceInv, RoomIsKept

\* Every step keeps it.
LEMMA NextDevices == DeviceInv /\ [DeviceNext]_<<limit, deviceVars>> => DeviceInv'
  <1> SUFFICES ASSUME DeviceInv, [DeviceNext]_<<limit, deviceVars>> PROVE DeviceInv'
    OBVIOUS
  <1>1. CASE UNCHANGED <<limit, deviceVars>>
    BY <1>1 DEF deviceVars, DeviceInv, DevicesOK, RoomIsKept, InProgress, Inserting, Doomed, Left, Overlap
  <1>2. CASE DeviceNext
    BY <1>2, RegisterKeepsRoom, FindKeepsRoom, CountKeepsRoom, DeleteAllKeepsRoom, ClearKeepsRoom,
       CommitKeepsRoom, RemoveKeepsRoom DEF DeviceNext
  <1> QED BY <1>1, <1>2

\* What is promised follows.
LEMMA DevicesKept == DeviceInv => DevicesWithinLimit
  <1> SUFFICES ASSUME DeviceInv PROVE DevicesWithinLimit
    OBVIOUS
  <1>1. {} \in SUBSET Inserting /\ bound \ Doomed({}) = bound
    BY DEF Doomed
  <1>2. Left({}) + Cardinality({}) + 1 <= limit.devices + Overlap
    BY <1>1 DEF DeviceInv, RoomIsKept
  <1>3. Left({}) = Cardinality(bound) /\ Cardinality(bound) \in Nat
    BY <1>1, FS_CardinalityType DEF Left, DeviceInv, DevicesOK
  <1> QED BY <1>2, <1>3, FS_EmptySet DEF DevicesWithinLimit, Overlap

-----------------------------------------------------------------------------
(* The quotas of a plan.                                                   *)

Limited(q) == q = "trades" => limit.trades > 0

QuotasOK ==
    /\ limit \in PlanLimitsOf
    /\ count \in [Quotas -> Nat \cup {NoRow}]
    /\ granted \in [Quotas -> Nat] /\ overwritten \in [Quotas -> Int]
    /\ consuming \in [Consumers -> [at : {"idle", "write"}, quota : Quotas, seen : Nat \cup {NoRow}]]

\* The count is what was granted except for what was overwritten; neither the count nor
\* what a consumer is about to write passes the limit.
CountIsKept ==
    /\ \A q \in Quotas : Used(count[q]) + overwritten[q] = granted[q]
    /\ \A q \in Quotas : Limited(q) => Used(count[q]) <= limit[q]
    /\ \A c \in Consumers : consuming[c].at = "write" => ~Exceeds(consuming[c].quota, consuming[c].seen)

QuotaInv == QuotasOK /\ CountIsKept

\* The limit of a quota.
LEMMA LimitIsNat == ASSUME QuotasOK, NEW q \in Quotas PROVE limit[q] \in Nat
  <1>1. limit[q] \in UseLimits
    BY DEF QuotasOK, PlanLimitsOf, Quotas
  <1> QED BY <1>1, PlanLimitsAssumption

\* What was used of it.
LEMMA UsedIsNat == ASSUME NEW n \in Nat \cup {NoRow} PROVE Used(n) \in Nat
  BY DEF Used

\* The invariant holds at the start.
LEMMA InitQuotas == LimitsInit => QuotaInv
  <1> SUFFICES ASSUME LimitsInit PROVE QuotaInv
    OBVIOUS
  <1>1. QuotasOK
    BY DEF LimitsInit, QuotasOK, ConsumesNothing, Quotas
  <1>2. \A q \in Quotas : Used(count[q]) = 0 /\ granted[q] = 0 /\ overwritten[q] = 0
    BY DEF LimitsInit, Used
  <1>3. \A q \in Quotas : limit[q] >= 0
    BY <1>1, LimitIsNat
  <1>4. \A c \in Consumers : consuming[c].at = "idle"
    BY DEF LimitsInit, ConsumesNothing
  <1> QED BY <1>1, <1>2, <1>3, <1>4 DEF QuotaInv, CountIsKept

\* A consumer reads the count and finds some left.
LEMMA ConsumeKeepsCount ==
    ASSUME QuotaInv, NEW c \in Consumers, NEW q \in Quotas, Consume(c, q) PROVE QuotaInv'
  <1>1. /\ consuming' = [consuming EXCEPT ![c] = [at |-> "write", quota |-> q, seen |-> count[q]]]
        /\ UNCHANGED <<limit, count, granted, overwritten>> /\ ~Exceeds(q, count[q])
    BY DEF Consume
  <1>2. QuotasOK'
    BY <1>1 DEF QuotaInv, QuotasOK
  <1>3. ASSUME NEW d \in Consumers, consuming'[d].at = "write"
        PROVE  ~Exceeds(consuming'[d].quota, consuming'[d].seen)
    BY <1>1, <1>3 DEF QuotaInv, QuotasOK, CountIsKept
  <1> QED BY <1>1, <1>2, <1>3 DEF QuotaInv, CountIsKept, Exceeds, Limited

\* A consumer writes the count it has read and one more.
LEMMA WriteKeepsCount == ASSUME QuotaInv, NEW c \in Consumers, WriteCount(c) PROVE QuotaInv'
  <1> DEFINE q == consuming[c].quota
             seen == consuming[c].seen
  <1>1. q \in Quotas /\ seen \in Nat \cup {NoRow} /\ count[q] \in Nat \cup {NoRow} /\ ~Exceeds(q, seen)
    BY DEF WriteCount, QuotaInv, QuotasOK, CountIsKept
  <1>2. consuming[c].at = "write" /\ UNCHANGED limit
    BY DEF WriteCount
  <1>3. consuming' = [consuming EXCEPT ![c] = ConsumesNothing]
    BY DEF WriteCount
  <1>4. \/ UNCHANGED <<count, granted, overwritten>>
        \/ /\ count' = [count EXCEPT ![q] = Used(seen) + 1]
           /\ granted' = [granted EXCEPT ![q] = @ + 1]
           /\ overwritten' = [overwritten EXCEPT ![q] = @ + Used(count[q]) - Used(seen)]
    BY DEF WriteCount
  <1> HIDE DEF q, seen
  <1>5. Used(seen) \in Nat /\ Used(count[q]) \in Nat
    BY <1>1, UsedIsNat
  <1>6. QuotasOK'
    BY <1>1, <1>2, <1>3, <1>4, <1>5 DEF QuotaInv, QuotasOK, ConsumesNothing, Quotas
  <1>7. \A d \in Consumers : consuming'[d].at = "write" => consuming'[d] = consuming[d]
    BY <1>3 DEF QuotaInv, QuotasOK, ConsumesNothing
  <1>8. \A d \in Consumers : consuming'[d].at = "write" => ~Exceeds(consuming'[d].quota, consuming'[d].seen)
    BY <1>7 DEF QuotaInv, CountIsKept
  <1>9. Used(Used(seen) + 1) = Used(seen) + 1
    BY <1>5, PlanLimitsAssumption DEF Used
  <1>10. ASSUME NEW p \in Quotas
         PROVE /\ Used(count'[p]) + overwritten'[p] = granted'[p]
               /\ Limited(p) => Used(count'[p]) <= limit[p]
    <2>1. /\ Used(count[p]) + overwritten[p] = granted[p]
          /\ Limited(p) => Used(count[p]) <= limit[p]
      BY DEF QuotaInv, CountIsKept
    <2>2. CASE UNCHANGED <<count, granted, overwritten>> \/ p # q
      <3>1. count'[p] = count[p] /\ granted'[p] = granted[p] /\ overwritten'[p] = overwritten[p]
        BY <1>4, <2>2 DEF QuotaInv, QuotasOK
      <3> QED BY <2>1, <3>1
    <2>3. CASE count' = [count EXCEPT ![q] = Used(seen) + 1]
               /\ granted' = [granted EXCEPT ![q] = @ + 1]
               /\ overwritten' = [overwritten EXCEPT ![q] = @ + Used(count[q]) - Used(seen)]
               /\ p = q
      <3>1. /\ count'[p] = Used(seen) + 1 /\ granted'[p] = granted[p] + 1
            /\ overwritten'[p] = overwritten[p] + Used(count[p]) - Used(seen)
        BY <2>3 DEF QuotaInv, QuotasOK
      <3>2. granted[p] \in Nat /\ overwritten[p] \in Int /\ Used(count[p]) \in Nat
        BY <1>5, <2>3 DEF QuotaInv, QuotasOK
      <3>3. Used(count'[p]) = Used(seen) + 1
        BY <1>9, <3>1
      <3>4. limit[p] \in Nat
        BY LimitIsNat DEF QuotaInv
      <3>5. Limited(p) => Used(seen) + 1 <= limit[p]
        BY <1>1, <1>5, <2>3, <3>4 DEF Limited, Exceeds
      <3>6. Used(count'[p]) + overwritten'[p] = granted'[p]
        BY <1>5, <2>1, <3>1, <3>2, <3>3
      <3> QED BY <3>3, <3>5, <3>6
    <2> QED BY <1>4, <2>2, <2>3
  <1> QED BY <1>2, <1>6, <1>8, <1>10 DEF QuotaInv, CountIsKept, Exceeds, Limited

\* Every step keeps it.
LEMMA NextQuotas == QuotaInv /\ [QuotaNext]_<<limit, quotaVars>> => QuotaInv'
  <1> SUFFICES ASSUME QuotaInv, [QuotaNext]_<<limit, quotaVars>> PROVE QuotaInv'
    OBVIOUS
  <1>1. CASE UNCHANGED <<limit, quotaVars>>
    BY <1>1 DEF quotaVars, QuotaInv, QuotasOK, CountIsKept, Limited, Exceeds
  <1>2. CASE TokenExpires
    BY <1>2 DEF TokenExpires, QuotaInv, QuotasOK, CountIsKept, Limited, Exceeds
  <1>3. CASE \E c \in Consumers : WriteCount(c) \/ \E q \in Quotas : Consume(c, q)
    BY <1>3, WriteKeepsCount, ConsumeKeepsCount
  <1> QED BY <1>1, <1>2, <1>3 DEF QuotaNext

\* What is promised follows.
LEMMA QuotasKept == QuotaInv => QuotaIsKept
  <1> SUFFICES ASSUME QuotaInv, NEW q \in Quotas, q = "trades" => limit.trades > 0
               PROVE  granted[q] <= limit[q] + overwritten[q]
    BY DEF QuotaIsKept
  <1>1. Used(count[q]) + overwritten[q] = granted[q] /\ Used(count[q]) <= limit[q]
    BY DEF QuotaInv, CountIsKept, Limited
  <1>2. Used(count[q]) \in Nat /\ overwritten[q] \in Int /\ granted[q] \in Nat
    BY UsedIsNat DEF QuotaInv, QuotasOK
  <1> QED BY <1>1, <1>2, LimitIsNat DEF QuotaInv

-----------------------------------------------------------------------------
(* The ledger of withdrawals.                                              *)

\* The equity at the start.
LEMMA StartIsNat == ASSUME NEW start \in StartEquities PROVE start \in Nat
  <1>1. start \in Nat \ {0}
    BY WithdrawalAssumption
  <1> QED BY <1>1

\* The fields of an account.
LEMMA RowFields ==
    ASSUME NEW r \in Accounts
    PROVE  /\ r.start \in StartEquities /\ r.start \in Nat
           /\ r.equity \in Int /\ r.pnl \in Int
           /\ r.cap \in Nat /\ r.eligible \in Nat /\ r.withdrawn \in Nat
  BY StartIsNat DEF Accounts

\* A ceiling, a credit and a raise of the cap are amounts.
LEMMA CeilingIsNat == ASSUME NEW start \in StartEquities PROVE CeilingOf(start) \in Nat
  <1>1. start \in Nat
    BY StartIsNat
  <1>2. start \div 1000 \in Nat
    BY <1>1
  <1> QED BY <1>2 DEF CeilingOf

\* The account that a request loads.
LEMMA LoadedType ==
    ASSUME NEW r \in Accounts
    PROVE  /\ Loaded(r) \in Accounts /\ Loaded(r).cap = r.cap /\ Loaded(r).start = r.start
           /\ Loaded(r).pnl = r.pnl /\ Loaded(r).eligible = r.eligible
  <1>1. r.start \in Int
    BY RowFields
  <1> QED BY <1>1 DEF Loaded, Accounts

\* The account whose withdrawals are paused.
LEMMA PausedType ==
    ASSUME NEW r \in Accounts
    PROVE  /\ Paused(r) \in Accounts /\ Paused(r).cap = r.cap /\ Paused(r).start = r.start
           /\ Paused(r).pnl = r.pnl /\ Paused(r).eligible = r.eligible
  BY DEF Paused, Accounts

\* Arming sets the cap to at most its ceiling.
LEMMA ArmedType ==
    ASSUME NEW r \in Accounts
    PROVE  /\ Armed(r) \in Accounts
           /\ r.cap <= CeilingOf(r.start) => Armed(r).cap <= CeilingOf(Armed(r).start)
           /\ Armed(r).pnl = r.pnl
  <1>1. CeilingOf(r.start) \in Nat /\ ThresholdOf(r.start) \in Nat
    BY RowFields, CeilingIsNat DEF ThresholdOf
  <1>2. Lesser(ThresholdOf(r.start), CeilingOf(r.start)) \in Nat
        /\ Lesser(ThresholdOf(r.start), CeilingOf(r.start)) <= CeilingOf(r.start)
    BY <1>1 DEF Lesser
  <1> QED BY <1>2 DEF Armed, Accounts

\* So does an allocation, and it takes nothing from the eligible balance.
LEMMA AllocatedType ==
    ASSUME NEW r \in Accounts, r.equity > r.cap
    PROVE  /\ Allocated(r) \in Accounts /\ Allocated(r).cap <= CeilingOf(Allocated(r).start)
           /\ Allocated(r).pnl = r.pnl
  <1>1. CeilingOf(r.start) \in Nat
    BY CeilingIsNat DEF Accounts
  <1>2. r.equity - r.cap \in Nat /\ r.cap \in Nat /\ r.eligible \in Nat
    BY RowFields
  <1>3. ASSUME NEW eligible \in Nat, NEW cap \in Nat, cap <= CeilingOf(r.start),
               Allocated(r) = [r EXCEPT !.eligible = eligible, !.cap = cap]
        PROVE  /\ Allocated(r) \in Accounts /\ Allocated(r).cap <= CeilingOf(Allocated(r).start)
               /\ Allocated(r).pnl = r.pnl
    BY <1>3 DEF Accounts
  <1>4. CASE AtCeiling(r)
    <2>1. Allocated(r) = [r EXCEPT !.eligible = r.eligible + (r.equity - r.cap), !.cap = CeilingOf(r.start)]
      BY <1>4 DEF Allocated
    <2>2. r.eligible + (r.equity - r.cap) \in Nat
      BY <1>2
    <2>3. CeilingOf(r.start) <= CeilingOf(r.start)
      BY <1>1
    <2> QED BY <1>1, <1>3, <2>1, <2>2, <2>3
  <1>5. CASE ~AtCeiling(r)
    <2>1. Allocated(r) = [r EXCEPT
              !.eligible = r.eligible + ToEligible(r.equity - r.cap)
                         + (r.cap + ToCap(r.equity - r.cap)
                            - Lesser(r.cap + ToCap(r.equity - r.cap), CeilingOf(r.start))),
              !.cap = Lesser(r.cap + ToCap(r.equity - r.cap), CeilingOf(r.start))]
      BY <1>5 DEF Allocated
    <2>2. ToCap(r.equity - r.cap) \in Nat /\ ToEligible(r.equity - r.cap) \in Nat
      BY <1>2 DEF ToCap, ToEligible
    <2>3. /\ Lesser(r.cap + ToCap(r.equity - r.cap), CeilingOf(r.start)) \in Nat
          /\ Lesser(r.cap + ToCap(r.equity - r.cap), CeilingOf(r.start)) <= CeilingOf(r.start)
          /\ r.cap + ToCap(r.equity - r.cap)
             - Lesser(r.cap + ToCap(r.equity - r.cap), CeilingOf(r.start)) \in Nat
      BY <1>1, <1>2, <2>2 DEF Lesser
    <2>4. r.eligible + ToEligible(r.equity - r.cap)
          + (r.cap + ToCap(r.equity - r.cap)
             - Lesser(r.cap + ToCap(r.equity - r.cap), CeilingOf(r.start))) \in Nat
      BY <1>2, <2>2, <2>3
    <2> QED BY <1>3, <2>1, <2>3, <2>4
  <1> QED BY <1>4, <1>5

\* The account after a trade.
LEMMA AfterTradeType ==
    ASSUME NEW r \in Accounts, NEW pnl \in Int, NEW after \in Int
    PROVE  LET n == AfterTrade(r, pnl, after) IN
           /\ n \in Accounts /\ n.pnl = r.pnl + pnl
           /\ r.cap <= CeilingOf(r.start) => n.cap <= CeilingOf(n.start)
  <1> DEFINE s == [r EXCEPT !.pnl = @ + pnl, !.equity = after]
             t == Paused(Armed(s))
  <1>0. r.pnl + pnl \in Int
    BY RowFields
  <1>1. s \in Accounts /\ s.cap = r.cap /\ s.start = r.start /\ s.pnl = r.pnl + pnl
    BY <1>0 DEF Accounts
  <1> HIDE DEF s
  <1>2. /\ Armed(s) \in Accounts /\ Armed(s).pnl = r.pnl + pnl
        /\ r.cap <= CeilingOf(r.start) => Armed(s).cap <= CeilingOf(Armed(s).start)
    BY <1>1, ArmedType
  <1>3. /\ t \in Accounts /\ t.pnl = r.pnl + pnl
        /\ r.cap <= CeilingOf(r.start) => t.cap <= CeilingOf(t.start)
    BY <1>2, PausedType
  <1>4. AfterTrade(r, pnl, after) = IF Pays(t, pnl) THEN Allocated(t) ELSE t
    BY DEF AfterTrade, s
  <1> HIDE DEF t
  <1>5. CASE Pays(t, pnl)
    <2>1. t.equity > t.cap
      BY <1>5 DEF Pays
    <2> QED BY <1>3, <1>4, <1>5, <2>1, AllocatedType
  <1>6. CASE ~Pays(t, pnl)
    BY <1>3, <1>4, <1>6
  <1> QED BY <1>5, <1>6

\* The account after a withdrawal.
LEMMA AfterWithdrawalType ==
    ASSUME NEW r \in Accounts, NEW amount \in Nat, MayWithdraw(r, amount)
    PROVE  LET n == AfterWithdrawal(r, amount) IN
           n \in Accounts /\ n.cap = r.cap /\ n.start = r.start /\ n.pnl = r.pnl
  <1> DEFINE s == [r EXCEPT !.eligible = @ - amount, !.withdrawn = @ + amount, !.equity = @ - amount]
  <1>1. r.eligible - amount \in Nat /\ r.withdrawn + amount \in Nat /\ r.equity - amount \in Int
    BY RowFields DEF MayWithdraw
  <1>2. s \in Accounts /\ s.cap = r.cap /\ s.start = r.start /\ s.pnl = r.pnl
    BY <1>1 DEF Accounts
  <1> HIDE DEF s
  <1>3. AfterWithdrawal(r, amount) = Paused(s)
    BY DEF AfterWithdrawal, s
  <1> QED BY <1>2, <1>3, PausedType

\* The account that is set up.
LEMMA SeededType ==
    ASSUME NEW start \in StartEquities
    PROVE  LET n == Seeded(start) IN
           n \in Accounts /\ n.cap <= CeilingOf(n.start) /\ n.eligible = 0 /\ n.pnl = 0
  <1>1. start \in Int
    BY StartIsNat
  <1> QED BY <1>1, CeilingIsNat DEF Seeded, Accounts

\* The account that is set up again.
LEMMA ReseededType ==
    ASSUME NEW r \in Accounts, NEW start \in StartEquities
    PROVE  LET n == Reseeded(r, start) IN
           n \in Accounts /\ n.cap <= CeilingOf(n.start) /\ n.eligible = 0 /\ n.pnl = r.pnl
  <1>1. start \in Int
    BY StartIsNat
  <1>2. CeilingOf(start) \in Nat
    BY CeilingIsNat
  <1> DEFINE s == Seeded(start)
             n == Reseeded(r, start)
  <1>3. n = [s EXCEPT !.withdrawn = r.withdrawn, !.pnl = r.pnl]
    BY DEF Reseeded
  <1>4. s \in Accounts /\ s.cap = 0 /\ s.eligible = 0 /\ s.start = start
    BY SeededType DEF Seeded
  <1> HIDE DEF s, n
  <1>5. r.withdrawn \in Nat /\ r.pnl \in Int
    BY RowFields
  <1>6. n \in Accounts /\ n.cap = 0 /\ n.start = start /\ n.eligible = 0 /\ n.pnl = r.pnl
    BY <1>3, <1>4, <1>5 DEF Accounts
  <1> QED BY <1>2, <1>6 DEF n

-----------------------------------------------------------------------------
LedgerOK ==
    /\ account \in Accounts \cup {NoAccount}
    /\ overlapped \in BOOLEAN
    /\ request \in [Clients -> [at : {"idle", "commit"}, entry : SUBSET Entries,
                                seen : Accounts \cup {NoAccount}, new : Accounts \cup {NoAccount}]]
    /\ \A x \in Clients : request[x].at = "commit" =>
           /\ request[x].new \in Accounts /\ IsFiniteSet(request[x].entry)
           /\ request[x].seen # NoAccount => account # NoAccount
    /\ ledger \subseteq Entries /\ IsFiniteSet(ledger)
    /\ owed \in Int

\* What a request is about to commit: the first row of the account, a new baseline, the
\* profit of one trade, or a withdrawal.
Pending(q) ==
    /\ q.new \in Accounts /\ q.new.cap <= CeilingOf(q.new.start)
    /\ \/ q.seen = NoAccount /\ q.entry = {} /\ q.new.eligible = 0 /\ q.new.pnl = 0
       \/ /\ q.seen \in Accounts /\ account # NoAccount
          /\ \/ q.entry = {} /\ q.new.eligible = 0 /\ q.new.pnl = q.seen.pnl
             \/ \E t \in DOMAIN Gains : q.entry = {t} /\ q.new.pnl = q.seen.pnl + Gains[t]
             \/ \E k \in Keys : q.entry = {k} /\ q.new.pnl = q.seen.pnl

\* The row is what the ledger adds up to, and so will it be after any one commit.
RowFollowsLedger ==
    /\ account # NoAccount =>
           /\ account.eligible = owed /\ account.pnl = EarnedProfit
           /\ account.cap <= CeilingOf(account.start)
    /\ account = NoAccount => owed = 0 /\ ledger = {}
    /\ \A x \in Clients : request[x].at = "commit" => Pending(request[x])

LedgerInv == LedgerOK /\ (~overlapped => RowFollowsLedger)

\* The invariant holds at the start.
LEMMA InitLedger == WithdrawalInit => LedgerInv
  <1> SUFFICES ASSUME WithdrawalInit PROVE LedgerInv
    OBVIOUS
  <1>1. NoRequest \in [at : {"idle", "commit"}, entry : SUBSET Entries,
                      seen : Accounts \cup {NoAccount}, new : Accounts \cup {NoAccount}]
    BY DEF NoRequest
  <1>2. \A x \in Clients : request[x].at = "idle"
    BY DEF WithdrawalInit, NoRequest
  <1>3. LedgerOK
    <2>1. request \in [Clients -> [at : {"idle", "commit"}, entry : SUBSET Entries,
                       seen : Accounts \cup {NoAccount}, new : Accounts \cup {NoAccount}]]
      BY <1>1 DEF WithdrawalInit
    <2>2. account \in Accounts \cup {NoAccount}
      BY DEF WithdrawalInit
    <2>3. overlapped \in BOOLEAN
      BY DEF WithdrawalInit
    <2>4. ledger = {} /\ owed = 0
      BY DEF WithdrawalInit
    <2> QED BY <1>2, <2>1, <2>2, <2>3, <2>4, FS_EmptySet DEF LedgerOK
  <1> QED BY <1>2, <1>3 DEF WithdrawalInit, LedgerInv, RowFollowsLedger

\* The request that reads the row may commit what it is about to commit.
LEMMA ReadsKeepLedger ==
    ASSUME LedgerInv, NEW x \in Clients, NEW entry \in SUBSET Entries, IsFiniteSet(entry),
           NEW new \in Accounts, Reads(x, entry, new),
           ~overlapped => Pending([at |-> "commit", entry |-> entry, seen |-> account, new |-> new])
    PROVE  LedgerInv'
  <1> DEFINE q == [at |-> "commit", entry |-> entry, seen |-> account, new |-> new]
  <1>1. request' = [request EXCEPT ![x] = q] /\ UNCHANGED <<account, ledger, owed, overlapped>>
    BY DEF Reads
  <1>2. LedgerOK'
    BY <1>1 DEF LedgerInv, LedgerOK
  <1>3. ASSUME ~overlapped, NEW y \in Clients, request'[y].at = "commit" PROVE Pending(request'[y])
    <2>1. CASE y = x
      BY <1>1, <1>3, <2>1 DEF LedgerInv, LedgerOK
    <2>2. CASE y # x
      BY <1>1, <1>3, <2>2 DEF LedgerInv, LedgerOK, RowFollowsLedger
    <2> QED BY <2>1, <2>2
  <1> HIDE DEF q
  <1>4. ASSUME NEW p PROVE Pending(p)' <=> Pending(p)
    BY <1>1 DEF Pending
  <1>5. EarnedProfit' = EarnedProfit
    BY <1>1 DEF EarnedProfit
  <1> QED BY <1>1, <1>2, <1>3, <1>4, <1>5 DEF LedgerInv, RowFollowsLedger, Pending

\* An account is set up.
LEMMA ConfigureKeepsLedger ==
    ASSUME LedgerInv, NEW x \in Clients, NEW start \in StartEquities, Configure(x, start) PROVE LedgerInv'
  <1> DEFINE new == IF account = NoAccount THEN Seeded(start) ELSE Reseeded(account, start)
             q == [at |-> "commit", entry |-> {}, seen |-> account, new |-> new]
  <1>1. Reads(x, {}, new)
    BY DEF Configure
  <1>2. CASE account = NoAccount
    <2>1. new \in Accounts /\ new.cap <= CeilingOf(new.start) /\ new.eligible = 0 /\ new.pnl = 0
      BY <1>2, SeededType
    <2> HIDE DEF new
    <2>2. Pending(q)
      BY <1>2, <2>1 DEF Pending
    <2> HIDE DEF q
    <2> QED BY <1>1, <2>1, <2>2, ReadsKeepLedger, FS_EmptySet DEF q
  <1>3. CASE account # NoAccount
    <2>0. account \in Accounts
      BY <1>3 DEF LedgerInv, LedgerOK
    <2>1. new \in Accounts /\ new.cap <= CeilingOf(new.start) /\ new.eligible = 0 /\ new.pnl = account.pnl
      BY <1>3, <2>0, ReseededType
    <2> HIDE DEF new
    <2>2. Pending(q)
      BY <1>3, <2>0, <2>1 DEF Pending
    <2> HIDE DEF q
    <2> QED BY <1>1, <2>1, <2>2, ReadsKeepLedger, FS_EmptySet DEF q
  <1> QED BY <1>2, <1>3

\* A trade is realized.
LEMMA TradeKeepsLedger ==
    ASSUME LedgerInv, NEW x \in Clients, NEW t \in DOMAIN Gains, NEW reports \in BOOLEAN,
           RealizedTrade(x, t, reports)
    PROVE  LedgerInv'
  <1> DEFINE r == Loaded(account)
  <1>1. account \in Accounts
    BY DEF RealizedTrade, LedgerInv, LedgerOK
  <1>2. r \in Accounts /\ r.cap = account.cap /\ r.start = account.start /\ r.pnl = account.pnl
    BY <1>1, LoadedType
  <1>3. Gains[t] \in Int /\ t \in Entries
    BY WithdrawalAssumption DEF Entries
  <1>4. PICK after \in (IF reports THEN {account.start} ELSE {r.equity + Gains[t]}) :
            Reads(x, {t}, AfterTrade(r, Gains[t], after))
    BY DEF RealizedTrade
  <1> HIDE DEF r
  <1>5. after \in Int
    BY <1>1, <1>2, <1>3, <1>4, RowFields
  <1> DEFINE new == AfterTrade(r, Gains[t], after)
             q == [at |-> "commit", entry |-> {t}, seen |-> account, new |-> new]
  <1>6. new \in Accounts
    BY <1>2, <1>3, <1>5, AfterTradeType
  <1>7. ASSUME ~overlapped PROVE Pending(q)
    <2>1. account.cap <= CeilingOf(account.start)
      BY <1>1, <1>7, WithdrawalAssumption DEF LedgerInv, RowFollowsLedger
    <2>2. new.cap <= CeilingOf(new.start) /\ new.pnl = account.pnl + Gains[t]
      BY <1>2, <1>3, <1>5, <2>1, AfterTradeType
    <2> HIDE DEF new
    <2> QED BY <1>1, <1>6, <2>2, WithdrawalAssumption DEF Pending
  <1> HIDE DEF new
  <1> QED BY <1>3, <1>4, <1>6, <1>7, ReadsKeepLedger, FS_Singleton DEF new

\* A withdrawal is requested; one with a known key adds nothing.
LEMMA WithdrawalKeepsLedger ==
    ASSUME LedgerInv, NEW x \in Clients, NEW k \in Keys, NEW part \in Shares,
           RequestWithdrawal(x, k, part)
    PROVE  LedgerInv'
  <1> DEFINE r == Loaded(account)
             amount == r.eligible \div part
             new == AfterWithdrawal(r, amount)
             q == [at |-> "commit", entry |-> {k}, seen |-> account, new |-> new]
  <1>1. account \in Accounts
    BY DEF RequestWithdrawal, LedgerInv, LedgerOK
  <1>2. r \in Accounts /\ r.cap = account.cap /\ r.start = account.start /\ r.pnl = account.pnl
    BY <1>1, LoadedType
  <1>3. part \in Nat \ {0} /\ k \in Entries
    BY WithdrawalAssumption DEF Entries
  <1>4. MayWithdraw(r, amount) /\ Reads(x, {k}, new)
    BY DEF RequestWithdrawal
  <1>5. amount \in Nat
    <2>1. r.eligible \in Nat
      BY <1>2, RowFields
    <2> HIDE DEF r
    <2> QED BY <1>3, <2>1
  <1> HIDE DEF r, amount
  <1>6. new \in Accounts /\ new.cap = r.cap /\ new.start = r.start /\ new.pnl = r.pnl
    BY <1>2, <1>4, <1>5, AfterWithdrawalType
  <1> HIDE DEF new
  <1>7. ASSUME ~overlapped PROVE Pending(q)
    <2>1. account.cap <= CeilingOf(account.start)
      BY <1>1, <1>7, WithdrawalAssumption DEF LedgerInv, RowFollowsLedger
    <2> QED BY <1>1, <1>2, <1>6, <2>1, WithdrawalAssumption DEF Pending
  <1> QED BY <1>3, <1>4, <1>6, <1>7, ReadsKeepLedger, FS_Singleton

\* The profit of a trade that was not recorded is added once.
LEMMA ProfitGrows ==
    ASSUME LedgerOK, NEW t \in DOMAIN Gains, t \notin ledger, ledger' = ledger \cup {t}
    PROVE  EarnedProfit' = EarnedProfit + Gains[t] /\ EarnedProfit \in Int
  <1> DEFINE D == ledger \cap DOMAIN Gains
             N == D \cup {t}
  <1>1. IsFiniteSet(D)
    BY FS_Intersection DEF LedgerOK
  <1>2. IsFiniteSet(N) /\ (ledger \cup {t}) \cap DOMAIN Gains = N /\ N \ {t} = D /\ t \in N
    BY <1>1, FS_AddElement
  <1>3. \A u \in DOMAIN Gains : Gains[u] \in Int
    BY WithdrawalAssumption
  <1>4. SumFunctionOnSet(Gains, N) = Gains[t] + SumFunctionOnSet(Gains, N \ {t})
    BY <1>2, <1>3, SumRemove
  <1>5. SumFunctionOnSet(Gains, D) \in Int
    BY <1>1, <1>3, SumIsInt
  <1>6. EarnedProfit = SumFunctionOnSet(Gains, D) /\ EarnedProfit' = SumFunctionOnSet(Gains, N)
    BY <1>2 DEF EarnedProfit
  <1>7. Gains[t] \in Int
    BY <1>3
  <1>8. SumFunctionOnSet(Gains, N) = Gains[t] + SumFunctionOnSet(Gains, D)
    BY <1>2, <1>4
  <1> HIDE DEF D, N
  <1>9. EarnedProfit' = Gains[t] + EarnedProfit /\ EarnedProfit \in Int
    BY <1>5, <1>6, <1>8
  <1> QED BY <1>7, <1>9

\* A request rolls back.
LEMMA RollBackKeepsLedger ==
    ASSUME LedgerInv, NEW x \in Clients, request' = [request EXCEPT ![x] = NoRequest],
           UNCHANGED <<account, ledger, owed, overlapped>>
    PROVE  LedgerInv'
  <1>1. LedgerOK'
    BY DEF LedgerInv, LedgerOK, NoRequest
  <1>2. \A y \in Clients : request'[y].at = "commit" => request'[y] = request[y]
    BY DEF LedgerInv, LedgerOK, NoRequest
  <1>3. EarnedProfit' = EarnedProfit /\ \A p : Pending(p)' <=> Pending(p)
    BY DEF EarnedProfit, Pending
  <1> QED BY <1>1, <1>2, <1>3 DEF LedgerInv, RowFollowsLedger

\* A request commits the first row.
LEMMA InsertKeepsLedger ==
    ASSUME LedgerInv, NEW x \in Clients, request[x].at = "commit",
           request' = [request EXCEPT ![x] = NoRequest], InsertsRow(x)
    PROVE  LedgerInv'
  <1>1. CASE account # NoAccount
    BY <1>1, RollBackKeepsLedger DEF InsertsRow
  <1>2. CASE account = NoAccount
    <2> DEFINE new == request[x].new
    <2>1. account' = new /\ UNCHANGED <<ledger, owed, overlapped>> /\ request[x].seen = NoAccount
      BY <1>2 DEF InsertsRow
    <2>3. \A y \in Clients : request'[y].at = "commit" => request'[y] = request[y]
      BY DEF LedgerInv, LedgerOK, NoRequest
    <2>2. LedgerOK'
      <3>1. account' \in Accounts /\ account' # NoAccount
        BY <2>1, WithdrawalAssumption DEF LedgerInv, LedgerOK
      <3>2. request' \in [Clients -> [at : {"idle", "commit"}, entry : SUBSET Entries,
                                     seen : Accounts \cup {NoAccount}, new : Accounts \cup {NoAccount}]]
        BY DEF LedgerInv, LedgerOK, NoRequest
      <3>3. ASSUME NEW y \in Clients, request'[y].at = "commit"
            PROVE  request'[y].new \in Accounts /\ IsFiniteSet(request'[y].entry)
        BY <2>3, <3>3 DEF LedgerInv, LedgerOK
      <3> QED BY <2>1, <3>1, <3>2, <3>3 DEF LedgerInv, LedgerOK
    <2>4. ASSUME ~overlapped PROVE RowFollowsLedger'
      <3>1. Pending(request[x])
        BY <2>4 DEF LedgerInv, RowFollowsLedger
      <3>2. /\ new \in Accounts /\ new.cap <= CeilingOf(new.start)
            /\ new.eligible = 0 /\ new.pnl = 0
        BY <2>1, <3>1, WithdrawalAssumption DEF Pending
      <3>3. owed = 0 /\ ledger = {}
        BY <1>2, <2>4 DEF LedgerInv, RowFollowsLedger
      <3>4. EarnedProfit' = 0
        BY <2>1, <3>3, SumEmpty DEF EarnedProfit
      <3>5. account' # NoAccount
        BY <2>1, <3>2, WithdrawalAssumption
      <3>6. ASSUME NEW y \in Clients, request'[y].at = "commit" PROVE Pending(request[y])'
        <4>1. Pending(request[y]) /\ request'[y] = request[y]
          BY <2>3, <2>4, <3>6 DEF LedgerInv, RowFollowsLedger
        <4>2. request[y].seen = NoAccount
          BY <1>2, <4>1 DEF Pending
        <4> QED BY <4>1, <4>2, WithdrawalAssumption DEF Pending
      <3> HIDE DEF new
      <3> QED BY <2>1, <3>2, <3>3, <3>4, <3>5, <3>6 DEF RowFollowsLedger
    <2> QED BY <2>1, <2>2, <2>4 DEF LedgerInv
  <1> QED BY <1>1, <1>2

\* The columns that the request changed are all that tell its row from the one it read.
LEMMA MergedIsNew ==
    ASSUME account \in Accounts, NEW new \in Accounts PROVE Merged(account, new) = new
  BY DEF Merged, Columns, Accounts

\* The account that an update leaves.
LEMMA MergedType ==
    ASSUME account \in Accounts, NEW seen \in Accounts, NEW new \in Accounts
    PROVE  Merged(seen, new) \in Accounts
  BY DEF Merged, Columns, Accounts

\* A request commits what it changed of the row.
LEMMA UpdateKeepsLedger ==
    ASSUME LedgerInv, NEW x \in Clients, request[x].at = "commit",
           request' = [request EXCEPT ![x] = NoRequest], UpdatesRow(x)
    PROVE  LedgerInv'
  <1> DEFINE seen == request[x].seen
             new == request[x].new
             entry == request[x].entry
  <1>1. /\ seen # NoAccount /\ entry \cap ledger = {} /\ account' = Merged(seen, new)
        /\ ledger' = ledger \cup entry
        /\ owed' = IF entry = {} THEN 0 ELSE owed + new.eligible - seen.eligible
        /\ overlapped' = (overlapped \/ account # seen)
    BY DEF UpdatesRow, Recorded
  <1>2. \A y \in Clients : request'[y].at = "commit" => request'[y] = request[y]
    BY DEF LedgerInv, LedgerOK, NoRequest
  <1>5. seen \in Accounts /\ new \in Accounts /\ IsFiniteSet(entry) /\ account \in Accounts
    BY <1>1 DEF LedgerInv, LedgerOK
  <1>6. LedgerOK'
    <2>1. account' \in Accounts /\ account' # NoAccount
      BY <1>1, <1>5, MergedType, WithdrawalAssumption
    <2>2. ledger' \subseteq Entries /\ IsFiniteSet(ledger')
      BY <1>1, <1>5, FS_Union DEF LedgerInv, LedgerOK
    <2>3. owed' \in Int
      <3>1. new.eligible \in Int /\ seen.eligible \in Int
        BY <1>5, RowFields
      <3>2. owed \in Int
        BY DEF LedgerInv, LedgerOK
      <3> HIDE DEF new, seen, entry
      <3> QED BY <1>1, <3>1, <3>2
    <2>4. overlapped' \in BOOLEAN
      BY <1>1
    <2>5. NoRequest.at = "idle"
      BY DEF NoRequest
    <2>6. request' \in [Clients -> [at : {"idle", "commit"}, entry : SUBSET Entries,
                                    seen : Accounts \cup {NoAccount}, new : Accounts \cup {NoAccount}]]
      BY DEF NoRequest, LedgerInv, LedgerOK
    <2>7. ASSUME NEW y \in Clients, request'[y].at = "commit"
          PROVE  request'[y].new \in Accounts /\ IsFiniteSet(request'[y].entry)
      BY <1>2, <2>7 DEF LedgerInv, LedgerOK
    <2> QED BY <2>1, <2>2, <2>3, <2>4, <2>6, <2>7 DEF LedgerOK
  <1>3. CASE ~overlapped /\ account = seen
    <2> SUFFICES RowFollowsLedger'
      BY <1>6 DEF LedgerInv
    <2>1. Pending(request[x])
      BY <1>3 DEF LedgerInv, RowFollowsLedger
    <2>2. seen \in Accounts /\ new \in Accounts /\ new.cap <= CeilingOf(new.start)
      BY <1>1, <2>1 DEF Pending
    <2>3. account' = new
      BY <1>1, <1>3, <2>2, MergedIsNew
    <2>4. account.eligible = owed /\ account.pnl = EarnedProfit
      BY <1>1, <1>3 DEF LedgerInv, RowFollowsLedger
    <2>5. new.eligible \in Int /\ seen.eligible \in Int /\ new.pnl \in Int
      BY <2>2, RowFields
    <2>6. ASSUME owed' = new.eligible, new.pnl = EarnedProfit', EarnedProfit' \in Int PROVE RowFollowsLedger'
      <3>1. account' # NoAccount
        BY <2>2, <2>3, WithdrawalAssumption
      <3>2. ASSUME NEW y \in Clients, request'[y].at = "commit" PROVE Pending(request[y])'
        <4>1. Pending(request[y]) /\ request'[y] = request[y]
          BY <1>2, <1>3, <3>2 DEF LedgerInv, RowFollowsLedger
        <4> QED BY <3>1, <4>1 DEF Pending
      <3> HIDE DEF new
      <3> QED BY <2>2, <2>3, <2>6, <3>1, <3>2 DEF RowFollowsLedger
    <2>7. CASE entry = {} /\ new.eligible = 0 /\ new.pnl = seen.pnl
      <3>1. ledger' = ledger /\ owed' = 0
        BY <1>1, <2>7
      <3>2. EarnedProfit' = EarnedProfit
        BY <3>1 DEF EarnedProfit
      <3>3. owed' = new.eligible
        BY <2>7, <3>1
      <3>4. new.pnl = EarnedProfit'
        BY <1>3, <2>4, <2>7, <3>2
      <3>5. EarnedProfit' \in Int
        BY <2>5, <3>4
      <3> HIDE DEF new, seen
      <3> QED BY <2>6, <3>3, <3>4, <3>5
    <2>8. ASSUME NEW t \in DOMAIN Gains, entry = {t}, new.pnl = seen.pnl + Gains[t] PROVE RowFollowsLedger'
      <3>1. t \notin ledger /\ ledger' = ledger \cup {t} /\ owed' = owed + new.eligible - seen.eligible
        BY <1>1, <2>8
      <3>2. EarnedProfit' = EarnedProfit + Gains[t] /\ EarnedProfit \in Int /\ Gains[t] \in Int
        BY <3>1, ProfitGrows, WithdrawalAssumption DEF LedgerInv
      <3> HIDE DEF new, seen
      <3>3. owed' = new.eligible
        BY <1>3, <2>4, <2>5, <3>1
      <3> QED BY <1>3, <2>4, <2>6, <2>8, <3>2, <3>3
    <2>9. ASSUME NEW k \in Keys, entry = {k}, new.pnl = seen.pnl PROVE RowFollowsLedger'
      <3>1. ledger' = ledger \cup {k} /\ owed' = owed + new.eligible - seen.eligible
        BY <1>1, <2>9
      <3>2. ledger' \cap DOMAIN Gains = ledger \cap DOMAIN Gains
        BY <3>1, WithdrawalAssumption
      <3>3. EarnedProfit' = EarnedProfit
        BY <3>2 DEF EarnedProfit
      <3> HIDE DEF new, seen
      <3>4. owed' = new.eligible
        BY <1>3, <2>4, <2>5, <3>1
      <3> QED BY <1>3, <2>4, <2>5, <2>6, <2>9, <3>3, <3>4
    <2>10. \/ entry = {} /\ new.eligible = 0 /\ new.pnl = seen.pnl
           \/ \E t \in DOMAIN Gains : entry = {t} /\ new.pnl = seen.pnl + Gains[t]
           \/ \E k \in Keys : entry = {k} /\ new.pnl = seen.pnl
      BY <1>1, <2>1 DEF Pending
    <2>11. CASE \E t \in DOMAIN Gains : entry = {t} /\ new.pnl = seen.pnl + Gains[t]
      <3>1. PICK t \in DOMAIN Gains : entry = {t} /\ new.pnl = seen.pnl + Gains[t]
        BY <2>11
      <3> HIDE DEF new, seen, entry
      <3> QED BY <2>8, <3>1
    <2>12. CASE \E k \in Keys : entry = {k} /\ new.pnl = seen.pnl
      <3>1. PICK k \in Keys : entry = {k} /\ new.pnl = seen.pnl
        BY <2>12
      <3> HIDE DEF new, seen, entry
      <3> QED BY <2>9, <3>1
    <2> QED BY <2>7, <2>10, <2>11, <2>12
  <1> QED BY <1>1, <1>3, <1>6 DEF LedgerInv, LedgerOK

\* Every step keeps it.
LEMMA NextLedger == LedgerInv /\ [WithdrawalNext]_withdrawalVars => LedgerInv'
  <1> SUFFICES ASSUME LedgerInv, [WithdrawalNext]_withdrawalVars PROVE LedgerInv'
    OBVIOUS
  <1>1. CASE UNCHANGED withdrawalVars
    BY <1>1 DEF withdrawalVars, LedgerInv, LedgerOK, RowFollowsLedger, Pending, EarnedProfit
  <1>2. ASSUME NEW x \in Clients, NEW start \in StartEquities, Configure(x, start) PROVE LedgerInv'
    BY <1>2, ConfigureKeepsLedger
  <1>3. ASSUME NEW x \in Clients, NEW t \in DOMAIN Gains, NEW reports \in ReportsEquity,
               RealizedTrade(x, t, reports)
        PROVE  LedgerInv'
    BY <1>3, TradeKeepsLedger, WithdrawalAssumption
  <1>4. ASSUME NEW x \in Clients, NEW k \in Keys, NEW part \in Shares, RequestWithdrawal(x, k, part)
        PROVE  LedgerInv'
    BY <1>4, WithdrawalKeepsLedger
  <1>5. ASSUME NEW x \in Clients, CommitRequest(x) PROVE LedgerInv'
    <2>1. request[x].at = "commit" /\ request' = [request EXCEPT ![x] = NoRequest]
      BY <1>5 DEF CommitRequest
    <2>2. CASE RollsBack(x)
      BY <2>1, <2>2, RollBackKeepsLedger DEF RollsBack
    <2> QED BY <1>5, <2>1, <2>2, InsertKeepsLedger, UpdateKeepsLedger DEF CommitRequest
  <1> QED BY <1>1, <1>2, <1>3, <1>4, <1>5 DEF WithdrawalNext

\* What is promised follows.
LEMMA LedgerKept == LedgerInv => LedgerIsKept
  BY DEF LedgerInv, LedgerIsKept, RowFollowsLedger

-----------------------------------------------------------------------------
(* The checkout of a signup.                                               *)

\* A request holds the claim of the session while it may still ask the provider, or
\* is about to give the claim back.
Holds(x) ==
    \/ checkout[x].at \in {"provider", "reset"}
    \/ checkout[x].at = "save" /\ checkout[x].seen = "CREATED"

\* Somebody may still, or may once, ask the provider for the checkout of this session.
Open == \/ session = "CREATED"
        \/ session = "none" /\ attempts = 0
        \/ \E x \in Checkouts : Holds(x)

CheckoutInv ==
    /\ CheckoutTypeOK
    /\ watched # {} => session = "CREATED"
    /\ attempts = 0 => \A x \in Checkouts : checkout[x].at = "idle"
    /\ \A x \in Checkouts : Holds(x) => session # "CREATED"
    /\ \A x, y \in Checkouts : Holds(x) /\ Holds(y) => x = y
    /\ \A x \in Checkouts : checkout[x].at = "note" => ~Open
    /\ created <= 1 + lost
    /\ Open => created <= lost

\* The invariant holds at the start.
LEMMA InitCheckout == CheckoutInit => CheckoutInv
  BY CheckoutAssumption DEF CheckoutInit, CheckoutInv, CheckoutTypeOK, NoCheckout, SessionStates, Holds

\* Every step keeps it.
LEMMA NextCheckout == CheckoutInv /\ [CheckoutNext]_checkoutVars => CheckoutInv'
  <1> SUFFICES ASSUME CheckoutInv, [CheckoutNext]_checkoutVars PROVE CheckoutInv'
    OBVIOUS
  <1> USE CheckoutAssumption DEF CheckoutInv, CheckoutTypeOK, SessionStates, Holds, Open, Steps, Ends, Save
  <1>1. CASE CreateSession
    BY <1>1 DEF CreateSession
  <1>2. CASE SessionExpires
    BY <1>2 DEF SessionExpires
  <1>3. ASSUME NEW x \in Checkouts, GetSession(x) PROVE CheckoutInv'
    BY <1>3 DEF GetSession
  <1>4. ASSUME NEW x \in Checkouts, Watch(x) PROVE CheckoutInv'
    BY <1>4 DEF Watch
  <1>5. ASSUME NEW x \in Checkouts, Claim(x) PROVE CheckoutInv'
    BY <1>5 DEF Claim
  <1>6. ASSUME NEW x \in Checkouts, RedisFails(x) PROVE CheckoutInv'
    BY <1>6 DEF RedisFails
  <1>7. ASSUME NEW x \in Checkouts, ProviderAnswers(x) PROVE CheckoutInv'
    BY <1>7 DEF ProviderAnswers
  <1>8. ASSUME NEW x \in Checkouts, NEW late \in BOOLEAN, ProviderFails(x, late) PROVE CheckoutInv'
    BY <1>8 DEF ProviderFails
  <1>9. ASSUME NEW x \in Checkouts, ReadsBack(x) PROVE CheckoutInv'
    BY <1>9 DEF ReadsBack
  <1>10. ASSUME NEW x \in Checkouts, SavesBack(x) PROVE CheckoutInv'
    BY <1>10 DEF SavesBack
  <1>11. CASE UNCHANGED checkoutVars
    BY <1>11 DEF checkoutVars
  <1> QED BY <1>1, <1>2, <1>3, <1>4, <1>5, <1>6, <1>7, <1>8, <1>9, <1>10, <1>11 DEF CheckoutNext

-----------------------------------------------------------------------------
(* What holds of every behaviour of the services.                          *)

\* The services keep what they promise side by side; each is untouched by the others.
AccountInv == SignalInv /\ DeviceInv /\ QuotaInv /\ LedgerInv /\ CheckoutInv

\* The invariant holds at the start.
LEMMA InitAccount == AccountInit => AccountInv
  BY InitSignals, InitDevices, InitQuotas, InitLedger, InitCheckout DEF AccountInit, AccountInv

\* Every step keeps it.
LEMMA NextAccount == AccountInv /\ [AccountNext]_accountVars => AccountInv'
  <1> SUFFICES ASSUME AccountInv, [AccountNext]_accountVars PROVE AccountInv'
    OBVIOUS
  <1>1. [Next]_vars /\ [WithdrawalNext]_withdrawalVars /\ [CheckoutNext]_checkoutVars
    BY DEF AccountNext, accountVars
  <1>2. [DeviceNext]_<<limit, deviceVars>>
    <2>1. CASE DeviceNext
      BY <2>1
    <2>2. CASE QuotaNext
      BY <2>2 DEF QuotaNext, WriteCount, Consume, TokenExpires
    <2>3. CASE UNCHANGED limitVars
      BY <2>3 DEF limitVars
    <2> QED BY <2>1, <2>2, <2>3 DEF AccountNext, accountVars
  <1>3. [QuotaNext]_<<limit, quotaVars>>
    <2>1. CASE DeviceNext
      BY <2>1 DEF DeviceNext, Register, Starts, FindPhone, CountPhones, DeleteAll, Moves, Clear,
                  CommitPhone, RemovePhone
    <2>2. CASE QuotaNext
      BY <2>2
    <2>3. CASE UNCHANGED limitVars
      BY <2>3 DEF limitVars
    <2> QED BY <2>1, <2>2, <2>3 DEF AccountNext, accountVars
  <1> QED BY <1>1, <1>2, <1>3, NextSignals, NextDevices, NextQuotas, NextLedger, NextCheckout DEF AccountInv

\* The inductive invariant holds whatever service a behaviour follows.
THEOREM AccountInvariant == AccountSpec => []AccountInv
  BY InitAccount, NextAccount, PTL DEF AccountSpec

\* Whatever overlaps and whatever dies, an account whose drawdown uses its budget up
\* is halted once the requests are through, unless a peak was overwritten or a
\* request was lost before its evaluation.
THEOREM DrawdownIsHalted == AccountSpec => []DrawdownHalts
  <1>1. AccountInv => DrawdownHalts
    BY DEF AccountInv, SignalInv, IInv, HaltIsComing, SeesTheRow, DrawdownHalts
  <1> QED BY <1>1, AccountInvariant, PTL

\* A closed bar is published once, however many posts bring it and however they
\* overlap; again only after a restart, or when a later bar was served first.
THEOREM BarsFireOnce == AccountSpec => []BarFiresOnce
  <1>1. AccountInv => BarFiresOnce
    BY FiresOnce DEF AccountInv
  <1> QED BY <1>1, AccountInvariant, PTL

\* Whatever row a post was sized from, the order is the largest that fits its budget, its
\* platform cap and its margin, and is refused only when none fits.
THEOREM OrdersAreSizedToFit == AccountSpec => []SizedToFit
  <1>1. AccountInv => SizedToFit
    <2>1. ASSUME AccountInv PROVE \A p \in Posts : post[p].seen \in Rows
      BY <2>1, SignalTypes DEF AccountInv, Records
    <2> QED BY <2>1, FitsWhatItRead
  <1> QED BY <1>1, AccountInvariant, PTL

\* However registrations, clearings and consumers of a plan overlap, the account has no
\* more phones, trades of a day or downloads than its plan allows, up to the requests
\* that could not see one another.
THEOREM PlanIsKept == AccountSpec => []LimitsAreKept
  <1>1. AccountInv => LimitsAreKept
    BY DevicesKept, QuotasKept DEF AccountInv, LimitsAreKept
  <1> QED BY <1>1, AccountInvariant, PTL

\* As long as no two requests overlapped, the withdrawal account is what its ledger of
\* trades and withdrawals adds up to, each trade once, and its cap is under the ceiling.
THEOREM WithdrawalsAddUp == AccountSpec => []LedgerIsKept
  <1>1. AccountInv => LedgerIsKept
    BY LedgerKept DEF AccountInv
  <1> QED BY <1>1, AccountInvariant, PTL

\* However requests for the checkout of a signup session overlap, the provider is asked
\* for one; more only when an answer was lost.
THEOREM OneCheckoutIsCreated == AccountSpec => []OneCheckout
  <1>1. AccountInv => OneCheckout
    BY DEF AccountInv, CheckoutInv, OneCheckout
  <1> QED BY <1>1, AccountInvariant, PTL
=============================================================================
