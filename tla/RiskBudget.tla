----------------------------- MODULE RiskBudget -----------------------------
(***************************************************************************)
(* The risk budget of one account (portfolio_risk_service.py): its equity  *)
(* and tolerance, the halt when the drawdown uses the budget up, and the   *)
(* sizing of orders within what is left.                                   *)
(*                                                                         *)
(* Every service method runs a few transactions in a row at READ COMMITTED:*)
(* a plain SELECT, then an UPDATE of the columns whose value differs from  *)
(* what was selected.  Between two of them other requests may commit.      *)
(***************************************************************************)
EXTENDS PositionSizing

CONSTANTS Calls,      \* equity and tolerance requests that may overlap
          Equities,   \* what the terminal may report, in cents
          Tolerances, \* what the client may choose, in thousandths of a percent
          Fills,      \* risks of positions that may be open, in cents
          MaxOpen,    \* bound: open risk
          Stored,     \* rows the account may have when the server starts
          Scenes      \* which requests and posts one behaviour has

DefaultTolerance == 25000

VARIABLES row,      \* the risk columns of the account's subscription
          call,     \* what each request has read and is about to write
          peakLost, \* whether a write ever lowered the peak
          unchecked, \* whether a request was lost before its evaluation, and none evaluated since
          scene

riskVars == <<row, call, peakLost, unchecked, scene>>

\* An equity or a peak of 0 also stands for one that was never reported.
Rows == [equity : Nat, peak : Nat, tolerance : Tolerances, halted : BOOLEAN, open : Nat]

FreshRow == [equity |-> 0, peak |-> 0, tolerance |-> DefaultTolerance, halted |-> FALSE, open |-> 0]
IdleCall == [at |-> "free", op |-> "none", arg |-> 0, seen |-> FreshRow]

RiskTypeOK ==
    /\ row \in Rows
    /\ call \in [Calls -> [at : {"free", "write", "evaluate", "halt"},
                           op : {"none", "equity", "tolerance"}, arg : Nat, seen : Rows]]
    /\ peakLost \in BOOLEAN /\ unchecked \in BOOLEAN
    /\ scene \in Scenes

-----------------------------------------------------------------------------
Drawdown(r) == IF r.peak > r.equity THEN r.peak - r.equity ELSE 0

Remaining(r) == LET left == Budget(r.equity, r.tolerance) - r.open IN IF left > 0 THEN left ELSE 0

\* Drawdown against the budget, without rounding: dd >= budget > 0.
UsedUp(r) == r.equity > 0 /\ Drawdown(r) * 100000 >= r.equity * r.tolerance

ASSUME RiskBudgetAssumption ==
    /\ Equities \subseteq Nat
    /\ Tolerances \subseteq Nat \ {0} /\ DefaultTolerance \in Tolerances
    /\ Fills \subseteq Nat \ {0} /\ MaxOpen \in Nat
    /\ Stored \subseteq Rows
    /\ \A r \in Stored : r.peak >= r.equity /\ (UsedUp(r) => r.halted)

RiskInit ==
    /\ row \in Stored
    /\ call = [c \in Calls |-> IdleCall]
    /\ peakLost = FALSE
    /\ unchecked = FALSE
    /\ scene \in Scenes

\* The columns that differ from what was read are written, the others stay.
Changed(old, new, kept) == IF new # old THEN new ELSE kept

Updated(seen, new) ==
    [equity    |-> Changed(seen.equity, new.equity, row.equity),
     peak      |-> Changed(seen.peak, new.peak, row.peak),
     tolerance |-> Changed(seen.tolerance, new.tolerance, row.tolerance),
     halted    |-> Changed(seen.halted, new.halted, row.halted),
     open      |-> Changed(seen.open, new.open, row.open)]

Raised(peak, equity) == IF equity > peak THEN equity ELSE peak

\* set_equity, first transaction: the peak follows, and a halted account resumes
\* when its equity rose and its drawdown is within the budget again.
WithEquity(r, equity) ==
    LET new == [r EXCEPT !.equity = equity, !.peak = Raised(@, equity)] IN
    IF r.halted /\ equity > r.equity /\ Drawdown(new) * 100000 < equity * r.tolerance
    THEN [new EXCEPT !.halted = FALSE] ELSE new

NotesLoss == peakLost' = (peakLost \/ row'.peak < row.peak)

\* Mutation: the tolerance is changed without looking at the drawdown again.
AfterEquityOnly(c) == IF call[c].op = "equity" THEN "evaluate" ELSE "free"

AfterWrite(c) == "evaluate"

Read(c, op, arg) ==
    /\ c \in scene
    /\ call[c].at = "free"
    /\ call' = [call EXCEPT ![c] = [at |-> "write", op |-> op, arg |-> arg, seen |-> row]]
    /\ UNCHANGED <<row, peakLost, unchecked, scene>>

Write(c) ==
    LET seen == call[c].seen IN
    /\ call[c].at = "write"
    /\ row' = Updated(seen, CASE call[c].op = "equity" -> WithEquity(seen, call[c].arg)
                              [] call[c].op = "tolerance" -> [seen EXCEPT !.tolerance = call[c].arg])
    /\ call' = [call EXCEPT ![c] = IF AfterWrite(c) = "free" THEN IdleCall
                                   ELSE [@ EXCEPT !.at = AfterWrite(c), !.seen = FreshRow]]
    /\ NotesLoss
    /\ UNCHANGED <<unchecked, scene>>

\* evaluate_halt reads the row again.  Without an equity it has nothing to do.
EvaluateReads(c) ==
    /\ call[c].at = "evaluate"
    /\ call' = [call EXCEPT ![c] = IF row.equity = 0 THEN IdleCall
                                   ELSE [@ EXCEPT !.at = "halt", !.seen = row]]
    /\ unchecked' = FALSE
    /\ UNCHANGED <<row, peakLost, scene>>

Evaluated(r) ==
    LET new == [r EXCEPT !.peak = Raised(@, r.equity)] IN
    [new EXCEPT !.halted = @ \/ UsedUp(new)]

EvaluateWrites(c) ==
    /\ call[c].at = "halt"
    /\ row' = Updated(call[c].seen, Evaluated(call[c].seen))
    /\ call' = [call EXCEPT ![c] = IdleCall]
    /\ NotesLoss
    /\ UNCHANGED <<unchecked, scene>>

\* The database or the server fails in the middle of the request.
Unevaluated(c) == call[c].at \in {"evaluate", "halt"}

RequestFails(c) ==
    /\ call[c].at # "free"
    /\ call' = [call EXCEPT ![c] = IdleCall]
    /\ unchecked' = (unchecked \/ Unevaluated(c))
    /\ UNCHANGED <<row, peakLost, scene>>

\* Mutation: the release is not kept above zero.
Difference(open, delta) == open - delta

Released(open, delta) == IF open > delta THEN open - delta ELSE 0

\* record_open_risk and release_open_risk, one statement under a row lock each
\* (module PositionLifecycle says when).
RecordOpenRisk(delta) ==
    /\ "fill" \in scene
    /\ row.open + delta <= MaxOpen
    /\ row' = [row EXCEPT !.open = @ + delta]
    /\ UNCHANGED <<call, peakLost, unchecked, scene>>

ReleaseOpenRisk(delta) ==
    /\ row.open > 0
    /\ row' = [row EXCEPT !.open = Released(@, delta)]
    /\ UNCHANGED <<call, peakLost, unchecked, scene>>

RiskNext ==
    \/ \E c \in Calls :
          \/ \E e \in Equities : Read(c, "equity", e)
          \/ \E t \in Tolerances : Read(c, "tolerance", t)
          \/ Write(c) \/ EvaluateReads(c) \/ EvaluateWrites(c) \/ RequestFails(c)
    \/ \E d \in Fills : RecordOpenRisk(d) \/ ReleaseOpenRisk(d)

-----------------------------------------------------------------------------
\* Once no request is in progress, an account whose drawdown uses its budget up is
\* halted, in whatever order equity reports and tolerance changes overlapped; unless
\* one of them overwrote the peak of another with a lower one, or died between its
\* write and its evaluation and none has evaluated the account since.
DrawdownHalts ==
    (\A c \in Calls : call[c].at = "free") /\ UsedUp(row) => row.halted \/ peakLost \/ unchecked
=============================================================================
