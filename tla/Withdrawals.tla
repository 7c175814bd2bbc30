---------------------------- MODULE Withdrawals -----------------------------
(***************************************************************************)
(* The ratchet's rows in the database (withdrawal_service.py): requests    *)
(* configure an account, report a realized trade or reserve a withdrawal.  *)
(* Each reads the account's row, computes, and commits the columns it      *)
(* changed together with a ledger row.  There is no lock; requests         *)
(* interleave between the read and the commit.                             *)
(*                                                                         *)
(* The schema is the migrations': a trade or a key is recorded once, and   *)
(* nothing keeps an account from having two rows.                          *)
(***************************************************************************)
EXTENDS Integers, Functions

CONSTANTS Clients,   \* requests that may overlap
          StartEquities, \* in cents
          Gains,     \* the realized trades, each with its profit
          ReportsEquity, \* whether terminals may report equity_after
          Keys,      \* withdrawals, each under an idempotency key
          Shares,    \* divisors: parts of the eligible balance that are asked for
          MaxConfigured, \* bound: configurations begun
          NoAccount

\* The columns of the row.
Accounts == [start : StartEquities, equity : Int, cap : Nat, armed : BOOLEAN, paused : BOOLEAN,
             eligible : Nat, withdrawn : Nat, pnl : Int]

ASSUME WithdrawalAssumption ==
    /\ StartEquities \subseteq Nat \ {0} /\ MaxConfigured \in Nat
    /\ DOMAIN Gains \cap Keys = {} /\ \A t \in DOMAIN Gains : Gains[t] \in Int
    /\ ReportsEquity \subseteq BOOLEAN /\ Shares \subseteq Nat \ {0}
    /\ NoAccount \notin Accounts

-----------------------------------------------------------------------------
(* The ratchet of hybrid_ratchet.py: what a realized trade and a withdrawal  *)
(* make of an account's columns.  Amounts are whole cents, and shares are    *)
(* rounded down.                                                             *)

\* resolve_lean_cap_ceiling for a risk of 0.5%, RatchetConfig: 70/30, twice, 20%.
CeilingOf(start) == (start \div 1000) * 83286
ThresholdOf(start) == 2 * start
ToEligible(excess) == (excess * 7) \div 10
ToCap(excess) == (excess * 3) \div 10
FloorOf(cap) == (cap * 8) \div 10

Lesser(a, b) == IF a < b THEN a ELSE b

Seeded(start) == [start |-> start, equity |-> start, cap |-> 0, armed |-> FALSE,
                  paused |-> FALSE, eligible |-> 0, withdrawn |-> 0, pnl |-> 0]

\* RatchetState.__post_init__: an account without equity starts over.
Loaded(r) == IF r.equity <= 0 THEN [r EXCEPT !.equity = r.start] ELSE r

Paused(r) ==
    [r EXCEPT !.paused = IF r.armed /\ r.cap > 0
                         THEN r.equity < FloorOf(r.cap) \/ (@ /\ r.equity < r.cap)
                         ELSE @]

Armed(r) ==
    IF ~r.armed /\ r.equity >= ThresholdOf(r.start)
    THEN [r EXCEPT !.armed = TRUE, !.cap = Lesser(ThresholdOf(r.start), CeilingOf(r.start))]
    ELSE r

AtCeiling(r) == r.armed /\ r.cap >= CeilingOf(r.start)

\* What is above the cap goes to the client; while the cap still grows, 30% of it
\* raise the cap, and what would raise it over the ceiling goes to the client too.
Allocated(r) ==
    LET excess == r.equity - r.cap
        raised == Lesser(r.cap + ToCap(excess), CeilingOf(r.start))
    IN IF AtCeiling(r)
       THEN [r EXCEPT !.eligible = @ + excess, !.cap = CeilingOf(r.start)]
       ELSE [r EXCEPT !.eligible = @ + ToEligible(excess) + (r.cap + ToCap(excess) - raised),
                      !.cap = raised]

Pays(r, pnl) == pnl > 0 /\ r.armed /\ ~r.paused /\ r.equity > r.cap

AfterTrade(r, pnl, equityAfter) ==
    LET t == Paused(Armed([r EXCEPT !.pnl = @ + pnl, !.equity = equityAfter]))
    IN IF Pays(t, pnl) THEN Allocated(t) ELSE t

MayWithdraw(r, amount) == ~r.paused /\ amount <= r.eligible

AfterWithdrawal(r, amount) ==
    Paused([r EXCEPT !.eligible = @ - amount, !.withdrawn = @ + amount, !.equity = @ - amount])

\* configure_account starts a new baseline and keeps what was earned and withdrawn.
Reseeded(r, start) == [Seeded(start) EXCEPT !.withdrawn = r.withdrawn, !.pnl = r.pnl]

-----------------------------------------------------------------------------
VARIABLES account,    \* the row, NoAccount if there is none
          duplicated, \* whether the account has a second row
          request,    \* what each request has read and is going to commit
          ledger,     \* trades and keys that were recorded
          owed,       \* the ledger's to_eligible since the account was last configured
          configured, \* configurations begun
          overlapped  \* a commit met a row that was no longer the one it had read

withdrawalVars ==
    <<account, duplicated, request, ledger, owed, configured, overlapped>>

Entries == DOMAIN Gains \cup Keys
NoRequest == [at |-> "idle", entry |-> {}, seen |-> NoAccount, new |-> NoAccount]

WithdrawalTypeOK ==
    /\ account \in Accounts \cup {NoAccount}
    /\ duplicated \in BOOLEAN /\ overlapped \in BOOLEAN
    /\ request \in [Clients -> [at : {"idle", "commit"}, entry : SUBSET Entries,
                               seen : Accounts \cup {NoAccount}, new : Accounts \cup {NoAccount}]]
    /\ ledger \subseteq Entries
    /\ owed \in Int
    /\ configured \in 0..MaxConfigured

WithdrawalInit ==
    /\ account = NoAccount /\ duplicated = FALSE
    /\ request = [x \in Clients |-> NoRequest]
    /\ ledger = {} /\ owed = 0 /\ configured = 0 /\ overlapped = FALSE

-----------------------------------------------------------------------------
\* The row is read.  Two rows fail every request from then on.
Reads(x, entry, new) ==
    /\ request[x].at = "idle" /\ ~duplicated
    /\ request' = [request EXCEPT ![x] = [at |-> "commit", entry |-> entry,
                                          seen |-> account, new |-> new]]
    /\ UNCHANGED <<account, duplicated, ledger, owed, overlapped>>

Configure(x, start) ==
    /\ configured < MaxConfigured /\ configured' = configured + 1
    /\ Reads(x, {}, IF account = NoAccount THEN Seeded(start) ELSE Reseeded(account, start))

\* Whether the trade is recorded is looked up after the row is read; one that is
\* recorded later still fails the commit: uq_withdrawal_ledger_idem.
RealizedTrade(x, t, reports) ==
    LET r == Loaded(account) IN
    /\ account # NoAccount
    /\ \E after \in (IF reports THEN {account.start} ELSE {r.equity + Gains[t]}) :
          Reads(x, {t}, AfterTrade(r, Gains[t], after))
    /\ UNCHANGED configured

\* A withdrawal of the eligible balance or a part of it.  The row is read after the key
\* is looked up; a key recorded since then fails the commit.
RequestWithdrawal(x, k, part) ==
    LET r == Loaded(account)  amount == r.eligible \div part IN
    /\ account # NoAccount
    /\ amount > 0 /\ MayWithdraw(r, amount)
    /\ Reads(x, {k}, AfterWithdrawal(r, amount))
    /\ UNCHANGED configured

\* The UPDATE sets the columns that the request changed.
Columns(seen, new) == { c \in DOMAIN new : new[c] # seen[c] }
Merged(seen, new) ==
    [c \in DOMAIN account |-> IF c \in Columns(seen, new) THEN new[c] ELSE account[c]]

\* Mutation: a trade that is reported again counts again.
RecordedNever(entry) == FALSE

Recorded(entry) == entry \cap ledger # {}

RollsBack(x) ==
    /\ Recorded(request[x].entry)
    /\ UNCHANGED <<account, duplicated, ledger, owed, overlapped>>

InsertsRow(x) ==
    /\ request[x].seen = NoAccount
    /\ IF account = NoAccount THEN account' = request[x].new /\ UNCHANGED duplicated
                              ELSE duplicated' = TRUE /\ UNCHANGED account
    /\ UNCHANGED <<ledger, owed, overlapped>>

UpdatesRow(x) ==
    LET seen == request[x].seen  new == request[x].new  entry == request[x].entry IN
    /\ seen # NoAccount /\ ~Recorded(entry)
    /\ account' = Merged(seen, new)
    /\ ledger' = ledger \cup entry
    /\ owed' = IF entry = {} THEN 0 ELSE owed + new.eligible - seen.eligible
    /\ overlapped' = (overlapped \/ account # seen)
    /\ UNCHANGED duplicated

CommitRequest(x) ==
    /\ request[x].at = "commit"
    /\ RollsBack(x) \/ InsertsRow(x) \/ UpdatesRow(x)
    /\ request' = [request EXCEPT ![x] = NoRequest]
    /\ UNCHANGED configured

WithdrawalNext ==
    \E x \in Clients :
        \/ \E start \in StartEquities : Configure(x, start)
        \/ \E t \in DOMAIN Gains, reports \in ReportsEquity : RealizedTrade(x, t, reports)
        \/ \E k \in Keys, part \in Shares : RequestWithdrawal(x, k, part)
        \/ CommitRequest(x)

-----------------------------------------------------------------------------
EarnedProfit == SumFunctionOnSet(Gains, ledger \cap DOMAIN Gains)

\* As long as no two requests overlapped, the row is what the ledger adds up to: the
\* eligible balance is what trades credited and withdrawals did not take, the profit
\* is that of each trade once, however often it is reported, and the cap never passes
\* its ceiling.
LedgerIsKept ==
    account # NoAccount /\ ~overlapped =>
        /\ account.eligible = owed /\ account.pnl = EarnedProfit
        /\ account.cap <= CeilingOf(account.start)

\* docs/AEGIS_HYBRID_RATCHET_WITHDRAWAL.md: once the cap is at its ceiling, the *new*
\* excess goes to the eligible balance.  A trade that finds the equity above the cap
\* credits no more than its profit.
OnlyNewExcess ==
    [][\/ account = NoAccount \/ account' = NoAccount
       \/ ~AtCeiling(account) \/ account.equity < account.cap
       \/ account'.pnl <= account.pnl
       \/ account'.eligible - account.eligible <= account'.pnl - account.pnl]_withdrawalVars
=============================================================================
