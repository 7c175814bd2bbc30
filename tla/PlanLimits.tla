----------------------------- MODULE PlanLimits -----------------------------
(***************************************************************************)
(* What a plan limits: the phones bound to an account                      *)
(* (device_binding_service.py), the trades of a day                        *)
(* (trade_limit_service.py) and the uses of a download token.              *)
(*                                                                         *)
(* Every check is a SELECT at READ COMMITTED and every change a later      *)
(* statement of the same transaction: other requests may commit between    *)
(* them.  A transaction's changes show when it commits.                    *)
(***************************************************************************)
EXTENDS Naturals, FiniteSets

CONSTANTS Phones,
          Registrations, \* registrations and clearings that may overlap
          Consumers,     \* requests that use up a trade or a download
          DeviceLimits,  \* max_devices that plans have
          UseLimits,     \* max_trades_per_day and max_uses; 0 trades are no limit
          MaxUses,       \* bound: uses granted
          NoRow

Quotas == {"trades", "downloads"}
PlanLimitsOf == [devices : DeviceLimits, trades : UseLimits, downloads : UseLimits]

ASSUME PlanLimitsAssumption ==
    /\ DeviceLimits \subseteq Nat \ {0} /\ UseLimits \subseteq Nat
    /\ MaxUses \in Nat /\ NoRow \notin Nat

VARIABLES limit,       \* of devices and of each quota, never changes here
          bound,       \* phones with a row in device_bindings
          registering, \* where each registration is and the rows it will delete
          most,        \* how many registrations were ever in progress at once
          count,       \* trade_count of today's row, uses of the token's row
          expired,     \* whether the download token is expired or revoked
          consuming,   \* where each consumer is and the count it has read
          granted,     \* uses that were granted
          overwritten  \* granted uses that a later write took from the count

deviceVars == <<bound, registering, most>>
quotaVars  == <<count, expired, consuming, granted, overwritten>>
limitVars  == <<limit, deviceVars, quotaVars>>

NoPhone == {}
RegistersNothing == [at |-> "idle", phone |-> NoPhone, doomed |-> {}]
ConsumesNothing  == [at |-> "idle", quota |-> "trades", seen |-> NoRow]

LimitsTypeOK ==
    /\ limit \in PlanLimitsOf
    /\ bound \subseteq Phones
    /\ registering \in [Registrations -> [at : {"idle", "find", "count", "insert", "delete"},
                                          phone : SUBSET Phones, doomed : SUBSET Phones]]
    /\ most \in 0..Cardinality(Registrations)
    /\ count \in [Quotas -> 0..MaxUses \cup {NoRow}]
    /\ expired \in BOOLEAN
    /\ consuming \in [Consumers -> [at : {"idle", "write"}, quota : Quotas,
                                    seen : 0..MaxUses \cup {NoRow}]]
    /\ granted \in [Quotas -> 0..MaxUses] /\ overwritten \in [Quotas -> 0..MaxUses]

LimitsInit ==
    /\ limit \in PlanLimitsOf
    /\ bound = {}
    /\ registering = [r \in Registrations |-> RegistersNothing]
    /\ most = 0
    /\ count = [q \in Quotas |-> IF q = "trades" THEN NoRow ELSE 0]
    /\ expired = FALSE
    /\ consuming = [c \in Consumers |-> ConsumesNothing]
    /\ granted = [q \in Quotas |-> 0] /\ overwritten = [q \in Quotas |-> 0]

-----------------------------------------------------------------------------
(* Registrations.  The phone of a registration is a set of one.            *)

InProgress == { r \in Registrations : registering[r].at # "idle" }

Starts(r, at, phone, doomed) ==
    /\ registering[r].at = "idle"
    /\ registering' = [registering EXCEPT ![r] = [at |-> at, phone |-> phone, doomed |-> doomed]]
    /\ most' = IF Cardinality(InProgress) + 1 > most THEN Cardinality(InProgress) + 1 ELSE most
    /\ UNCHANGED <<limit, bound, quotaVars>>

Register(r, p) == Starts(r, "find", {p}, {})

Moves(r, next) ==
    /\ registering' = [registering EXCEPT ![r] = next]
    /\ UNCHANGED <<limit, bound, most, quotaVars>>

\* A phone that is bound already is only seen again.
FindPhone(r) ==
    /\ registering[r].at = "find"
    /\ Moves(r, IF registering[r].phone \subseteq bound THEN RegistersNothing
                ELSE [registering[r] EXCEPT !.at = "count"])

\* Mutation: one phone too many.
FreeUpTo(n) == n <= limit.devices

Free(n) == n < limit.devices

\* There is room; or the plan has a single phone, which is replaced; or a refusal.
CountPhones(r) ==
    /\ registering[r].at = "count"
    /\ Moves(r, CASE Free(Cardinality(bound)) -> [registering[r] EXCEPT !.at = "insert"]
                  [] ~Free(Cardinality(bound)) /\ limit.devices = 1
                        -> [registering[r] EXCEPT !.at = "delete"]
                  [] OTHER -> RegistersNothing)

\* DELETE sees the rows that are committed when it starts; it waits for those that
\* another DELETE holds and then finds them gone.
DeleteAll(r) ==
    /\ registering[r].at = "delete"
    /\ Moves(r, [registering[r] EXCEPT !.at = "insert", !.doomed = bound])

\* The administrator's clear is such a DELETE too.
Clear(r) == Starts(r, "insert", NoPhone, bound)

\* INSERT and COMMIT; a phone that another registration has bound by now violates
\* uq_account_device and rolls everything back.
CommitPhone(r) ==
    LET kept == bound \ registering[r].doomed IN
    /\ registering[r].at = "insert"
    /\ bound' = IF registering[r].phone \cap kept = {} THEN kept \cup registering[r].phone ELSE bound
    /\ registering' = [registering EXCEPT ![r] = RegistersNothing]
    /\ UNCHANGED <<limit, most, quotaVars>>

RemovePhone(p) ==
    /\ p \in bound
    /\ bound' = bound \ {p}
    /\ UNCHANGED <<limit, registering, most, quotaVars>>

-----------------------------------------------------------------------------
(* Trades of one day and uses of one token.                                *)

Used(seen) == IF seen = NoRow THEN 0 ELSE seen

\* Mutation: the use about to be counted is left out.
ExceedsLate(q, seen) ==
    /\ q = "trades" => limit.trades > 0
    /\ Used(seen) > limit[q]

Exceeds(q, seen) ==
    /\ q = "trades" => limit.trades > 0
    /\ Used(seen) + 1 > limit[q]

Using(c, q) == consuming[c].at = "write" /\ consuming[c].quota = q

\* An expired token and a quota that is used up are refused.
Consume(c, q) ==
    /\ consuming[c].at = "idle"
    /\ q = "downloads" => ~expired
    /\ ~Exceeds(q, count[q])
    /\ granted[q] + Cardinality({ d \in Consumers : Using(d, q) }) < MaxUses
    /\ consuming' = [consuming EXCEPT ![c] = [at |-> "write", quota |-> q, seen |-> count[q]]]
    /\ UNCHANGED <<limit, deviceVars, count, expired, granted, overwritten>>

\* The count read is written back with one added.  A row that somebody else has
\* inserted for the day by now (uq_account_day) fails the request.
WriteCount(c) ==
    LET q == consuming[c].quota  seen == consuming[c].seen IN
    /\ consuming[c].at = "write"
    /\ IF seen = NoRow /\ count[q] # NoRow
       THEN UNCHANGED <<count, granted, overwritten>>
       ELSE /\ count' = [count EXCEPT ![q] = Used(seen) + 1]
            /\ granted' = [granted EXCEPT ![q] = @ + 1]
            /\ overwritten' = [overwritten EXCEPT ![q] = @ + Used(count[q]) - Used(seen)]
    /\ consuming' = [consuming EXCEPT ![c] = ConsumesNothing]
    /\ UNCHANGED <<limit, deviceVars, expired>>

TokenExpires ==
    /\ ~expired
    /\ expired' = TRUE
    /\ UNCHANGED <<limit, deviceVars, count, consuming, granted, overwritten>>

DeviceNext ==
    \/ \E r \in Registrations :
          \/ \E p \in Phones : Register(r, p)
          \/ FindPhone(r) \/ CountPhones(r) \/ DeleteAll(r) \/ Clear(r) \/ CommitPhone(r)
    \/ \E p \in Phones : RemovePhone(p)

QuotaNext ==
    \/ \E c \in Consumers : WriteCount(c) \/ \E q \in Quotas : Consume(c, q)
    \/ TokenExpires

-----------------------------------------------------------------------------
\* An account has more phones than its plan allows only by registrations that
\* overlapped, and by no more than overlapped at once; on a single-phone plan no chain
\* of transfers piles them up.
DevicesWithinLimit == Cardinality(bound) + 1 <= limit.devices + (IF most > 1 THEN most ELSE 1)

\* More trades of a day or uses of a download token than allowed are granted only as
\* far as overlapping requests wrote the same count back.
QuotaIsKept ==
    \A q \in Quotas :
        (q = "trades" => limit.trades > 0) => granted[q] <= limit[q] + overwritten[q]

\* What a plan allows is all an account gets, however its requests overlap, up to what the
\* overlapping ones could not see of each other.
LimitsAreKept == DevicesWithinLimit /\ QuotaIsKept
=============================================================================
