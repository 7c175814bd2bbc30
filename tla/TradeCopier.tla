---------------------------- MODULE TradeCopier ----------------------------
(***************************************************************************)
(* The trade copier of one master account (trade_copier_service.py,        *)
(* copier_router.py, the end of place_market_order in trading_router.py).  *)
(*                                                                         *)
(* A request counts the slaves, and inserts one more, in one transaction   *)
(* without a lock; a mirrored order goes from slave to slave and waits for *)
(* each of them, over the list that it read at first.                      *)
(***************************************************************************)
EXTENDS ServerRequests, SequencesExt

CONSTANTS SlaveIds,  \* bound: slaves ever added, in the order of their ids
          SlaveTiers \* max_slaves of the tiers of the add-on

ASSUME CopierAssumption == SlaveIds \subseteq Nat \ {0} /\ SlaveTiers \subseteq Nat \ {0}

VARIABLES tier,     \* max_slaves of the active add-on; 0: there is none
          slave,    \* the rows of trade_copier_slaves
          copying,  \* where each request of the copier is
          copied,   \* what was said of the last slave an order was mirrored to
          widest,   \* the largest tier the account ever had
          adding    \* how many requests ever were between the count and the insert at once

copierVars == <<tier, slave, copying, copied, widest, adding>>

SlaveRow == {"unused", "enabled", "disabled", "removed"}
NotCopying == [at |-> "idle", left |-> << >>]

CopierTypeOK ==
    /\ tier \in SlaveTiers \cup {0}
    /\ slave \in [SlaveIds -> SlaveRow]
    /\ copying \in [Requests -> [at : {"idle", "add", "mirror", "submit"}, left : Seq(SlaveIds)]]
    /\ copied \in {"nothing", "queued_offline", "submitted", "failed", "error"}
    /\ widest \in SlaveTiers \cup {0}
    /\ adding \in 0..Cardinality(Requests)

CopierInit ==
    /\ tier = 0
    /\ slave = [s \in SlaveIds |-> "unused"]
    /\ copying = [r \in Requests |-> NotCopying]
    /\ copied = "nothing"
    /\ widest = 0
    /\ adding = 0

-----------------------------------------------------------------------------
Slaves == { s \in SlaveIds : slave[s] \in {"enabled", "disabled"} }

CopierIs(r, at, left) == copying' = [copying EXCEPT ![r] = [at |-> at, left |-> left]]

\* activate_addon, of an account whose subscription allows it: a second activation replaces
\* the tier, and leaves the slaves alone.
ActivateCopier(max) ==
    /\ Arrives("addon")
    /\ tier' = max
    /\ widest' = AtLeast(max, widest)
    /\ UNCHANGED <<slave, copying, copied, adding>>

\* Mutation: one slave more than the tier allows.
HasAlmostRoom == tier > 0 /\ Cardinality(Slaves) <= tier

\* The check of add_slave.
HasRoom == tier > 0 /\ Cardinality(Slaves) < tier

CountSlaves(r) ==
    /\ Arrives("slave")
    /\ copying[r].at = "idle"
    /\ HasRoom
    /\ CopierIs(r, "add", << >>)
    /\ adding' = AtLeast(Cardinality({ q \in Requests : copying'[q].at = "add" }), adding)
    /\ UNCHANGED <<tier, slave, copied, widest>>

InsertSlave(r) ==
    /\ copying[r].at = "add"
    /\ \E s \in SlaveIds :
          /\ slave[s] = "unused"
          /\ \A earlier \in SlaveIds : slave[earlier] = "unused" => s <= earlier
          /\ slave' = [slave EXCEPT ![s] = "enabled"]
    /\ CopierIs(r, "idle", << >>)
    /\ UNCHANGED <<tier, copied, widest, adding>>

RemoveSlave(s) ==
    /\ Arrives("slave")
    /\ s \in Slaves
    /\ slave' = [slave EXCEPT ![s] = "removed"]
    /\ UNCHANGED <<tier, copying, copied, widest, adding>>

ToggleSlave(s, enabled) ==
    /\ Arrives("slave")
    /\ s \in Slaves
    /\ slave' = [slave EXCEPT ![s] = IF enabled THEN "enabled" ELSE "disabled"]
    /\ UNCHANGED <<tier, copying, copied, widest, adding>>

\* A market order of the master came back with a result, also one that says the broker has
\* rejected it: the enabled slaves are read, once.
BeginMirror(r) ==
    /\ Arrives("mirror")
    /\ copying[r].at = "idle"
    /\ tier > 0
    /\ LET enabled == { s \in SlaveIds : slave[s] = "enabled" }
       IN  CopierIs(r, "mirror", SetToSortSeq(enabled, <))
    /\ UNCHANGED <<tier, slave, copied, widest, adding>>

\* is_running of the worker of <master>:slave:<id>, or Redis fails.
LookForWorker(r, running) ==
    LET left == copying[r].left
    IN  /\ copying[r].at = "mirror" /\ left # << >>
        /\ IF running
             THEN CopierIs(r, "submit", left) /\ UNCHANGED copied
             ELSE /\ CopierIs(r, "mirror", Tail(left))
                  /\ copied' \in {"queued_offline", "error"}
        /\ UNCHANGED <<tier, slave, widest, adding>>

\* The payload has no order_type and no account_id, so the worker's MarketOrderRequest refuses
\* it; a wait that times out fails as well.
CopyResults == {"failed", "error"}

CopyReturns(r) ==
    /\ copying[r].at = "submit"
    /\ copied' \in CopyResults
    /\ CopierIs(r, "mirror", Tail(copying[r].left))
    /\ UNCHANGED <<tier, slave, widest, adding>>

EndMirror(r) ==
    /\ copying[r].at = "mirror" /\ copying[r].left = << >>
    /\ CopierIs(r, "idle", << >>)
    /\ UNCHANGED <<tier, slave, copied, widest, adding>>

CopierNext ==
    \/ \E max \in SlaveTiers : ActivateCopier(max)
    \/ \E s \in SlaveIds, enabled \in BOOLEAN : RemoveSlave(s) \/ ToggleSlave(s, enabled)
    \/ \E r \in Requests :
          \/ CountSlaves(r) \/ InsertSlave(r)
          \/ BeginMirror(r) \/ CopyReturns(r) \/ EndMirror(r)
          \/ \E running \in BOOLEAN : LookForWorker(r, running)

-----------------------------------------------------------------------------
\* The tier limits the slaves: there are never more than the largest tier allows, but for the
\* requests that had counted them at the same time (trade_copier_service.py:112-121).
SlavesStayWithinTier == Cardinality(Slaves) <= widest + AtLeast(adding, 1) - 1
=============================================================================
