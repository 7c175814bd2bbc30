---------------------------- MODULE MC_JobQueue ----------------------------
(***************************************************************************)
(* An instance of JobQueue for TLC: two requests at a time, which connect, *)
(* disconnect, ask for and trade with an account on one server, on two     *)
(* servers one of which restarts, and for two accounts on one server.      *)
(***************************************************************************)
EXTENDS JobQueue, TLC

CONSTANTS i1, i2, c1, c2, a1, a2

OneServer ==
    [server |-> [c \in Calls |-> i1],
     asks   |-> (c1 :> {<<"connect", a1>>, <<"disconnect", a1>>})
                @@ (c2 :> {<<"connect", a1>>, <<"status", a1>>, <<"order", a1>>}),
     faults |-> {"crash", "connect"}]
RedisDown ==
    [server |-> [c \in Calls |-> i1],
     asks   |-> (c1 :> {<<"disconnect", a1>>}) @@ (c2 :> {<<"connect", a1>>, <<"status", a1>>}),
     faults |-> {"redis"}]
LateExpiry ==
    [server |-> [c \in Calls |-> i1],
     asks   |-> (c1 :> {<<"connect", a1>>}) @@ (c2 :> {<<"status", a1>>, <<"order", a1>>}),
     faults |-> {"redis"}]
TwoServers ==
    [server |-> (c1 :> i1) @@ (c2 :> i2),
     asks   |-> (c1 :> {<<"status", a1>>}) @@ (c2 :> {<<"connect", a1>>, <<"disconnect", a1>>}),
     faults |-> {"restart"}]
FullPool ==
    [server |-> [c \in Calls |-> i1],
     asks   |-> (c1 :> {<<"connect", a1>>, <<"status", a1>>})
                @@ (c2 :> {<<"connect", a2>>, <<"status", a2>>}),
     faults |-> {}]
AllScenes == {OneServer, RedisDown, LateExpiry, TwoServers, FullPool}
=============================================================================
