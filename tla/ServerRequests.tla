--------------------------- MODULE ServerRequests ---------------------------
(***************************************************************************)
(* The requests that the server may serve at the same time.  Each of them  *)
(* is a coroutine: it may be overtaken by the others wherever it awaits    *)
(* the database, Redis, a worker or a thread.                              *)
(*                                                                         *)
(* What a request does to one service it does whatever requests arrive for *)
(* the others, so a behaviour follows the kinds of one arrival.            *)
(***************************************************************************)
EXTENDS Naturals, FiniteSets

CONSTANTS Requests,
          Arrivals \* bound: kinds of requests that are mixed with each other

ASSUME RequestsAssumption == Requests # {} /\ Arrivals # {}

VARIABLE arriving \* the kinds of requests that arrive, never changes

ArrivalInit == arriving \in Arrivals

Arrives(kind) == kind \in arriving

\* The larger of two numbers.
AtLeast(n, least) == IF n > least THEN n ELSE least
=============================================================================
