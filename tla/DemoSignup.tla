----------------------------- MODULE DemoSignup -----------------------------
(***************************************************************************)
(* The free demo: the public signup (subscription_router.py, demo_signup), *)
(* the demo that a first login gives an account (auth_router.py), and      *)
(* activate_demo below both (subscription_service.py).                     *)
(*                                                                         *)
(* A request looks the account up, inserts its row, counts its keys and    *)
(* issues one, in transactions of their own; payments, risk presets and    *)
(* other requests commit in between.                                       *)
(***************************************************************************)
EXTENDS ServerRequests

CONSTANTS Members,   \* accounts of registered users
          FreshIds   \* bound: account ids that public signups draw

ASSUME DemoAssumption == Members # {} /\ Members \cap FreshIds = {}

VARIABLES sub,     \* the row of each account in subscriptions
          keysOf,  \* how many keys each account was issued
          joining, \* where each request is, and for which account
          payers   \* accounts that ever paid

demoVars == <<sub, keysOf, joining, payers>>

SubAccounts == Members \cup FreshIds

\* alive: the status is active or past due; mail: the row has the e-mail of the signups
\* that arrive; portal: it has a portal token.
SubRow == [plan : {"none", "demo", "paid"}, alive : BOOLEAN, mail : BOOLEAN, portal : BOOLEAN]
NoSub  == [plan |-> "none", alive |-> FALSE, mail |-> FALSE, portal |-> FALSE]

NotJoining == [at |-> "idle", public |-> FALSE, account |-> CHOOSE a \in SubAccounts : TRUE]

DemoTypeOK ==
    /\ sub \in [SubAccounts -> SubRow]
    /\ keysOf \in [SubAccounts -> 0..3]
    /\ joining \in [Requests -> [at : {"idle", "session", "look", "insert", "count", "issue", "ensure"},
                                 public : BOOLEAN, account : SubAccounts]]
    /\ payers \subseteq SubAccounts

DemoInit ==
    /\ sub = [a \in SubAccounts |-> NoSub]
    /\ keysOf = [a \in SubAccounts |-> 0]
    /\ joining = [r \in Requests |-> NotJoining]
    /\ payers = {}

-----------------------------------------------------------------------------
Joins(r, at) == joining' = [joining EXCEPT ![r].at = at]
LeavesSignup(r) == joining' = [joining EXCEPT ![r] = NotJoining]

\* find_active_demo_by_email.
MailHasDemo == \E a \in SubAccounts : sub[a].plan = "demo" /\ sub[a].alive /\ sub[a].mail

\* A second demo for the address is refused, unless the query fails.
AskDemo(r, queried) ==
    /\ Arrives("trial")
    /\ joining[r].at = "idle"
    /\ queried => ~MailHasDemo
    /\ joining' = [joining EXCEPT ![r].at = "session", ![r].public = TRUE]
    /\ UNCHANGED <<sub, keysOf, payers>>

Drawn == { a \in FreshIds : sub[a] # NoSub \/ \E q \in Requests :
                                joining[q].account = a /\ joining[q].at \notin {"idle", "session"} }

\* The account's id is the server's, a random one.
OpenDemoSession(r, a) ==
    /\ joining[r].at = "session"
    /\ a \in FreshIds \ Drawn
    /\ joining' = [joining EXCEPT ![r].at = "look", ![r].account = a]
    /\ UNCHANGED <<sub, keysOf, payers>>

\* A login, or a registration, whose account has no row or no portal token yet.
AskAttach(r, a) ==
    /\ Arrives("attach")
    /\ joining[r].at = "idle"
    /\ a \in Members /\ ~sub[a].portal
    /\ joining' = [joining EXCEPT ![r].at = "look", ![r].account = a]
    /\ UNCHANGED <<sub, keysOf, payers>>

-----------------------------------------------------------------------------
(* activate_demo.                                                          *)

\* No caller may refresh an account that is there.  The portal's "connect mobile" asks
\* for a demo only for accounts that are there, so it never gets further than this.
LookUpAccount(r) ==
    /\ joining[r].at = "look"
    /\ IF sub[joining[r].account].plan = "none" THEN Joins(r, "insert") ELSE LeavesSignup(r)
    /\ UNCHANGED <<sub, keysOf, payers>>

\* Mutation: a row that has come in between is written over.
MayInsertAnyway(a) == TRUE

\* The account id is the primary key.
MayInsert(a) == sub[a].plan = "none"

InsertDemo(r) ==
    LET a == joining[r].account IN
    /\ joining[r].at = "insert"
    /\ IF MayInsert(a)
       THEN /\ sub' = [sub EXCEPT ![a] = [plan |-> "demo", alive |-> TRUE,
                                          mail |-> joining[r].public, portal |-> TRUE]]
            /\ Joins(r, "count")
       ELSE LeavesSignup(r) /\ UNCHANGED sub
    /\ UNCHANGED <<keysOf, payers>>

CountDemoKeys(r) ==
    /\ joining[r].at = "count"
    /\ IF keysOf[joining[r].account] = 0 THEN Joins(r, "issue")
       ELSE IF joining[r].public THEN Joins(r, "ensure") ELSE LeavesSignup(r)
    /\ UNCHANGED <<sub, keysOf, payers>>

\* A key that cannot be issued is left out of the answer ...
IssueDemoKey(r, issued) ==
    /\ joining[r].at = "issue"
    /\ IF issued \/ ~joining[r].public THEN LeavesSignup(r) ELSE Joins(r, "ensure")
    /\ keysOf' = IF issued THEN [keysOf EXCEPT ![joining[r].account] = @ + 1] ELSE keysOf
    /\ UNCHANGED <<sub, payers>>

\* ... and the public signup tries once more.
EnsureDemoKey(r, issued) ==
    /\ joining[r].at = "ensure"
    /\ LeavesSignup(r)
    /\ keysOf' = IF issued THEN [keysOf EXCEPT ![joining[r].account] = @ + 1] ELSE keysOf
    /\ UNCHANGED <<sub, payers>>

\* Redis, the database or the server fails the request where it is.
SignupFails(r) ==
    /\ joining[r].at # "idle"
    /\ LeavesSignup(r)
    /\ UNCHANGED <<sub, keysOf, payers>>

-----------------------------------------------------------------------------
(* What else writes the row.  An administrator's set_mode, which may mean  *)
(* to take a plan away, is in module Subscription.                         *)

\* A payment, with the plan of its checkout, inserts the row or updates it (module
\* Subscription has its steps).
MemberPays(a) ==
    /\ Arrives("pay")
    /\ a \in Members \ payers
    /\ sub' = [sub EXCEPT ![a] = [plan |-> "paid", alive |-> TRUE, mail |-> @.mail, portal |-> TRUE]]
    /\ keysOf' = IF sub[a] = NoSub THEN [keysOf EXCEPT ![a] = @ + 1] ELSE keysOf
    /\ payers' = payers \cup {a}
    /\ UNCHANGED joining

\* set_risk_preset makes a row, with status "demo" and no portal token, for an account
\* that has none.
StorePreset(a) ==
    /\ Arrives("preset")
    /\ a \in Members /\ sub[a] = NoSub
    /\ sub' = [sub EXCEPT ![a].plan = "demo"]
    /\ UNCHANGED <<keysOf, joining, payers>>

\* Canceled or suspended; the end of the 14 days changes nothing.
SubEnds(a) ==
    /\ Arrives("pay")
    /\ sub[a].alive
    /\ sub' = [sub EXCEPT ![a].alive = FALSE]
    /\ UNCHANGED <<keysOf, joining, payers>>

DemoNext ==
    \/ \E r \in Requests :
          \/ \E yes \in BOOLEAN : AskDemo(r, yes) \/ IssueDemoKey(r, yes) \/ EnsureDemoKey(r, yes)
          \/ \E a \in SubAccounts : OpenDemoSession(r, a) \/ AskAttach(r, a)
          \/ LookUpAccount(r) \/ InsertDemo(r) \/ CountDemoKeys(r) \/ SignupFails(r)
    \/ \E a \in SubAccounts : MemberPays(a) \/ StorePreset(a) \/ SubEnds(a)

-----------------------------------------------------------------------------
\* "Existing accounts cannot be taken over" (subscription_router.py:313): whatever a demo
\* request has read before, an account that has paid meanwhile keeps its plan.
PaidPlansStay == \A a \in payers : sub[a].plan = "paid"
=============================================================================
