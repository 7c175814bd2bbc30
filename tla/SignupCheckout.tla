--------------------------- MODULE SignupCheckout ---------------------------
(***************************************************************************)
(* A signup session in Redis (signup_session_service.py) and the checkout  *)
(* requests that use it (subscription_router.py, create_checkout): a       *)
(* request claims the session before it asks the payment provider, gives   *)
(* the claim back when the provider fails, and notes the reference.        *)
(*                                                                         *)
(* Each step is a command on Redis or the call of the provider; requests   *)
(* of several server processes interleave between them.  A watched key     *)
(* that is written or expires fails the EXEC.                              *)
(***************************************************************************)
EXTENDS Naturals

CONSTANTS Checkouts,   \* checkout requests that may overlap
          MaxAttempts  \* bound: requests that are served

ASSUME CheckoutAssumption == MaxAttempts \in Nat

VARIABLES session,  \* the state stored under the session's key, "none" if there is no key
          checkout, \* where each request is and the session it has read
          watched,  \* requests whose watched key was not touched since
          attempts, \* requests served so far
          created,  \* checkouts that the provider created
          lost      \* of these, the ones whose answer never arrived

checkoutVars == <<session, checkout, watched, attempts, created, lost>>

SessionStates == {"none", "CREATED", "CHECKOUT_CREATED"}
NoCheckout == [at |-> "idle", seen |-> "none"]

CheckoutTypeOK ==
    /\ session \in SessionStates
    /\ checkout \in [Checkouts ->
                       [at : {"idle", "watch", "exec", "provider", "reset", "note", "save"},
                        seen : SessionStates]]
    /\ watched \subseteq Checkouts
    /\ attempts \in 0..MaxAttempts
    /\ created \in Nat /\ lost \in Nat

CheckoutInit ==
    /\ session = "none"
    /\ checkout = [x \in Checkouts |-> NoCheckout]
    /\ watched = {}
    /\ attempts = 0 /\ created = 0 /\ lost = 0

Steps(x, at, seen) == checkout' = [checkout EXCEPT ![x] = [at |-> at, seen |-> seen]]
Ends(x) == Steps(x, "idle", "none")

\* A write of the key, which is then no longer as anybody watched it.
Save(state) == session' = state /\ watched' = {}

\* The server issues the session, whose id is new; demo sessions do not check out.
CreateSession ==
    /\ session = "none" /\ attempts = 0
    /\ Save("CREATED")
    /\ UNCHANGED <<checkout, attempts, created, lost>>

\* The session is there and its e-mail and plan are those of the request.
GetSession(x) ==
    /\ checkout[x].at = "idle"
    /\ session # "none" /\ attempts < MaxAttempts
    /\ attempts' = attempts + 1
    /\ Steps(x, "watch", "none")
    /\ UNCHANGED <<session, watched, created, lost>>

\* WATCH and GET: a session that is gone or claimed ends the request.
Watch(x) ==
    /\ checkout[x].at = "watch"
    /\ IF session = "CREATED"
       THEN Steps(x, "exec", session) /\ watched' = watched \cup {x}
       ELSE Ends(x) /\ UNCHANGED watched
    /\ UNCHANGED <<session, attempts, created, lost>>

\* Mutation: EXEC takes place whatever happened to the key.
ClaimAnyway(x) ==
    /\ checkout[x].at = "exec"
    /\ Save("CHECKOUT_CREATED")
    /\ Steps(x, "provider", "none")
    /\ UNCHANGED <<attempts, created, lost>>

\* EXEC, or another try.
Claim(x) ==
    /\ checkout[x].at = "exec"
    /\ IF x \in watched
       THEN Save("CHECKOUT_CREATED") /\ Steps(x, "provider", "none")
       ELSE Steps(x, "watch", "none") /\ UNCHANGED <<session, watched>>
    /\ UNCHANGED <<attempts, created, lost>>

\* Redis fails eight tries, or create_reveal_token after the claim: nothing gives the
\* claim back then.
RedisFails(x) ==
    /\ checkout[x].at # "idle"
    /\ Ends(x)
    /\ UNCHANGED <<session, watched, attempts, created, lost>>

\* With its answer the provider's checkout is the customer's.
ProviderAnswers(x) ==
    /\ checkout[x].at = "provider"
    /\ created' = created + 1
    /\ Steps(x, "note", "none")
    /\ UNCHANGED <<session, watched, attempts, lost>>

\* The call raises, whether the provider created a checkout or not.
ProviderFails(x, late) ==
    /\ checkout[x].at = "provider"
    /\ created' = (IF late THEN created + 1 ELSE created)
    /\ lost' = (IF late THEN lost + 1 ELSE lost)
    /\ Steps(x, "reset", "none")
    /\ UNCHANGED <<session, watched, attempts>>

\* set_payment_reference and reset_checkout_claim read the session first ...
ReadsBack(x) ==
    /\ checkout[x].at \in {"note", "reset"}
    /\ CASE session = "none" -> Ends(x)
         [] session # "none" /\ checkout[x].at = "note" -> Steps(x, "save", session)
         [] session = "CHECKOUT_CREATED" /\ checkout[x].at = "reset" -> Steps(x, "save", "CREATED")
         [] OTHER -> Ends(x)
    /\ UNCHANGED <<session, watched, attempts, created, lost>>

\* ... and then write it whole.
SavesBack(x) ==
    /\ checkout[x].at = "save"
    /\ Save(checkout[x].seen)
    /\ Ends(x)
    /\ UNCHANGED <<attempts, created, lost>>

SessionExpires ==
    /\ session # "none" /\ attempts > 0
    /\ Save("none")
    /\ UNCHANGED <<checkout, attempts, created, lost>>

CheckoutNext ==
    \/ CreateSession \/ SessionExpires
    \/ \E x \in Checkouts :
          \/ GetSession(x) \/ Watch(x) \/ Claim(x) \/ RedisFails(x)
          \/ ProviderAnswers(x) \/ \E late \in BOOLEAN : ProviderFails(x, late)
          \/ ReadsBack(x) \/ SavesBack(x)

-----------------------------------------------------------------------------
\* However many requests use a session at once, and whatever is read before an expiry
\* and written after it, the provider creates one checkout for it; another one only
\* after one whose answer was lost.
OneCheckout == created <= 1 + lost
=============================================================================
