------------------------------ MODULE Identity ------------------------------
(***************************************************************************)
(* One user's password, sessions, second factor and one-time tokens        *)
(* (auth_service.py, auth_router.py).                                      *)
(*                                                                         *)
(* A request reads with SELECTs at READ COMMITTED, without locks, and      *)
(* writes when it commits.  The mapper writes the attributes that differ   *)
(* from what the request had read, and leaves the others as they are.      *)
(***************************************************************************)
EXTENDS ServerRequests

CONSTANTS Tokens,       \* links and codes that are mailed
          MaxPasswords, \* bound: passwords the user ever has
          MaxSessions,  \* bound: logins that succeed
          MaxSecrets    \* bound: authenticator secrets handed out

ASSUME IdentityAssumption == Tokens # {}

UserPasswords == 0..MaxPasswords \* the n-th password, 0 for no user
Secrets == 0..MaxSecrets     \* the n-th secret, 0 for NULL

VARIABLES user,      \* the row of user_accounts
          sessions,  \* auth_sessions that are neither revoked nor expired
          token,     \* purpose and status of each row of auth_tokens
          doing,     \* where each request is, and what it has read
          opened,    \* sessions ever opened
          setups,    \* secrets ever handed out
          confirmed, \* secrets for which a code was shown
          late,      \* logins that a change of the password overtook
          crossed    \* whether two requests about the second factor overlapped

userVars == <<user, sessions, token, doing, opened, setups, confirmed, late, crossed>>

User == [password : UserPasswords, secret : Secrets, enabled : BOOLEAN,
         verified : SUBSET {"verify", "otp"}]
Session == [id : 1..MaxSessions, under : UserPasswords]
NoUser == [password |-> 0, secret |-> 0, enabled |-> FALSE, verified |-> {}]
NoToken == [purpose |-> "none", status |-> "open"]
NoTask == [at |-> "idle", token |-> CHOOSE k \in Tokens : TRUE, seen |-> NoUser, doomed |-> {}]

SecondFactor == {"setup", "enable", "disable"}
Changing == {"register", "login", "find", "reset", "logout", "redeem"} \cup SecondFactor

IdentityTypeOK ==
    /\ user \in User
    /\ sessions \subseteq Session
    /\ token \in [Tokens -> [purpose : {"none", "reset", "verify", "otp"},
                             status : {"open", "used", "expired"}]]
    /\ doing \in [Requests -> [at : Changing \cup {"idle"}, token : Tokens,
                               seen : User, doomed : SUBSET Session]]
    /\ opened \in 0..MaxSessions /\ setups \in Secrets /\ confirmed \subseteq Secrets
    /\ late \in 0..MaxSessions /\ crossed \in BOOLEAN

IdentityInit ==
    /\ user = NoUser
    /\ sessions = {}
    /\ token = [k \in Tokens |-> NoToken]
    /\ doing = [r \in Requests |-> NoTask]
    /\ opened = 0 /\ setups = 0 /\ confirmed = {} /\ late = 0 /\ crossed = FALSE

-----------------------------------------------------------------------------
Doing(at) == { r \in Requests : doing[r].at = at }

Reads(r, at, k) ==
    /\ Arrives(at) /\ doing[r].at = "idle"
    /\ doing' = [doing EXCEPT ![r] = [at |-> at, token |-> k, seen |-> user, doomed |-> {}]]

Ends(r) == doing' = [doing EXCEPT ![r] = NoTask]

\* A request that fails is rolled back.
RequestFails(r) ==
    /\ doing[r].at # "idle"
    /\ Ends(r)
    /\ UNCHANGED <<user, sessions, token, opened, setups, confirmed, late, crossed>>

\* The address is not registered yet; by the time of the commit another request may
\* have registered it, and the unique column refuses this one.
Register(r, k) ==
    /\ user = NoUser /\ token[k] = NoToken
    /\ Reads(r, "register", k)
    /\ UNCHANGED <<user, sessions, token, opened, setups, confirmed, late, crossed>>

CommitUser(r) ==
    /\ doing[r].at = "register"
    /\ IF user = NoUser /\ token[doing[r].token] = NoToken
       THEN /\ user' = [NoUser EXCEPT !.password = 1]
            /\ token' = [token EXCEPT ![doing[r].token].purpose = "verify"]
       ELSE UNCHANGED <<user, token>>
    /\ Ends(r)
    /\ UNCHANGED <<sessions, opened, setups, confirmed, late, crossed>>

\* The password is right and so is the code, which needs a secret, if it is asked for.
Login(r) ==
    /\ user # NoUser
    /\ user.enabled => user.secret # 0
    /\ opened + Cardinality(Doing("login")) < MaxSessions
    /\ Reads(r, "login", doing[r].token)
    /\ UNCHANGED <<user, sessions, token, opened, setups, confirmed, late, crossed>>

CommitSession(r) ==
    /\ doing[r].at = "login"
    /\ opened' = opened + 1
    /\ sessions' = sessions \cup {[id |-> opened', under |-> doing[r].seen.password]}
    /\ late' = IF Doing("reset") # {} \/ doing[r].seen.password # user.password
               THEN late + 1 ELSE late
    /\ Ends(r)
    /\ UNCHANGED <<user, token, setups, confirmed, crossed>>

\* A link for a new password, or a code for the phone.
IssueToken(k, purpose) ==
    /\ Arrives(IF purpose = "reset" THEN "find" ELSE "redeem")
    /\ purpose = "reset" => user # NoUser
    /\ token[k] = NoToken
    /\ token' = [token EXCEPT ![k].purpose = purpose]
    /\ UNCHANGED <<user, sessions, doing, opened, setups, confirmed, late, crossed>>

IsOpen(k, purpose) == token[k] = [purpose |-> purpose, status |-> "open"]

\* The token and its user are read first, the sessions to revoke after them.
FindReset(r, k) ==
    /\ IsOpen(k, "reset")
    /\ Reads(r, "find", k)
    /\ UNCHANGED <<user, sessions, token, opened, setups, confirmed, late, crossed>>

\* Mutation: the new password leaves the sessions alone.
DoomedNone == {}

Doomed == sessions

ReadSessions(r) ==
    /\ doing[r].at = "find"
    /\ doing' = [doing EXCEPT ![r].at = "reset", ![r].doomed = Doomed]
    /\ UNCHANGED <<user, sessions, token, opened, setups, confirmed, late, crossed>>

CommitReset(r) ==
    /\ doing[r].at = "reset"
    /\ user.password < MaxPasswords
    /\ user' = [user EXCEPT !.password = @ + 1]
    /\ token' = [token EXCEPT ![doing[r].token].status = "used"]
    /\ sessions' = sessions \ doing[r].doomed
    /\ Ends(r)
    /\ UNCHANGED <<opened, setups, confirmed, late, crossed>>

\* The link of the first mail and the code for the phone mark what they verify.
Redeem(r, k) ==
    /\ IsOpen(k, "verify") \/ IsOpen(k, "otp")
    /\ Reads(r, "redeem", k)
    /\ UNCHANGED <<user, sessions, token, opened, setups, confirmed, late, crossed>>

CommitRedeem(r) ==
    LET k == doing[r].token IN
    /\ doing[r].at = "redeem"
    /\ token' = [token EXCEPT ![k].status = "used"]
    /\ user' = IF user = NoUser THEN user ELSE [user EXCEPT !.verified = @ \cup {token[k].purpose}]
    /\ Ends(r)
    /\ UNCHANGED <<sessions, opened, setups, confirmed, late, crossed>>

Logout(s) ==
    /\ Arrives("logout") /\ s \in sessions
    /\ sessions' = sessions \ {s}
    /\ UNCHANGED <<user, token, doing, opened, setups, confirmed, late, crossed>>

\* Sessions opened after the SELECT stay.
LogoutAll(r) ==
    /\ Arrives("logout") /\ sessions # {}
    /\ doing[r].at = "idle"
    /\ doing' = [doing EXCEPT ![r] = [@ EXCEPT !.at = "logout", !.doomed = Doomed]]
    /\ UNCHANGED <<user, sessions, token, opened, setups, confirmed, late, crossed>>

CommitLogout(r) ==
    /\ doing[r].at = "logout"
    /\ sessions' = sessions \ doing[r].doomed
    /\ Ends(r)
    /\ UNCHANGED <<user, token, opened, setups, confirmed, late, crossed>>

-----------------------------------------------------------------------------
(* The second factor.                                                      *)

\* A session is needed; a code must fit the secret that was read.
SetUp(r) ==
    /\ sessions # {}
    /\ Reads(r, "setup", doing[r].token)
    /\ UNCHANGED <<user, sessions, token, opened, setups, confirmed, late, crossed>>

Enable(r) ==
    /\ sessions # {}
    /\ user.secret # 0
    /\ Reads(r, "enable", doing[r].token)
    /\ confirmed' = confirmed \cup {user.secret}
    /\ UNCHANGED <<user, sessions, token, opened, setups, late, crossed>>

Disable(r) ==
    /\ sessions # {}
    /\ user.enabled => user.secret # 0
    /\ Reads(r, "disable", doing[r].token)
    /\ UNCHANGED <<user, sessions, token, opened, setups, confirmed, late, crossed>>

\* Mutation: a new secret is asked for at once.
SwitchOnAtOnce == {"setup", "enable"}

\* The requests after which codes are asked for: a new secret waits for its first code.
SwitchOn == {"enable"}

\* What an attribute is after a write: an attribute that is not changed is not written.
Written(old, seen, new) == IF new = seen THEN old ELSE new

CommitFactor(r) ==
    LET seen == doing[r].seen IN
    /\ doing[r].at \in SecondFactor
    /\ doing[r].at = "setup" => setups < MaxSecrets
    /\ setups' = IF doing[r].at = "setup" THEN setups + 1 ELSE setups
    /\ user' = [user EXCEPT
                   !.enabled = Written(@, seen.enabled, doing[r].at \in SwitchOn),
                   !.secret = CASE doing[r].at = "setup"   -> setups'
                                [] doing[r].at = "disable" -> Written(@, seen.secret, 0)
                                [] OTHER -> @]
    /\ crossed' = (crossed \/ \E at \in SecondFactor : Doing(at) \ {r} # {})
    /\ Ends(r)
    /\ UNCHANGED <<sessions, token, opened, confirmed, late>>

TokenRunsOut(k) ==
    /\ token[k].purpose # "none" /\ token[k].status = "open"
    /\ token' = [token EXCEPT ![k].status = "expired"]
    /\ UNCHANGED <<user, sessions, doing, opened, setups, confirmed, late, crossed>>

IdentityNext ==
    \/ \E r \in Requests :
          \/ RequestFails(r) \/ CommitUser(r) \/ CommitSession(r) \/ ReadSessions(r)
          \/ CommitReset(r) \/ CommitRedeem(r) \/ CommitLogout(r) \/ CommitFactor(r)
          \/ Login(r) \/ LogoutAll(r) \/ SetUp(r) \/ Enable(r) \/ Disable(r)
          \/ \E k \in Tokens : Register(r, k) \/ FindReset(r, k) \/ Redeem(r, k)
    \/ \E k \in Tokens : TokenRunsOut(k) \/ \E p \in {"reset", "otp"} : IssueToken(k, p)
    \/ \E s \in sessions : Logout(s)

-----------------------------------------------------------------------------
\* A new password ends the sessions of the old one: those that remain were opened by
\* logins that overlapped the change.
OldPasswordsEnd == Cardinality({ s \in sessions : s.under # user.password }) <= late

\* The second factor is asked for only with a secret for which the user has shown a
\* code, so that switching it on does not shut the user out, unless two requests
\* about it overlapped.
FactorIsConfirmed == user.enabled /\ ~crossed => user.secret \in confirmed
=============================================================================
