--------------------------- MODULE BrokerSessions ---------------------------
(***************************************************************************)
(* The broker credentials of one account and who gets them: the vault      *)
(* (credential_vault_service.py), /connect of trading_router.py, and the   *)
(* session cache (broker_connection_service.py).                           *)
(*                                                                         *)
(* Every method of the vault is a transaction of its own, so /connect      *)
(* stores a password and reads back whatever is stored by then; a session  *)
(* is put into the cache and taken out of it after an await.               *)
(***************************************************************************)
EXTENDS ServerRequests

CONSTANTS MaxStored, \* bound: passwords ever stored
          Adapters   \* bound: broker adapters ever created

ASSUME SessionsAssumption == MaxStored \in Nat \ {0} /\ Adapters \subseteq Nat \ {0}

StoredPasswords == 0..MaxStored \* in the order they were first stored; 0: none

VARIABLES vault,    \* the row of the account
          stored,   \* how many passwords were ever stored
          allowed,  \* the passwords that came with execution_enabled
          handedTo, \* the passwords that a worker or an adapter got
          adapter,  \* the broker adapters, created in the order of their numbers
          cached,   \* _sessions of the account; 0: none
          session   \* where each request is, and the password or adapter it goes on with

sessionVars == <<vault, stored, allowed, handedTo, adapter, cached, session>>

NoSession == [at |-> "idle", with |-> 0]

SessionsTypeOK ==
    /\ vault \in [password : StoredPasswords, enabled : BOOLEAN]
    /\ stored \in StoredPasswords
    /\ allowed \in SUBSET StoredPasswords
    /\ handedTo \in SUBSET StoredPasswords
    /\ adapter \in [Adapters -> {"none", "connecting", "connected", "closed"}]
    /\ cached \in Adapters \cup {0}
    /\ session \in [Requests -> [at : {"idle", "saved", "connecting", "disconnecting",
                                       "reconnecting", "reconnect"},
                                 with : StoredPasswords \cup Adapters]]

SessionsInit ==
    /\ vault = [password |-> 0, enabled |-> FALSE]
    /\ stored = 0
    /\ allowed = {}
    /\ handedTo = {}
    /\ adapter = [a \in Adapters |-> "none"]
    /\ cached = 0
    /\ session = [r \in Requests |-> NoSession]

-----------------------------------------------------------------------------
SessionGoes(r, at, with) == session' = [session EXCEPT ![r] = [at |-> at, with |-> with]]

\* save_credentials replaces the row of the credential id, which is the account id.
SaveCredentials(r, enabled) ==
    /\ Arrives("vault")
    /\ session[r].at = "idle"
    /\ stored < MaxStored
    /\ stored' = stored + 1
    /\ vault' = [password |-> stored', enabled |-> enabled]
    /\ allowed' = IF enabled THEN allowed \cup {stored'} ELSE allowed
    /\ SessionGoes(r, "saved", stored')
    /\ UNCHANGED <<handedTo, adapter, cached>>

\* Mutation: the passwords are shown whenever there are any.
ShowsAlways == vault.password # 0

\* _row_to_dict leaves the passwords out while execution is disabled.
ShowsSecrets == vault.password # 0 /\ vault.enabled

Handed == IF ShowsSecrets THEN handedTo \cup {vault.password} ELSE handedTo

\* /connect goes on with the login of the request and the password of the row, or answers 400.
PushCredentials(r) ==
    /\ session[r].at = "saved"
    /\ handedTo' = Handed
    /\ SessionGoes(r, "idle", 0)
    /\ UNCHANGED <<vault, stored, allowed, adapter, cached>>

\* rotate_credentials changes the password only.
RotateCredentials ==
    /\ Arrives("vault")
    /\ vault.password # 0 /\ stored < MaxStored
    /\ stored' = stored + 1
    /\ vault' = [vault EXCEPT !.password = stored']
    /\ allowed' = IF vault.enabled THEN allowed \cup {stored'} ELSE allowed
    /\ UNCHANGED <<handedTo, adapter, cached, session>>

DeleteCredentials ==
    /\ Arrives("vault")
    /\ vault.password # 0
    /\ vault' = [password |-> 0, enabled |-> FALSE]
    /\ UNCHANGED <<stored, allowed, handedTo, adapter, cached, session>>

\* connect_account up to the await of the adapter; an unknown or disabled account raises.
BeginConnect(r) ==
    \/ /\ ShowsSecrets
       /\ \E a \in Adapters :
             /\ \A b \in Adapters : (adapter[b] = "none") <=> (a <= b)
             /\ adapter' = [adapter EXCEPT ![a] = "connecting"]
             /\ SessionGoes(r, "connecting", a)
       /\ handedTo' = Handed
    \/ /\ ~ShowsSecrets
       /\ SessionGoes(r, "idle", 0)
       /\ UNCHANGED <<adapter, handedTo>>

ConnectAccount(r) ==
    /\ Arrives("session")
    /\ session[r].at = "idle"
    /\ BeginConnect(r)
    /\ UNCHANGED <<vault, stored, allowed, cached>>

\* The adapter answers or refuses; the last one to answer is the one in the cache.
EndConnect(r, connects) ==
    /\ session[r].at = "connecting"
    /\ LET a == session[r].with
       IN  /\ adapter' = [adapter EXCEPT ![a] = IF connects THEN "connected" ELSE "closed"]
           /\ cached' = IF connects THEN a ELSE cached
    /\ SessionGoes(r, "idle", 0)
    /\ UNCHANGED <<vault, stored, allowed, handedTo>>

\* disconnect_account, alone or as the first half of reconnect_account, awaits the adapter that
\* is in the cache, and then takes out whichever is.
BeginDisconnect(r, how) ==
    /\ Arrives("session")
    /\ session[r].at = "idle"
    /\ cached # 0
    /\ SessionGoes(r, how, cached)
    /\ UNCHANGED <<vault, stored, allowed, handedTo, adapter, cached>>

\* An adapter that says it did not disconnect stays in the cache; one that raises ends the request.
CloseAdapter(r, closes) ==
    /\ session[r].at \in {"disconnecting", "reconnecting"}
    /\ IF closes
         THEN /\ adapter' = [adapter EXCEPT ![session[r].with] = "closed"]
              /\ cached' = 0
         ELSE UNCHANGED <<adapter, cached>>
    /\ \/ ~closes /\ SessionGoes(r, "idle", 0)
       \/ SessionGoes(r, IF session[r].at = "reconnecting" THEN "reconnect" ELSE "idle", 0)
    /\ UNCHANGED <<vault, stored, allowed, handedTo>>

ConnectAgain(r) ==
    /\ session[r].at = "reconnect"
    /\ BeginConnect(r)
    /\ UNCHANGED <<vault, stored, allowed, cached>>

SessionsNext ==
    \/ RotateCredentials \/ DeleteCredentials
    \/ \E r \in Requests :
          \/ PushCredentials(r) \/ ConnectAccount(r) \/ ConnectAgain(r)
          \/ \E yes \in BOOLEAN :
                SaveCredentials(r, yes) \/ EndConnect(r, yes) \/ CloseAdapter(r, yes)
          \/ \E how \in {"disconnecting", "reconnecting"} : BeginDisconnect(r, how)

-----------------------------------------------------------------------------
\* A password that was stored with execution disabled goes to no worker and to no adapter,
\* whatever other requests store, rotate or delete in between
\* (credential_vault_service.py:125, trading_router.py:113-115).
DisabledSecretsStay == handedTo \subseteq allowed
=============================================================================
