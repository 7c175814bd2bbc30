------------------------------ MODULE ApiKeys -------------------------------
(***************************************************************************)
(* The API keys of one account and of the administrators (security.py,     *)
(* the key endpoints of admin_router.py, /mobile-key of portal_router.py,  *)
(* the bootstrap key of startup.py).                                       *)
(*                                                                         *)
(* issue_api_key and revoke_api_key are transactions of their own: what    *)
(* combines them may be interrupted between them.                          *)
(***************************************************************************)
EXTENDS ServerRequests

CONSTANT MaxKeys \* bound: keys ever issued

ASSUME KeysAssumption == MaxKeys \in Nat

KeyIds == 0..MaxKeys \* in the order of their insertion; key 0 is ADMIN_BOOTSTRAP_KEY

VARIABLES key,      \* the rows of api_keys
          issued,   \* how many keys were issued
          working,  \* where each request about keys is, and what it has read
          together, \* how many portal requests ever were between SELECT and INSERT
          up,       \* whether the last start of the server got through
          admitted  \* what the last request that showed a key was let in for

keyVars == <<key, issued, working, together, up, admitted>>

\* Who inserted a key and who revoked it.
Actors == {"operator", "portal", "rotation"}

Key == [by : Actors \cup {"absent"}, replaces : KeyIds, admin : BOOLEAN,
        revoked : Actors \cup {"no"}, expired : BOOLEAN, force : BOOLEAN]
NoKey == [by |-> "absent", replaces |-> 0, admin |-> FALSE,
          revoked |-> "no", expired |-> FALSE, force |-> FALSE]
BootstrapKey == [NoKey EXCEPT !.by = "operator", !.admin = TRUE]
NoWork == [at |-> "idle", key |-> 0, doomed |-> {}]
Nobody == [by |-> 0, account |-> "none"]

KeysTypeOK ==
    /\ key \in [KeyIds -> Key]
    /\ issued \in KeyIds
    /\ working \in [Requests -> [at : {"idle", "portal", "portal insert", "rotate",
                                       "rotate revoke", "force"},
                                 key : KeyIds, doomed : SUBSET KeyIds]]
    /\ together \in 0..Cardinality(Requests)
    /\ up \in BOOLEAN
    /\ admitted \in [by : KeyIds, account : {"none", "own", "other"}]

KeysInit ==
    /\ key \in { [k \in KeyIds |-> IF k = 0 THEN first ELSE NoKey] : first \in {NoKey, BootstrapKey} }
    /\ issued = 0
    /\ working = [r \in Requests |-> NoWork]
    /\ together = 0
    /\ up = TRUE
    /\ admitted = Nobody

-----------------------------------------------------------------------------
Exists(k) == key[k].by # "absent"

IsLive(k) == Exists(k) /\ key[k].revoked = "no"

Works(r, work) == working' = [working EXCEPT ![r] = work]

BeginsWork(kind, r, work) ==
    /\ Arrives(kind) /\ up
    /\ working[r].at = "idle"
    /\ Works(r, work)

\* A transaction that inserts a key: what it returns is shown once.
Inserts(row) ==
    /\ issued < MaxKeys
    /\ issued' = issued + 1
    /\ key' = [key EXCEPT ![issued'] = row]

Revokes(k, by) == [key[k] EXCEPT !.revoked = by]

\* An operator issues a key, or a subscription does when it is activated.
IssueKey(admin) ==
    /\ Arrives("issue") /\ up
    /\ Inserts([NoKey EXCEPT !.by = "operator", !.admin = admin])
    /\ UNCHANGED <<working, together, up, admitted>>

RevokeKey(k) ==
    /\ Arrives("revoke") /\ up
    /\ Exists(k)
    /\ key' = [key EXCEPT ![k] = Revokes(k, "operator")]
    /\ UNCHANGED <<issued, working, together, up, admitted>>

\* The key is not revoked when it is read; it may be when it is marked.
ForceRotate(r, k) ==
    /\ IsLive(k)
    /\ BeginsWork("force", r, [NoWork EXCEPT !.at = "force", !.key = k])
    /\ UNCHANGED <<key, issued, together, up, admitted>>

MarkForced(r) ==
    /\ working[r].at = "force"
    /\ key' = [key EXCEPT ![working[r].key].force = TRUE]
    /\ Works(r, NoWork)
    /\ UNCHANGED <<issued, together, up, admitted>>

\* A rotation reads the key, which may be revoked already, inserts its replacement
\* and then revokes it.
Rotate(r, k) ==
    /\ Exists(k)
    /\ BeginsWork("rotate", r, [NoWork EXCEPT !.at = "rotate", !.key = k])
    /\ UNCHANGED <<key, issued, together, up, admitted>>

InsertReplacement(r) ==
    LET old == working[r].key IN
    /\ working[r].at = "rotate"
    /\ Inserts([NoKey EXCEPT !.by = "rotation", !.replaces = old, !.admin = key[old].admin])
    /\ Works(r, [working[r] EXCEPT !.at = "rotate revoke"])
    /\ UNCHANGED <<together, up, admitted>>

\* Mutation: the old key is revoked before its replacement is inserted.
ReplacedBefore(r) == working[r].at = "rotate"

IsReplaced(r) == working[r].at = "rotate revoke"

RevokeReplaced(r) ==
    /\ IsReplaced(r)
    /\ key' = [key EXCEPT ![working[r].key] = Revokes(working[r].key, "rotation")]
    /\ Works(r, NoWork)
    /\ UNCHANGED <<issued, together, up, admitted>>

\* The portal reads the account's live keys, revokes them in one transaction and
\* inserts the new one in the next.
AskPortal(r) ==
    /\ BeginsWork("portal", r, [NoWork EXCEPT !.at = "portal",
                                    !.doomed = { k \in KeyIds : IsLive(k) /\ ~key[k].admin }])
    /\ together' = AtLeast(Cardinality({ q \in Requests :
                                  working'[q].at \in {"portal", "portal insert"} }), together)
    /\ UNCHANGED <<key, issued, up, admitted>>

RevokeEarlier(r) ==
    /\ working[r].at = "portal"
    /\ key' = [k \in KeyIds |-> IF k \in working[r].doomed THEN Revokes(k, "portal") ELSE key[k]]
    /\ Works(r, [working[r] EXCEPT !.at = "portal insert", !.doomed = {}])
    /\ UNCHANGED <<issued, together, up, admitted>>

InsertMobileKey(r) ==
    /\ working[r].at = "portal insert"
    /\ Inserts([NoKey EXCEPT !.by = "portal"])
    /\ Works(r, NoWork)
    /\ UNCHANGED <<together, up, admitted>>

\* The request dies where it is; what it committed stays.
KeyRequestFails(r) ==
    /\ working[r].at # "idle"
    /\ Works(r, NoWork)
    /\ UNCHANGED <<key, issued, together, up, admitted>>

-----------------------------------------------------------------------------
\* verify_api_key, then require_account_match for what is asked for.
Opens(k) == IsLive(k) /\ ~key[k].expired /\ ~key[k].force

MayAct(k, account) == key[k].admin \/ account = "own"

ShowKey(k, account) ==
    /\ Arrives("show") /\ up
    /\ admitted' = IF Opens(k) /\ MayAct(k, account) THEN [by |-> k, account |-> account] ELSE Nobody
    /\ UNCHANGED <<key, issued, working, together, up>>

KeyExpires(k) ==
    /\ Arrives("expire") /\ Exists(k) /\ k # 0
    /\ key' = [key EXCEPT ![k].expired = TRUE]
    /\ UNCHANGED <<issued, working, together, up, admitted>>

\* A start with ADMIN_BOOTSTRAP_KEY inserts the key or makes it valid again.
ServerStarts ==
    /\ Arrives("restart")
    /\ key' = [key EXCEPT ![0] = IF Exists(0) THEN [@ EXCEPT !.revoked = "no"] ELSE BootstrapKey]
    /\ working' = [r \in Requests |-> NoWork]
    /\ up' = TRUE
    /\ UNCHANGED <<issued, together, admitted>>

\* With FORCE_ADMIN_KEY_RESET it revokes the keys of the administrators and inserts the
\* bootstrap key; the unique hash refuses one that exists, and the start fails.
ServerResets ==
    /\ Arrives("restart")
    /\ key' = IF Exists(0) THEN key
              ELSE [k \in KeyIds |-> CASE k = 0 -> BootstrapKey
                                       [] k # 0 /\ key[k].admin -> Revokes(k, "operator")
                                       [] OTHER -> key[k]]
    /\ up' = ~Exists(0)
    /\ working' = [r \in Requests |-> NoWork]
    /\ UNCHANGED <<issued, together, admitted>>

KeysNext ==
    \/ \E admin \in BOOLEAN : IssueKey(admin)
    \/ \E k \in KeyIds :
          \/ RevokeKey(k) \/ KeyExpires(k) \/ \E account \in {"own", "other"} : ShowKey(k, account)
    \/ \E r \in Requests :
          \/ MarkForced(r) \/ InsertReplacement(r) \/ RevokeReplaced(r) \/ AskPortal(r)
          \/ RevokeEarlier(r) \/ InsertMobileKey(r) \/ KeyRequestFails(r)
          \/ \E k \in KeyIds : ForceRotate(r, k) \/ Rotate(r, k)
    \/ ServerStarts \/ ServerResets

-----------------------------------------------------------------------------
\* Only the latest key of the portal works; more than one does only as far as requests
\* overlapped.  And a rotation never takes a key without giving one: whatever fails,
\* a key revoked by a rotation has its replacement, issued after it.
KeysAreReplaced ==
    /\ Cardinality({ k \in KeyIds : key[k].by = "portal" /\ IsLive(k) }) <= AtLeast(together, 1)
    /\ \A k \in KeyIds : key[k].revoked = "rotation" =>
           \E n \in (k + 1)..MaxKeys : key[n].by = "rotation" /\ key[n].replaces = k
=============================================================================
