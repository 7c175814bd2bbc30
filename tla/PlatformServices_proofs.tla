----------------------- MODULE PlatformServices_proofs ----------------------
(***************************************************************************)
(* Proofs about the services around the trading core: passwords, keys and  *)
(* demos, routed pairs, rooms and reminders, frames, rules, engines and    *)
(* the short position, orders at the terminal, mirrored positions, slaves; *)
(* for any accounts, requests, days, tables, bars and interleavings.       *)
(***************************************************************************)
EXTENDS PlatformServices, SumFacts, FiniteSetTheorems, TLAPS

(* Who may come in: passwords, sessions and the second factor.             *)

UserRows == [password : Nat, secret : Nat, enabled : BOOLEAN, verified : SUBSET {"verify", "otp", "reset", "none"}]
Tasks == [at : Changing \cup {"idle"}, token : Tokens, seen : UserRows, doomed : SUBSET [id : Nat, under : Nat]]

IdentityOK ==
    /\ user \in UserRows
    /\ IsFiniteSet(sessions) /\ sessions \subseteq [id : Nat, under : Nat]
    /\ token \in [Tokens -> [purpose : {"none", "reset", "verify", "otp"},
                             status : {"open", "used", "expired"}]]
    /\ doing \in [Requests -> Tasks]
    /\ opened \in Nat /\ setups \in Nat /\ late \in Nat /\ crossed \in BOOLEAN

\* Nobody comes in before the user is there, and a user keeps having a password.
UserComesFirst ==
    /\ user # NoUser => user.password > 0
    /\ user = NoUser => /\ sessions = {}
                        /\ \A r \in Requests : doing[r].at \notin {"login", "setup", "enable", "disable"}

Outdated == { s \in sessions : s.under # user.password }

\* Besides the sessions of old passwords, those that a reset in progress has not seen are late.
Unseen(r) == Outdated \cup (sessions \ doing[r].doomed)

LateAreCounted ==
    /\ Cardinality(Outdated) <= late
    /\ \A r \in Requests : doing[r].at = "reset" => Cardinality(Unseen(r)) <= late

\* While requests about the second factor did not overlap, each of them knows the row.
FactorIsKnown ==
    /\ FactorIsConfirmed
    /\ \A r \in Requests :
          /\ doing[r].at = "enable" => doing[r].seen.secret \in confirmed
          /\ doing[r].at \in SecondFactor /\ ~crossed =>
                doing[r].seen.secret = user.secret /\ doing[r].seen.enabled = user.enabled

IdentityInv == IdentityOK /\ UserComesFirst /\ LateAreCounted /\ FactorIsKnown

\* A request that rests.
LEMMA NoTaskTyped == NoTask.at = "idle" /\ (Tokens # {} => NoTask \in Tasks)
  BY DEF NoTask, Tasks, NoUser, UserRows

\* The invariant holds at the start.
LEMMA InitIdentity == IdentityInit => IdentityInv
  <1> SUFFICES ASSUME IdentityInit PROVE IdentityInv
    OBVIOUS
  <1>1. NoUser \in UserRows
    BY DEF NoUser, UserRows
  <1>2. IdentityOK
    BY <1>1, NoTaskTyped, IdentityAssumption, FS_EmptySet DEF IdentityInit, IdentityOK, NoToken
  <1>3. \A r \in Requests : doing[r].at = "idle"
    BY NoTaskTyped DEF IdentityInit
  <1>4. UserComesFirst
    BY <1>3 DEF IdentityInit, UserComesFirst
  <1>5. Outdated = {}
    BY DEF Outdated, IdentityInit
  <1>6. LateAreCounted
    BY <1>3, <1>5, FS_EmptySet DEF LateAreCounted, IdentityInit
  <1>7. FactorIsKnown
    BY <1>3 DEF FactorIsKnown, FactorIsConfirmed, IdentityInit, NoUser, SecondFactor
  <1> QED BY <1>2, <1>4, <1>6, <1>7 DEF IdentityInv

-----------------------------------------------------------------------------
\* Counting: fewer members.
LEMMA Fewer ==
    ASSUME NEW S, IsFiniteSet(S), NEW T \in SUBSET S, NEW n \in Nat, Cardinality(S) <= n
    PROVE  IsFiniteSet(T) /\ Cardinality(T) \in Nat /\ Cardinality(T) <= n
  <1>1. IsFiniteSet(T) /\ Cardinality(T) <= Cardinality(S)
    BY FS_Subset
  <1>2. Cardinality(T) \in Nat /\ Cardinality(S) \in Nat
    BY <1>1, FS_CardinalityType
  <1> QED BY <1>1, <1>2

\* Counting: one member more.
LEMMA OneMore ==
    ASSUME NEW S, IsFiniteSet(S), NEW x, NEW n \in Nat, Cardinality(S) <= n
    PROVE  IsFiniteSet(S \cup {x}) /\ Cardinality(S \cup {x}) <= n + 1 /\ n + 1 \in Nat
  <1>1. Cardinality(S) \in Nat
    BY FS_CardinalityType
  <1>2. /\ IsFiniteSet(S \cup {x})
        /\ Cardinality(S \cup {x}) = IF x \in S THEN Cardinality(S) ELSE Cardinality(S) + 1
    BY FS_AddElement
  <1> QED BY <1>1, <1>2

\* The sessions are finitely many.
LEMMA SessionsAreFinite ==
    ASSUME IdentityOK
    PROVE  IsFiniteSet(Outdated) /\ \A r : IsFiniteSet(Unseen(r))
  <1>1. Outdated \in SUBSET sessions /\ \A r : Unseen(r) \in SUBSET sessions
    BY DEF Outdated, Unseen
  <1> QED BY <1>1, FS_Subset DEF IdentityOK

\* Fewer sessions under the same password, and no reset that has seen less.
LEMMA LeavesLate ==
    ASSUME IdentityInv, sessions' \subseteq sessions, user'.password = user.password, late' = late,
           \A r \in Requests : doing'[r].at = "reset" =>
               \/ sessions' \subseteq doing'[r].doomed
               \/ doing[r].at = "reset" /\ doing'[r].doomed = doing[r].doomed
    PROVE  LateAreCounted'
  <1>1. late \in Nat /\ IsFiniteSet(Outdated) /\ Cardinality(Outdated) <= late /\ \A r : IsFiniteSet(Unseen(r))
    BY SessionsAreFinite DEF IdentityInv, IdentityOK, LateAreCounted
  <1>2. Outdated' \in SUBSET Outdated
    BY DEF Outdated
  <1>3. Cardinality(Outdated') <= late'
    BY <1>1, <1>2, Fewer
  <1>4. ASSUME NEW r \in Requests, doing'[r].at = "reset"
        PROVE  Cardinality(Unseen(r)') <= late'
    <2>1. CASE sessions' \subseteq doing'[r].doomed
      <3>1. Unseen(r)' \in SUBSET Outdated
        BY <1>2, <2>1 DEF Unseen
      <3> QED BY <1>1, <3>1, Fewer
    <2>2. CASE doing[r].at = "reset" /\ doing'[r].doomed = doing[r].doomed
      <3>1. Unseen(r)' \in SUBSET Unseen(r)
        BY <1>2, <2>2 DEF Unseen
      <3>2. Cardinality(Unseen(r)) <= late
        BY <2>2 DEF IdentityInv, LateAreCounted
      <3> QED BY <1>1, <3>1, <3>2, Fewer
    <2> QED BY <1>4, <2>1, <2>2
  <1> QED BY <1>3, <1>4 DEF LateAreCounted

\* A request begins with what it has read.
LEMMA ReadsKeeps ==
    ASSUME IdentityInv, NEW r \in Requests, NEW at \in Changing \ {"reset"}, NEW k \in Tokens, Reads(r, at, k),
           user = NoUser => at \notin {"login", "setup", "enable", "disable"},
           at = "enable" => user.secret \in confirmed',
           confirmed \subseteq confirmed',
           UNCHANGED <<user, sessions, token, opened, setups, late, crossed>>
    PROVE  IdentityInv'
  <1> DEFINE task == [at |-> at, token |-> k, seen |-> user, doomed |-> {}]
  <1>1. doing' = [doing EXCEPT ![r] = task] /\ doing[r].at = "idle"
    BY DEF Reads
  <1>2. task \in Tasks
    BY DEF Tasks, IdentityInv, IdentityOK
  <1>3. \A q \in Requests : doing'[q] = IF q = r THEN task ELSE doing[q]
    BY <1>1 DEF IdentityInv, IdentityOK
  <1>4. IdentityOK'
    BY <1>1, <1>2 DEF IdentityInv, IdentityOK
  <1>5. UserComesFirst'
    BY <1>3 DEF IdentityInv, UserComesFirst
  <1>6. LateAreCounted'
    BY <1>3, LeavesLate
  <1>7. FactorIsKnown'
    BY <1>3 DEF IdentityInv, FactorIsKnown, FactorIsConfirmed
  <1> QED BY <1>4, <1>5, <1>6, <1>7 DEF IdentityInv

\* A request ends, or the administration of tokens goes on, without a word about sessions
\* and the second factor.
LEMMA QuietKeeps ==
    ASSUME IdentityInv, IdentityOK',
           \A r \in Requests : doing'[r] = doing[r] \/ doing'[r].at = "idle",
           user = NoUser => user' = NoUser \/ user'.password > 0,
           user # NoUser => user'.password = user.password,
           user'.secret = user.secret, user'.enabled = user.enabled,
           sessions' \subseteq sessions, confirmed' = confirmed, late' = late, crossed' = crossed
    PROVE  IdentityInv'
  <1>1. UserComesFirst'
    BY DEF IdentityInv, UserComesFirst, IdentityOK, UserRows, NoUser
  <1>2. CASE user'.password = user.password
    <2>1. LateAreCounted'
      BY <1>2, LeavesLate
    <2>2. FactorIsKnown'
      BY DEF IdentityInv, FactorIsKnown, FactorIsConfirmed, SecondFactor
    <2> QED BY <1>1, <2>1, <2>2 DEF IdentityInv
  <1>3. CASE user'.password # user.password
    <2>1. sessions = {} /\ sessions' = {}
      BY <1>3 DEF IdentityInv, UserComesFirst
    <2>2. Outdated' = {} /\ \A r : Unseen(r)' = {}
      BY <2>1 DEF Outdated, Unseen
    <2>3. Cardinality(Outdated') = 0 /\ \A r : Cardinality(Unseen(r)') = 0
      BY <2>2, FS_EmptySet
    <2>5. late' \in Nat
      BY DEF IdentityInv, IdentityOK
    <2>6. LateAreCounted'
      BY <2>3, <2>5 DEF LateAreCounted
    <2>4. FactorIsKnown'
      BY DEF IdentityInv, FactorIsKnown, FactorIsConfirmed, SecondFactor
    <2> QED BY <1>1, <2>4, <2>6 DEF IdentityInv
  <1> QED BY <1>2, <1>3

\* An ended request is a typed one.
LEMMA EndsTyped ==
    ASSUME IdentityOK, NEW r \in Requests, Ends(r)
    PROVE  /\ doing' \in [Requests -> Tasks]
           /\ \A q \in Requests : doing'[q] = IF q = r THEN NoTask ELSE doing[q]
           /\ NoTask.at = "idle"
  BY NoTaskTyped, IdentityAssumption DEF IdentityOK, Ends

-----------------------------------------------------------------------------
\* A login commits its session, with the password it has read.
LEMMA CommitSessionKeeps ==
    ASSUME IdentityInv, NEW r \in Requests, CommitSession(r) PROVE IdentityInv'
  <1> DEFINE new == [id |-> opened', under |-> doing[r].seen.password]
  <1>1. /\ doing[r].at = "login" /\ opened' = opened + 1 /\ sessions' = sessions \cup {new}
        /\ late' = IF Doing("reset") # {} \/ doing[r].seen.password # user.password THEN late + 1 ELSE late
        /\ Ends(r) /\ UNCHANGED <<user, token, setups, confirmed, crossed>>
    BY DEF CommitSession
  <1>2. /\ doing' \in [Requests -> Tasks]
        /\ \A q \in Requests : doing'[q] = IF q = r THEN NoTask ELSE doing[q]
        /\ NoTask.at = "idle"
    BY <1>1, EndsTyped DEF IdentityInv
  <1>3. /\ late \in Nat /\ opened \in Nat /\ doing[r].seen.password \in Nat /\ IsFiniteSet(sessions)
        /\ sessions \subseteq [id : Nat, under : Nat]
    BY DEF IdentityInv, IdentityOK, Tasks, UserRows
  <1>4. new \in [id : Nat, under : Nat]
    BY <1>1, <1>3
  <1>5. late' \in Nat /\ late <= late'
    BY <1>1, <1>3
  <1>6. IdentityOK'
    <2>1. IsFiniteSet(sessions')
      BY <1>1, <1>3, FS_AddElement
    <2>2. sessions' \subseteq [id : Nat, under : Nat] /\ opened' \in Nat
      BY <1>1, <1>3, <1>4
    <2> QED BY <1>1, <1>2, <1>5, <2>1, <2>2 DEF IdentityInv, IdentityOK
  <1>7. user # NoUser
    BY <1>1 DEF IdentityInv, UserComesFirst
  <1>8. UserComesFirst'
    BY <1>1, <1>7 DEF IdentityInv, UserComesFirst
  <1>9. FactorIsKnown'
    BY <1>1, <1>2 DEF IdentityInv, FactorIsKnown, FactorIsConfirmed, SecondFactor
  <1>10. IsFiniteSet(Outdated) /\ Cardinality(Outdated) <= late
    BY SessionsAreFinite DEF IdentityInv, LateAreCounted
  <1> HIDE DEF new
  <1>11. Cardinality(Outdated') <= late'
    <2>1. CASE late' = late + 1
      <3>1. Outdated' \in SUBSET (Outdated \cup {new})
        BY <1>1 DEF Outdated
      <3>2. Cardinality(Outdated \cup {new}) <= late + 1 /\ IsFiniteSet(Outdated \cup {new}) /\ late + 1 \in Nat
        BY <1>3, <1>10, OneMore
      <3> QED BY <2>1, <3>1, <3>2, Fewer
    <2>2. CASE ~(late' = late + 1)
      <3>1. doing[r].seen.password = user.password /\ late' = late
        BY <1>1, <2>2
      <3>2. new.under = user.password
        BY <3>1 DEF new
      <3>3. Outdated' = Outdated
        BY <1>1, <3>2 DEF Outdated
      <3> QED BY <1>10, <3>1, <3>3
    <2> QED BY <2>1, <2>2
  <1>12. ASSUME NEW q \in Requests, doing'[q].at = "reset" PROVE Cardinality(Unseen(q)') <= late'
    <2>1. q # r /\ doing'[q] = doing[q] /\ doing[q].at = "reset"
      BY <1>2, <1>12
    <2>2. late' = late + 1
      BY <1>1, <2>1 DEF Doing
    <2>3. IsFiniteSet(Unseen(q)) /\ Cardinality(Unseen(q)) <= late
      BY <2>1, SessionsAreFinite DEF IdentityInv, LateAreCounted
    <2>4. Unseen(q)' \in SUBSET (Unseen(q) \cup {new})
      BY <1>1, <2>1 DEF Unseen, Outdated
    <2>5. Cardinality(Unseen(q) \cup {new}) <= late + 1 /\ IsFiniteSet(Unseen(q) \cup {new}) /\ late + 1 \in Nat
      BY <1>3, <2>3, OneMore
    <2> QED BY <2>2, <2>4, <2>5, Fewer
  <1>13. LateAreCounted'
    BY <1>11, <1>12 DEF LateAreCounted
  <1> QED BY <1>6, <1>8, <1>9, <1>13 DEF IdentityInv

\* A change of the password reads the sessions that it will delete.
LEMMA ReadSessionsKeeps ==
    ASSUME IdentityInv, NEW r \in Requests, ReadSessions(r) PROVE IdentityInv'
  <1> DEFINE task == [doing[r] EXCEPT !.at = "reset", !.doomed = sessions]
  <1>1. /\ doing \in [Requests -> Tasks] /\ doing[r].at = "find" /\ sessions \subseteq [id : Nat, under : Nat]
        /\ UNCHANGED <<user, sessions, token, opened, setups, confirmed, late, crossed>>
    BY DEF IdentityInv, IdentityOK, ReadSessions
  <1>2. task \in Tasks /\ task.at = "reset" /\ task.doomed = sessions
    BY <1>1 DEF Tasks, Changing
  <1>3. doing' = [doing EXCEPT ![r] = task]
    BY <1>1 DEF ReadSessions, Doomed, Tasks
  <1> HIDE DEF task
  <1>4. doing' \in [Requests -> Tasks] /\ \A q \in Requests : doing'[q] = IF q = r THEN task ELSE doing[q]
    BY <1>1, <1>2, <1>3
  <1>5. IdentityOK'
    BY <1>1, <1>4 DEF IdentityInv, IdentityOK
  <1>6. UserComesFirst' /\ FactorIsKnown'
    BY <1>1, <1>2, <1>4 DEF IdentityInv, UserComesFirst, FactorIsKnown, FactorIsConfirmed, SecondFactor
  <1>7. LateAreCounted'
    BY <1>1, <1>2, <1>4, LeavesLate
  <1> QED BY <1>5, <1>6, <1>7 DEF IdentityInv

\* A reset commits; sessions it has not seen were opened meanwhile and are counted.
LEMMA CommitResetKeeps ==
    ASSUME IdentityInv, NEW r \in Requests, CommitReset(r) PROVE IdentityInv'
  <1>1. /\ doing[r].at = "reset" /\ user' = [user EXCEPT !.password = @ + 1]
        /\ token' = [token EXCEPT ![doing[r].token].status = "used"]
        /\ sessions' = sessions \ doing[r].doomed
        /\ Ends(r) /\ UNCHANGED <<opened, setups, confirmed, late, crossed>>
    BY DEF CommitReset
  <1>2. /\ doing' \in [Requests -> Tasks]
        /\ \A q \in Requests : doing'[q] = IF q = r THEN NoTask ELSE doing[q]
        /\ NoTask.at = "idle"
    BY <1>1, EndsTyped DEF IdentityInv
  <1>3. /\ user \in UserRows /\ user' \in UserRows /\ user'.password > 0
        /\ user'.secret = user.secret /\ user'.enabled = user.enabled
    BY <1>1 DEF IdentityInv, IdentityOK, UserRows
  <1>4. IsFiniteSet(Unseen(r)) /\ Cardinality(Unseen(r)) <= late /\ late \in Nat
    BY <1>1, SessionsAreFinite DEF IdentityInv, LateAreCounted, IdentityOK
  <1>5. sessions' \in SUBSET Unseen(r) /\ sessions' \in SUBSET sessions
    BY <1>1 DEF Unseen
  <1>6. IdentityOK'
    <2>1. IsFiniteSet(sessions')
      BY <1>5, FS_Subset DEF IdentityInv, IdentityOK
    <2>2. token' \in [Tokens -> [purpose : {"none", "reset", "verify", "otp"}, status : {"open", "used", "expired"}]]
      BY <1>1 DEF IdentityInv, IdentityOK
    <2> QED BY <1>1, <1>2, <1>3, <1>5, <2>1, <2>2 DEF IdentityInv, IdentityOK
  <1>7. UserComesFirst'
    BY <1>3 DEF UserComesFirst, NoUser
  <1>8. FactorIsKnown'
    BY <1>1, <1>2, <1>3 DEF IdentityInv, FactorIsKnown, FactorIsConfirmed, SecondFactor
  <1>9. Outdated' \in SUBSET Unseen(r) /\ \A q : Unseen(q)' \in SUBSET Unseen(r)
    <2>1. Outdated' \subseteq sessions' /\ \A q : Unseen(q)' \subseteq sessions'
      BY DEF Outdated, Unseen
    <2> QED BY <1>5, <2>1
  <1>10. Cardinality(Outdated') <= late
    BY <1>4, <1>9, Fewer
  <1>11. ASSUME NEW q PROVE Cardinality(Unseen(q)') <= late
    BY <1>4, <1>9, Fewer
  <1>12. LateAreCounted'
    BY <1>1, <1>10, <1>11 DEF LateAreCounted
  <1> QED BY <1>6, <1>7, <1>8, <1>12 DEF IdentityInv

\* A request commits what it makes of the second factor.
LEMMA CommitFactorKeeps ==
    ASSUME IdentityInv, NEW r \in Requests, CommitFactor(r) PROVE IdentityInv'
  <1> DEFINE seen == doing[r].seen
  <1>1. /\ doing[r].at \in SecondFactor
        /\ setups' = IF doing[r].at = "setup" THEN setups + 1 ELSE setups
        /\ user' = [user EXCEPT
                      !.enabled = Written(user.enabled, seen.enabled, doing[r].at \in SwitchOn),
                      !.secret = CASE doing[r].at = "setup"   -> setups'
                                   [] doing[r].at = "disable" -> Written(user.secret, seen.secret, 0)
                                   [] OTHER -> user.secret]
        /\ crossed' = (crossed \/ \E at \in SecondFactor : Doing(at) \ {r} # {})
        /\ Ends(r) /\ UNCHANGED <<sessions, token, opened, confirmed, late>>
    BY DEF CommitFactor
  <1>2. /\ doing' \in [Requests -> Tasks]
        /\ \A q \in Requests : doing'[q] = IF q = r THEN NoTask ELSE doing[q]
        /\ NoTask.at = "idle"
    BY <1>1, EndsTyped DEF IdentityInv
  <1>3. user \in UserRows /\ seen \in UserRows /\ setups \in Nat /\ setups' \in Nat
    BY <1>1 DEF IdentityInv, IdentityOK, Tasks
  <1>4. Written(user.enabled, seen.enabled, doing[r].at \in SwitchOn) \in BOOLEAN
    <2>1. user.enabled \in BOOLEAN /\ (doing[r].at \in SwitchOn) \in BOOLEAN
      BY <1>3 DEF UserRows
    <2>2. \A a, b, c : a \in BOOLEAN /\ c \in BOOLEAN => Written(a, b, c) \in BOOLEAN
      BY DEF Written
    <2> QED BY <2>1, <2>2
  <1>5. Written(user.secret, seen.secret, 0) \in Nat /\ user.secret \in Nat
    BY <1>3 DEF Written, UserRows
  <1>6. /\ user' \in UserRows /\ user'.password = user.password
        /\ user'.enabled = Written(user.enabled, seen.enabled, doing[r].at \in SwitchOn)
        /\ doing[r].at = "enable" => user'.secret = user.secret
    BY <1>1, <1>3, <1>4, <1>5 DEF UserRows
  <1>7. crossed' \in BOOLEAN
    BY <1>1 DEF IdentityInv, IdentityOK
  <1>8. IdentityOK'
    BY <1>1, <1>2, <1>3, <1>6, <1>7 DEF IdentityInv, IdentityOK
  <1>9. UserComesFirst'
    <2>1. user # NoUser
      BY <1>1 DEF IdentityInv, UserComesFirst, SecondFactor
    <2>2. user'.password > 0
      BY <1>6, <2>1 DEF IdentityInv, UserComesFirst
    <2>3. NoUser.password = 0
      BY DEF NoUser
    <2>4. user' # NoUser
      BY <2>2, <2>3
    <2> QED BY <2>2, <2>4 DEF UserComesFirst
  <1>10. LateAreCounted'
    BY <1>1, <1>2, <1>6, LeavesLate
  <1>11. ASSUME NEW q \in Requests, doing'[q].at \in SecondFactor
         PROVE  /\ crossed' = TRUE
                /\ doing'[q] = doing[q]
    <2>1. q # r /\ doing'[q] = doing[q]
      BY <1>2, <1>11 DEF SecondFactor
    <2>2. q \in Doing(doing[q].at) \ {r} /\ doing[q].at \in SecondFactor
      BY <1>11, <2>1 DEF Doing
    <2>3. \E at \in SecondFactor : Doing(at) \ {r} # {}
      BY <2>2
    <2> QED BY <1>1, <2>1, <2>3
  <1>12. FactorIsConfirmed'
    <2> SUFFICES ASSUME user'.enabled, ~crossed' PROVE user'.secret \in confirmed
      BY <1>1 DEF FactorIsConfirmed
    <2>1. ~crossed
      BY <1>1
    <2>2. seen.secret = user.secret /\ seen.enabled = user.enabled
      BY <1>1, <2>1 DEF IdentityInv, FactorIsKnown
    <2>3. CASE doing[r].at = "enable"
      <3>1. seen.secret \in confirmed
        BY <2>3 DEF IdentityInv, FactorIsKnown
      <3> QED BY <1>6, <2>2, <2>3, <3>1
    <2>4. CASE doing[r].at # "enable"
      <3>1. (doing[r].at \in SwitchOn) = FALSE
        BY <2>4 DEF SwitchOn
      <3>2. user'.enabled = FALSE
        BY <1>3, <1>6, <2>2, <3>1 DEF Written, UserRows
      <3> QED BY <3>2
    <2> QED BY <2>3, <2>4
  <1>13. FactorIsKnown'
    <2>1. \A q \in Requests : doing'[q].at = "enable" => doing'[q].seen.secret \in confirmed
      BY <1>11 DEF IdentityInv, FactorIsKnown, SecondFactor
    <2> QED BY <1>1, <1>11, <1>12, <2>1 DEF FactorIsKnown
  <1> QED BY <1>8, <1>9, <1>10, <1>13 DEF IdentityInv

\* Every step keeps it.
LEMMA NextIdentity == IdentityInv /\ [IdentityNext]_userVars => IdentityInv'
  <1> SUFFICES ASSUME IdentityInv, [IdentityNext]_userVars PROVE IdentityInv'
    OBVIOUS
  <1>0. IdentityOK /\ \A r \in Requests : doing[r].token \in Tokens
    BY DEF IdentityInv, IdentityOK, Tasks
  <1>1. ASSUME NEW r \in Requests, RequestFails(r) PROVE IdentityInv'
    <2>1. /\ doing' \in [Requests -> Tasks]
          /\ \A q \in Requests : doing'[q] = IF q = r THEN NoTask ELSE doing[q]
          /\ NoTask.at = "idle"
      BY <1>0, <1>1, EndsTyped DEF RequestFails
    <2>2. IdentityOK'
      BY <1>0, <1>1, <2>1 DEF IdentityOK, RequestFails
    <2> QED BY <1>1, <2>1, <2>2, QuietKeeps DEF RequestFails
  <1>2. ASSUME NEW r \in Requests, CommitUser(r) PROVE IdentityInv'
    <2>1. /\ doing' \in [Requests -> Tasks]
          /\ \A q \in Requests : doing'[q] = IF q = r THEN NoTask ELSE doing[q]
          /\ NoTask.at = "idle"
      BY <1>0, <1>2, EndsTyped DEF CommitUser
    <2>2. CASE UNCHANGED <<user, token>>
      <3>1. IdentityOK'
        BY <1>0, <1>2, <2>1, <2>2 DEF IdentityOK, CommitUser
      <3> QED BY <1>2, <2>1, <2>2, <3>1, QuietKeeps DEF CommitUser
    <2>3. CASE /\ user = NoUser /\ user' = [NoUser EXCEPT !.password = 1]
               /\ token' = [token EXCEPT ![doing[r].token].purpose = "verify"]
      <3>1. user' \in UserRows /\ user'.password = 1 /\ user'.secret = user.secret /\ user'.enabled = user.enabled
        BY <2>3 DEF NoUser, UserRows
      <3>2. IdentityOK'
        BY <1>0, <1>2, <2>1, <2>3, <3>1 DEF IdentityOK, CommitUser
      <3> QED BY <1>2, <2>1, <2>3, <3>1, <3>2, QuietKeeps DEF CommitUser
    <2> QED BY <1>2, <2>2, <2>3 DEF CommitUser
  <1>3. ASSUME NEW r \in Requests, CommitRedeem(r) PROVE IdentityInv'
    <2> DEFINE k == doing[r].token
    <2>1. /\ doing' \in [Requests -> Tasks]
          /\ \A q \in Requests : doing'[q] = IF q = r THEN NoTask ELSE doing[q]
          /\ NoTask.at = "idle"
      BY <1>0, <1>3, EndsTyped DEF CommitRedeem
    <2>2. /\ token' = [token EXCEPT ![k].status = "used"]
          /\ user' = IF user = NoUser THEN user ELSE [user EXCEPT !.verified = @ \cup {token[k].purpose}]
          /\ UNCHANGED <<sessions, opened, setups, confirmed, late, crossed>>
      BY <1>3 DEF CommitRedeem
    <2>3. user \in UserRows /\ token[k].purpose \in {"none", "reset", "verify", "otp"}
      BY <1>0 DEF IdentityOK
    <2>4. user.verified \cup {token[k].purpose} \subseteq {"verify", "otp", "reset", "none"}
      BY <2>3 DEF UserRows
    <2>5. /\ user' \in UserRows /\ user'.password = user.password
          /\ user'.secret = user.secret /\ user'.enabled = user.enabled
          /\ user = NoUser => user' = NoUser
      BY <2>2, <2>3, <2>4 DEF UserRows
    <2>6. IdentityOK'
      BY <1>0, <2>1, <2>2, <2>5 DEF IdentityOK
    <2> QED BY <2>1, <2>2, <2>5, <2>6, QuietKeeps
  <1>4. ASSUME NEW r \in Requests, CommitLogout(r) PROVE IdentityInv'
    <2>1. /\ doing' \in [Requests -> Tasks]
          /\ \A q \in Requests : doing'[q] = IF q = r THEN NoTask ELSE doing[q]
          /\ NoTask.at = "idle"
      BY <1>0, <1>4, EndsTyped DEF CommitLogout
    <2>2. sessions' \in SUBSET sessions
      BY <1>4 DEF CommitLogout
    <2>3. IsFiniteSet(sessions')
      BY <1>0, <2>2, FS_Subset DEF IdentityOK
    <2>4. IdentityOK'
      BY <1>0, <1>4, <2>1, <2>2, <2>3 DEF IdentityOK, CommitLogout
    <2> QED BY <1>4, <2>1, <2>2, <2>4, QuietKeeps DEF CommitLogout
  <1>5. ASSUME NEW s \in sessions, Logout(s) PROVE IdentityInv'
    <2>1. sessions' \in SUBSET sessions
      BY <1>5 DEF Logout
    <2>2. IsFiniteSet(sessions')
      BY <1>0, <2>1, FS_Subset DEF IdentityOK
    <2>3. IdentityOK'
      BY <1>0, <1>5, <2>1, <2>2 DEF IdentityOK, Logout
    <2> QED BY <1>5, <2>1, <2>3, QuietKeeps DEF Logout
  <1>6. ASSUME NEW k \in Tokens, TokenRunsOut(k) \/ \E p \in {"reset", "otp"} : IssueToken(k, p) PROVE IdentityInv'
    <2>1. IdentityOK'
      BY <1>0, <1>6 DEF IdentityOK, TokenRunsOut, IssueToken
    <2> QED BY <1>6, <2>1, QuietKeeps DEF TokenRunsOut, IssueToken
  <1>7. ASSUME NEW r \in Requests, LogoutAll(r) PROVE IdentityInv'
    <2> DEFINE task == [doing[r] EXCEPT !.at = "logout", !.doomed = sessions]
    <2>1. /\ doing \in [Requests -> Tasks] /\ sessions \subseteq [id : Nat, under : Nat]
          /\ doing' = [doing EXCEPT ![r] = task]
          /\ UNCHANGED <<user, sessions, token, opened, setups, confirmed, late, crossed>>
      BY <1>0, <1>7 DEF IdentityOK, LogoutAll, Doomed
    <2>2. task \in Tasks /\ task.at = "logout"
      BY <2>1 DEF Tasks, Changing
    <2> HIDE DEF task
    <2>3. doing' \in [Requests -> Tasks] /\ \A q \in Requests : doing'[q] = IF q = r THEN task ELSE doing[q]
      BY <2>1, <2>2
    <2>4. IdentityOK'
      BY <1>0, <2>1, <2>3 DEF IdentityOK
    <2>5. UserComesFirst' /\ FactorIsKnown'
      BY <2>1, <2>2, <2>3 DEF IdentityInv, UserComesFirst, FactorIsKnown, FactorIsConfirmed, SecondFactor
    <2>6. LateAreCounted'
      BY <2>1, <2>2, <2>3, LeavesLate
    <2> QED BY <2>4, <2>5, <2>6 DEF IdentityInv
  <1>8. ASSUME NEW r \in Requests, Login(r) PROVE IdentityInv'
    <2>1. "login" \in Changing \ {"reset"}
      BY DEF Changing
    <2> QED BY <1>0, <1>8, <2>1, ReadsKeeps DEF Login
  <1>9. user = NoUser => sessions = {}
    BY DEF IdentityInv, UserComesFirst
  <1>10. ASSUME NEW r \in Requests, SetUp(r) PROVE IdentityInv'
    <2>1. "setup" \in Changing \ {"reset"}
      BY DEF Changing, SecondFactor
    <2> QED BY <1>0, <1>9, <1>10, <2>1, ReadsKeeps DEF SetUp
  <1>11. ASSUME NEW r \in Requests, Enable(r) PROVE IdentityInv'
    <2>1. "enable" \in Changing \ {"reset"}
      BY DEF Changing, SecondFactor
    <2> QED BY <1>0, <1>9, <1>11, <2>1, ReadsKeeps DEF Enable
  <1>12. ASSUME NEW r \in Requests, Disable(r) PROVE IdentityInv'
    <2>1. "disable" \in Changing \ {"reset"}
      BY DEF Changing, SecondFactor
    <2> QED BY <1>0, <1>9, <1>12, <2>1, ReadsKeeps DEF Disable
  <1>13. ASSUME NEW r \in Requests, NEW k \in Tokens, Register(r, k) PROVE IdentityInv'
    <2>1. "register" \in Changing \ {"reset"}
      BY DEF Changing
    <2> QED BY <1>13, <2>1, ReadsKeeps DEF Register
  <1>14. ASSUME NEW r \in Requests, NEW k \in Tokens, FindReset(r, k) PROVE IdentityInv'
    <2>1. "find" \in Changing \ {"reset"}
      BY DEF Changing
    <2> QED BY <1>14, <2>1, ReadsKeeps DEF FindReset
  <1>15. ASSUME NEW r \in Requests, NEW k \in Tokens, Redeem(r, k) PROVE IdentityInv'
    <2>1. "redeem" \in Changing \ {"reset"}
      BY DEF Changing
    <2> QED BY <1>15, <2>1, ReadsKeeps DEF Redeem
  <1>16. CASE UNCHANGED userVars
    <2>1. IdentityOK'
      BY <1>0, <1>16 DEF IdentityOK, userVars
    <2> QED BY <1>16, <2>1, QuietKeeps DEF userVars
  <1> QED BY <1>1, <1>2, <1>3, <1>4, <1>5, <1>6, <1>7, <1>8, <1>10, <1>11, <1>12, <1>13, <1>14, <1>15,
             <1>16, CommitSessionKeeps, ReadSessionsKeeps, CommitResetKeeps, CommitFactorKeeps DEF IdentityNext

\* What is promised follows.
LEMMA IdentityKept == IdentityInv => OldPasswordsEnd /\ FactorIsConfirmed
  BY DEF IdentityInv, LateAreCounted, FactorIsKnown, OldPasswordsEnd, Outdated

-----------------------------------------------------------------------------
(* The keys of the API.                                                    *)

KeyRow == [by : {"operator", "portal", "rotation", "absent"}, replaces : Nat, admin : BOOLEAN,
           revoked : {"operator", "portal", "rotation", "no"}, expired : BOOLEAN, force : BOOLEAN]
KeyWork == [at : {"idle", "portal", "portal insert", "rotate", "rotate revoke", "force"},
            key : KeyIds, doomed : SUBSET KeyIds]

\* Rows follow the order of insertion; the portal never makes an administrator.
KeyRowsOK ==
    /\ key \in [KeyIds -> KeyRow] /\ issued \in KeyIds
    /\ \A k \in KeyIds : k > issued => key[k].by = "absent"
    /\ \A k \in KeyIds : key[k].by = "portal" => ~key[k].admin
    /\ key[0].by \in {"operator", "absent"}

\* Portal requests that have read, and those that have revoked what they had read.
ReadingKeys == { r \in Requests : working[r].at = "portal" }
Placing == { r \in Requests : working[r].at = "portal insert" }
Between == ReadingKeys \cup Placing

\* Requests work on keys that were issued.
KeysAreThere == \A r \in Requests : working[r].key <= issued

KeyWorkOK ==
    /\ working \in [Requests -> KeyWork]
    /\ KeysAreThere
    /\ together \in Nat
    /\ IsFiniteSet(Between) /\ Cardinality(Between) <= together

\* Among the rows there is one that a rotation has put in the place of k.
Given(rows, k) == \E n \in (k + 1)..MaxKeys : rows[n].by = "rotation" /\ rows[n].replaces = k

RotationsGive ==
    /\ \A k \in KeyIds : key[k].revoked = "rotation" => Given(key, k)
    /\ \A r \in Requests : working[r].at = "rotate revoke" => Given(key, working[r].key)

PortalKeys == { k \in KeyIds : key[k].by = "portal" /\ IsLive(k) }
ToRevoke(C) == UNION { working[r].doomed : r \in C }
Overlaps == AtLeast(together, 1)
Spared(C) == Cardinality(PortalKeys \ ToRevoke(C))

\* Whichever of the pending requests commit next, the keys they leave and the keys that
\* are to be inserted are no more than the requests that overlapped.
KeysHaveRoom ==
    \A C \in SUBSET ReadingKeys :
        Spared(C) + Cardinality(Placing) + Cardinality(C) <= Overlaps

KeysInv == KeyRowsOK /\ KeyWorkOK /\ RotationsGive /\ KeysHaveRoom

-----------------------------------------------------------------------------
\* Keys are numbered, and finitely many.
LEMMA KeyIdsAre ==
    /\ 0 \in KeyIds /\ \A k \in KeyIds : k \in Nat /\ 0 <= k /\ k <= MaxKeys
    /\ IsFiniteSet(KeyIds) /\ \A S \in SUBSET KeyIds : IsFiniteSet(S) /\ Cardinality(S) \in Nat
  <1>1. 0 \in Int /\ MaxKeys \in Int /\ MaxKeys \in Nat
    BY KeysAssumption
  <1>2. IsFiniteSet(0..MaxKeys)
    BY <1>1, FS_Interval
  <1>3. \A S \in SUBSET (0..MaxKeys) : IsFiniteSet(S) /\ Cardinality(S) \in Nat
    BY <1>2, FS_Subset, FS_CardinalityType
  <1> QED BY <1>1, <1>2, <1>3 DEF KeyIds

\* A request that rests works on no key.
LEMMA NoWorkIs == NoWork \in KeyWork /\ NoWork.at = "idle" /\ NoWork.key = 0
  BY KeyIdsAre DEF NoWork, KeyWork

\* A key that was not issued.
LEMMA NoKeyIs == NoKey \in KeyRow /\ NoKey.by = "absent" /\ NoKey.revoked = "no" /\ NoKey.admin = FALSE
  BY DEF NoKey, KeyRow

\* The key of the first start is the operator's.
LEMMA BootstrapIs == BootstrapKey \in KeyRow /\ BootstrapKey.by = "operator" /\ BootstrapKey.revoked = "no"
  BY DEF BootstrapKey, NoKey, KeyRow

\* What overlaps is counted from one.
LEMMA OverlapsIs == together \in Nat => Overlaps \in Nat /\ Overlaps >= 1 /\ together <= Overlaps
  BY DEF Overlaps, AtLeast

\* The portal's keys, what requests leave of them, and the requests can be counted.
LEMMA KeysAreCounted ==
    ASSUME KeyWorkOK
    PROVE  /\ \A S : IsFiniteSet(PortalKeys \ S) /\ Cardinality(PortalKeys \ S) \in Nat
           /\ \A C : Spared(C) \in Nat
           /\ \A C \in SUBSET ReadingKeys : IsFiniteSet(C) /\ Cardinality(C) \in Nat
           /\ IsFiniteSet(Placing) /\ Cardinality(Placing) \in Nat
           /\ Overlaps \in Nat /\ Overlaps >= 1
  <1>1. \A S : PortalKeys \ S \in SUBSET KeyIds
    BY DEF PortalKeys
  <1>2. \A C \in SUBSET ReadingKeys : C \in SUBSET Between
    BY DEF Between
  <1>3. Placing \in SUBSET Between /\ IsFiniteSet(Between)
    BY DEF KeyWorkOK, Between
  <1>4. \A S : IsFiniteSet(PortalKeys \ S)
    BY <1>1, KeyIdsAre, FS_Subset
  <1>5. IsFiniteSet(Placing) /\ \A C \in SUBSET ReadingKeys : IsFiniteSet(C)
    BY <1>2, <1>3, FS_Subset
  <1>6. Overlaps \in Nat /\ Overlaps >= 1
    BY OverlapsIs DEF KeyWorkOK
  <1>7. \A S : Cardinality(PortalKeys \ S) \in Nat
    BY <1>4, FS_CardinalityType
  <1>8. \A C : Spared(C) \in Nat
    BY <1>7 DEF Spared
  <1> QED BY <1>4, <1>5, <1>6, <1>7, <1>8, FS_CardinalityType

\* The invariant holds at the start.
LEMMA InitKeys == KeysInit => KeysInv
  <1> SUFFICES ASSUME KeysInit PROVE KeysInv
    OBVIOUS
  <1>0. PICK first \in {NoKey, BootstrapKey} : key = [k \in KeyIds |-> IF k = 0 THEN first ELSE NoKey]
    BY DEF KeysInit
  <1>1. \A k \in KeyIds : key[k] = IF k = 0 THEN first ELSE NoKey
    BY <1>0
  <1>2. \A k \in KeyIds : key[k] \in KeyRow /\ key[k].revoked = "no" /\ key[k].by \in {"operator", "absent"}
    BY <1>1, NoKeyIs, BootstrapIs
  <1>3. KeyRowsOK
    <2>1. \A k \in KeyIds : k > issued => key[k].by = "absent"
      BY <1>1, NoKeyIs DEF KeysInit
    <2> QED BY <1>0, <1>2, <2>1, KeyIdsAre DEF KeyRowsOK, KeysInit
  <1>4. \A r \in Requests : working[r] = NoWork
    BY DEF KeysInit
  <1>5. ReadingKeys = {} /\ Placing = {}
    BY <1>4, NoWorkIs DEF ReadingKeys, Placing
  <1>10. Between = {}
    BY <1>5 DEF Between
  <1>6. KeyWorkOK
    <2>1. IsFiniteSet(Between) /\ Cardinality(Between) = 0
      BY <1>10, FS_EmptySet
    <2> QED BY <1>4, <2>1, NoWorkIs DEF KeyWorkOK, KeysAreThere, KeysInit
  <1>7. RotationsGive
    BY <1>2, <1>4, NoWorkIs DEF RotationsGive
  <1>8. PortalKeys = {}
    BY <1>2 DEF PortalKeys
  <1>9. ASSUME NEW C \in SUBSET ReadingKeys
        PROVE  Spared(C) + Cardinality(Placing) + Cardinality(C) <= Overlaps
    <2>1. PortalKeys \ ToRevoke(C) = {} /\ C = {}
      BY <1>5, <1>8
    <2>2. Spared(C) = 0 /\ Cardinality(C) = 0 /\ Cardinality(Placing) = 0
      BY <1>5, <2>1, FS_EmptySet DEF Spared
    <2> QED BY <1>6, <2>2, KeysAreCounted
  <1> QED BY <1>3, <1>6, <1>7, <1>9 DEF KeysInv, KeysHaveRoom

-----------------------------------------------------------------------------
\* A replacement that is there stays.
LEMMA GivenStays ==
    ASSUME KeysInv,
           \A n \in KeyIds : key[n].by = "rotation" => key'[n].by = "rotation" /\ key'[n].replaces = key[n].replaces
    PROVE  \A k \in KeyIds : Given(key, k) => Given(key', k)
  <1> SUFFICES ASSUME NEW k \in KeyIds, Given(key, k) PROVE Given(key', k)
    OBVIOUS
  <1>1. PICK n \in (k + 1)..MaxKeys : key[n].by = "rotation" /\ key[n].replaces = k
    BY DEF Given
  <1>2. n \in KeyIds
    BY KeyIdsAre, KeysAssumption DEF KeyIds
  <1> QED BY <1>1, <1>2 DEF Given

NoPortalGoesOn ==
    \A r \in Requests : working'[r] = working[r] \/ working'[r].at \notin {"portal", "portal insert"}

\* Fewer keys of the portal, and no request of the portal that goes on.
LEMMA FewerHaveRoom ==
    ASSUME KeysInv, PortalKeys' \subseteq PortalKeys, together' = together,
           working' \in [Requests -> KeyWork], KeysAreThere',
           NoPortalGoesOn
    PROVE  KeyWorkOK' /\ KeysHaveRoom'
  <1>1. ReadingKeys' \in SUBSET ReadingKeys /\ Placing' \in SUBSET Placing
    BY DEF ReadingKeys, Placing, NoPortalGoesOn
  <1>2. Between' \in SUBSET Between
    BY <1>1 DEF Between
  <1>3. /\ IsFiniteSet(Between) /\ Cardinality(Between) <= together /\ together \in Nat
        /\ KeyWorkOK
    BY DEF KeysInv, KeyWorkOK
  <1>4. IsFiniteSet(Between') /\ Cardinality(Between') <= Cardinality(Between)
    BY <1>2, <1>3, FS_Subset
  <1>5. Cardinality(Between') \in Nat /\ Cardinality(Between) \in Nat
    BY <1>3, <1>4, FS_CardinalityType
  <1>8. together' \in Nat /\ Cardinality(Between') <= together'
    <2>1. Cardinality(Between') <= together
      BY <1>3, <1>4, <1>5
    <2> QED BY <1>3, <2>1
  <1>6. KeyWorkOK'
    BY <1>4, <1>8 DEF KeyWorkOK
  <1>9. \A r \in Requests : working'[r] = working[r] \/ working'[r].at \notin {"portal", "portal insert"}
    BY DEF NoPortalGoesOn
  <1>7. ASSUME NEW C \in SUBSET ReadingKeys'
        PROVE  Spared(C)' + Cardinality(Placing') + Cardinality(C) <= Overlaps'
    <2>1. C \in SUBSET ReadingKeys /\ \A r \in C : working'[r] = working[r]
      BY <1>1, <1>9 DEF ReadingKeys
    <2>2. ToRevoke(C)' = ToRevoke(C)
      BY <2>1 DEF ToRevoke
    <2>3. PortalKeys' \ ToRevoke(C)' \in SUBSET (PortalKeys \ ToRevoke(C))
      BY <2>2
    <2>4. Spared(C)' <= Spared(C)
      BY <1>3, <2>3, KeysAreCounted, FS_Subset DEF Spared
    <2>8. Spared(C) \in Nat /\ Spared(C)' \in Nat
      BY KeyIdsAre DEF Spared, PortalKeys
    <2>5. /\ Cardinality(Placing') <= Cardinality(Placing)
          /\ Cardinality(Placing) \in Nat /\ Cardinality(Placing') \in Nat
      BY <1>1, <1>3, KeysAreCounted, FS_Subset, FS_CardinalityType
    <2>6. Spared(C) + Cardinality(Placing) + Cardinality(C) <= Overlaps
      BY <2>1 DEF KeysInv, KeysHaveRoom
    <2>7. Cardinality(C) \in Nat /\ Overlaps \in Nat /\ Overlaps' = Overlaps
      BY <1>3, <2>1, KeysAreCounted DEF Overlaps
    <2> QED BY <2>4, <2>5, <2>6, <2>7, <2>8
  <1> QED BY <1>6, <1>7 DEF KeysHaveRoom

\* One row changes: it stays the row of its inserter and does not come back to life.
LEMMA MarkKeeps ==
    ASSUME KeysInv, NEW k \in KeyIds, NEW row \in KeyRow, key' = [key EXCEPT ![k] = row],
           row.by = key[k].by, row.replaces = key[k].replaces, row.admin = key[k].admin,
           row.revoked = "no" => key[k].revoked = "no",
           row.revoked = "rotation" => key[k].revoked = "rotation" \/ Given(key, k),
           issued' = issued, together' = together, working' \in [Requests -> KeyWork],
           \A r \in Requests : working'[r] = working[r] \/ working'[r] = NoWork
    PROVE  KeysInv'
  <1>1. \A n \in KeyIds : key'[n] = IF n = k THEN row ELSE key[n]
    BY DEF KeysInv, KeyRowsOK
  <1>2. KeyRowsOK'
    BY <1>1, KeyIdsAre DEF KeysInv, KeyRowsOK
  <1>3. PortalKeys' \subseteq PortalKeys
    BY <1>1 DEF PortalKeys, IsLive, Exists
  <1>4.KeysAreThere'
    BY NoWorkIs, KeyIdsAre DEF KeysInv, KeyWorkOK, KeysAreThere, KeyRowsOK
  <1>5. KeyWorkOK' /\ KeysHaveRoom'
    BY <1>3, <1>4, FewerHaveRoom, NoWorkIs DEF NoPortalGoesOn
  <1>6. \A n \in KeyIds : Given(key, n) => Given(key', n)
    BY <1>1, GivenStays
  <1>7. RotationsGive'
    <2>1. \A r \in Requests : working'[r].at = "rotate revoke" => working'[r] = working[r] /\ working[r].key \in KeyIds
      BY NoWorkIs DEF KeysInv, KeyWorkOK, KeysAreThere, KeyWork
    <2>2. \A r \in Requests : working'[r].at = "rotate revoke" => Given(key', working'[r].key)
      BY <1>6, <2>1 DEF KeysInv, RotationsGive
    <2>3. \A n \in KeyIds : key'[n].revoked = "rotation" => Given(key', n)
      BY <1>1, <1>6 DEF KeysInv, RotationsGive
    <2> QED BY <2>2, <2>3 DEF RotationsGive
  <1> QED BY <1>2, <1>5, <1>7 DEF KeysInv

\* What an insertion does to the rows.
LEMMA InsertIs ==
    ASSUME KeysInv, NEW row \in KeyRow, Inserts(row), row.by # "absent", row.revoked = "no",
           row.by = "portal" => ~row.admin
    PROVE  /\ issued' = issued + 1 /\ issued' \in KeyIds /\ issued' \in Nat /\ issued \in Nat /\ issued' <= MaxKeys
           /\ \A n \in KeyIds : key'[n] = IF n = issued' THEN row ELSE key[n]
           /\ key[issued'].by = "absent"
           /\ KeyRowsOK'
           /\ \A k \in KeyIds : Given(key, k) => Given(key', k)
           /\ \A k \in KeyIds : key'[k].revoked = "rotation" => Given(key', k)
  <1>1. issued \in Nat /\ MaxKeys \in Nat /\ issued < MaxKeys /\ issued' = issued + 1
        /\ key' = [key EXCEPT ![issued'] = row]
    BY KeyIdsAre, KeysAssumption DEF KeysInv, KeyRowsOK, Inserts
  <1>2. issued' \in KeyIds /\ issued' > issued /\ issued' # 0 /\ issued' \in Nat /\ issued' <= MaxKeys
    BY <1>1 DEF KeyIds
  <1>3. \A n \in KeyIds : key'[n] = IF n = issued' THEN row ELSE key[n]
    BY <1>1, <1>2 DEF KeysInv, KeyRowsOK
  <1>4. key[issued'].by = "absent"
    BY <1>2 DEF KeysInv, KeyRowsOK
  <1>5. KeyRowsOK'
    <2>1. \A n \in KeyIds : n > issued' => n > issued /\ n # issued'
      BY <1>1, KeyIdsAre
    <2>2. key' \in [KeyIds -> KeyRow]
      BY <1>1 DEF KeysInv, KeyRowsOK
    <2>3. key'[0].by = key[0].by
      BY <1>2, <1>3, KeyIdsAre
    <2> QED BY <1>2, <1>3, <2>1, <2>2, <2>3 DEF KeysInv, KeyRowsOK
  <1>6. \A k \in KeyIds : Given(key, k) => Given(key', k)
    BY <1>3, <1>4, GivenStays
  <1>7. \A k \in KeyIds : key'[k].revoked = "rotation" => Given(key', k)
    BY <1>3, <1>6 DEF KeysInv, RotationsGive
  <1> QED BY <1>1, <1>2, <1>3, <1>4, <1>5, <1>6, <1>7

\* A set that one element may have come to.
LEMMA AtMostOneMore ==
    ASSUME NEW S, IsFiniteSet(S), NEW x, NEW T \in SUBSET (S \cup {x})
    PROVE  Cardinality(T) <= Cardinality(S) + 1
  <1>1. Cardinality(S) \in Nat
    BY FS_CardinalityType
  <1>2. /\ IsFiniteSet(S \cup {x})
        /\ Cardinality(S \cup {x}) = IF x \in S THEN Cardinality(S) ELSE Cardinality(S) + 1
    BY FS_AddElement
  <1>3. IsFiniteSet(T) /\ Cardinality(T) <= Cardinality(S \cup {x})
    BY <1>2, FS_Subset
  <1>4. Cardinality(T) \in Nat
    BY <1>3, FS_CardinalityType
  <1> QED BY <1>1, <1>2, <1>3, <1>4

\* A request enters the next state of its work.
LEMMA WorksIs ==
    ASSUME KeysInv, NEW r \in Requests, NEW work \in KeyWork, Works(r, work)
    PROVE  /\ working' \in [Requests -> KeyWork]
           /\ \A q \in Requests : working'[q] = IF q = r THEN work ELSE working[q]
           /\ \A q \in Requests : working[q].key \in KeyIds /\ working[q].key <= issued
  BY DEF Works, KeysInv, KeyWorkOK, KeysAreThere, KeyWork

-----------------------------------------------------------------------------
\* An operator issues a key.
LEMMA IssueKeeps ==
    ASSUME KeysInv, NEW admin \in BOOLEAN, IssueKey(admin) PROVE KeysInv'
  <1> DEFINE row == [NoKey EXCEPT !.by = "operator", !.admin = admin]
  <1>1. row \in KeyRow /\ row.by = "operator" /\ row.revoked = "no"
    BY DEF NoKey, KeyRow
  <1>2. Inserts(row) /\ UNCHANGED <<working, together>>
    BY DEF IssueKey
  <1> HIDE DEF row
  <1>3. /\ issued' = issued + 1 /\ issued \in Nat /\ issued' \in KeyIds
        /\ \A n \in KeyIds : key'[n] = IF n = issued' THEN row ELSE key[n]
        /\ KeyRowsOK'
        /\ \A k \in KeyIds : Given(key, k) => Given(key', k)
        /\ \A k \in KeyIds : key'[k].revoked = "rotation" => Given(key', k)
    BY <1>1, <1>2, InsertIs
  <1>4. PortalKeys' \subseteq PortalKeys
    BY <1>1, <1>3 DEF PortalKeys, IsLive, Exists
  <1>5. working' \in [Requests -> KeyWork] /\ \A r \in Requests : working[r].key \in KeyIds /\ working[r].key <= issued
    BY <1>2 DEF KeysInv, KeyWorkOK, KeysAreThere, KeyWork
  <1>6.KeysAreThere'
    <2>1. \A r \in Requests : working[r].key \in Nat /\ working[r].key <= issued
      BY <1>5, KeyIdsAre
    <2> QED BY <1>2, <1>3, <2>1 DEF KeysAreThere
  <1>7. KeyWorkOK' /\ KeysHaveRoom'
    BY <1>2, <1>4, <1>5, <1>6, FewerHaveRoom DEF NoPortalGoesOn
  <1>8. RotationsGive'
    BY <1>2, <1>3, <1>5 DEF RotationsGive, KeysInv
  <1> QED BY <1>3, <1>7, <1>8 DEF KeysInv

\* A rotation inserts the replacement before it revokes.
LEMMA ReplacementKeeps ==
    ASSUME KeysInv, NEW r \in Requests, InsertReplacement(r) PROVE KeysInv'
  <1> DEFINE old  == working[r].key
             row  == [NoKey EXCEPT !.by = "rotation", !.replaces = old, !.admin = key[old].admin]
             work == [working[r] EXCEPT !.at = "rotate revoke"]
  <1>1. working[r] \in KeyWork /\ old \in KeyIds /\ old \in Nat /\ old <= issued /\ key[old].admin \in BOOLEAN
    BY KeyIdsAre DEF KeysInv, KeyWorkOK, KeysAreThere, KeyWork, KeyRowsOK, KeyRow
  <1>2. row \in KeyRow /\ row.by = "rotation" /\ row.revoked = "no" /\ row.replaces = old
    BY <1>1 DEF NoKey, KeyRow
  <1>3. work \in KeyWork /\ work.at = "rotate revoke" /\ work.key = old
    BY <1>1 DEF KeyWork
  <1>4. Inserts(row) /\ Works(r, work) /\ together' = together
    BY DEF InsertReplacement
  <1> HIDE DEF row, work, old
  <1>5. /\ issued' = issued + 1 /\ issued \in Nat /\ issued' \in KeyIds /\ issued' \in Nat /\ issued' <= MaxKeys
        /\ \A n \in KeyIds : key'[n] = IF n = issued' THEN row ELSE key[n]
        /\ KeyRowsOK'
        /\ \A k \in KeyIds : Given(key, k) => Given(key', k)
        /\ \A k \in KeyIds : key'[k].revoked = "rotation" => Given(key', k)
    BY <1>2, <1>4, InsertIs
  <1>6. PortalKeys' \subseteq PortalKeys
    BY <1>2, <1>5 DEF PortalKeys, IsLive, Exists
  <1>7. /\ working' \in [Requests -> KeyWork]
        /\ \A q \in Requests : working'[q] = IF q = r THEN work ELSE working[q]
        /\ \A q \in Requests : working[q].key \in KeyIds /\ working[q].key <= issued
    BY <1>3, <1>4, WorksIs
  <1>8.KeysAreThere'
    <2>1. \A q \in Requests : working[q].key \in Nat /\ working[q].key <= issued
      BY <1>7, KeyIdsAre
    <2>2. work.key \in Nat /\ work.key <= issued /\ issued \in Nat /\ issued' = issued + 1
      BY <1>1, <1>3, <1>5
    <2>3. ASSUME NEW q \in Requests PROVE working'[q].key <= issued'
      <3>1. working'[q].key = work.key \/ working'[q].key = working[q].key
        BY <1>7
      <3>2. working[q].key \in Nat /\ working[q].key <= issued
        BY <2>1
      <3> QED BY <2>2, <3>1, <3>2
    <2> QED BY <2>3 DEF KeysAreThere
  <1>9. KeyWorkOK' /\ KeysHaveRoom'
    BY <1>3, <1>4, <1>6, <1>7, <1>8, FewerHaveRoom DEF NoPortalGoesOn
  <1>10. Given(key', old)
    <2>1. issued' \in (old + 1)..MaxKeys
      BY <1>1, <1>5, KeysAssumption
    <2>2. key'[issued'] = row
      BY <1>5
    <2> QED BY <1>2, <2>1, <2>2 DEF Given
  <1>11. RotationsGive'
    BY <1>3, <1>5, <1>7, <1>10 DEF RotationsGive, KeysInv
  <1> QED BY <1>5, <1>9, <1>11 DEF KeysInv

\* The portal inserts its key, after it revoked those it has seen.
LEMMA MobileKeyKeeps ==
    ASSUME KeysInv, NEW r \in Requests, InsertMobileKey(r) PROVE KeysInv'
  <1> DEFINE row == [NoKey EXCEPT !.by = "portal"]
  <1>1. row \in KeyRow /\ row.by = "portal" /\ row.revoked = "no" /\ ~row.admin
    BY DEF NoKey, KeyRow
  <1>2. Inserts(row) /\ Works(r, NoWork) /\ together' = together /\ working[r].at = "portal insert"
    BY DEF InsertMobileKey
  <1> HIDE DEF row
  <1>3. /\ issued' = issued + 1 /\ issued \in Nat /\ issued' \in KeyIds
        /\ \A n \in KeyIds : key'[n] = IF n = issued' THEN row ELSE key[n]
        /\ KeyRowsOK'
        /\ \A k \in KeyIds : Given(key, k) => Given(key', k)
        /\ \A k \in KeyIds : key'[k].revoked = "rotation" => Given(key', k)
    BY <1>1, <1>2, InsertIs
  <1>4. /\ working' \in [Requests -> KeyWork]
        /\ \A q \in Requests : working'[q] = IF q = r THEN NoWork ELSE working[q]
        /\ \A q \in Requests : working[q].key \in KeyIds /\ working[q].key <= issued
    BY <1>2, NoWorkIs, WorksIs
  <1>5.KeysAreThere'
    <2>1. \A q \in Requests : working[q].key \in Nat /\ working[q].key <= issued
      BY <1>4, KeyIdsAre
    <2> QED BY <1>3, <1>4, <2>1, NoWorkIs DEF KeysAreThere
  <1>6. RotationsGive'
    BY <1>3, <1>4, NoWorkIs DEF RotationsGive, KeysInv
  <1>7. /\ ReadingKeys' = ReadingKeys /\ Placing' = Placing \ {r} /\ r \in Placing
        /\ Between' \in SUBSET Between
    BY <1>2, <1>4, NoWorkIs DEF ReadingKeys, Placing, Between
  <1>8. KeyWorkOK /\ IsFiniteSet(Between) /\ Cardinality(Between) <= together /\ together \in Nat
    BY DEF KeysInv, KeyWorkOK
  <1>9. IsFiniteSet(Between') /\ Cardinality(Between') <= together
    <2>1. IsFiniteSet(Between') /\ Cardinality(Between') <= Cardinality(Between)
      BY <1>7, <1>8, FS_Subset
    <2>2. Cardinality(Between') \in Nat /\ Cardinality(Between) \in Nat
      BY <1>8, <2>1, FS_CardinalityType
    <2> QED BY <1>8, <2>1, <2>2
  <1>10. KeyWorkOK'
    BY <1>2, <1>4, <1>5, <1>8, <1>9 DEF KeyWorkOK
  <1>11. PortalKeys' \subseteq PortalKeys \cup {issued'}
    BY <1>3 DEF PortalKeys, IsLive, Exists
  <1>12. IsFiniteSet(Placing) /\ Cardinality(Placing') = Cardinality(Placing) - 1 /\ Cardinality(Placing) \in Nat
    BY <1>7, <1>8, KeysAreCounted, FS_RemoveElement
  <1>13. ASSUME NEW C \in SUBSET ReadingKeys'
         PROVE  Spared(C)' + Cardinality(Placing') + Cardinality(C) <= Overlaps'
    <2>1. C \in SUBSET ReadingKeys /\ \A q \in C : working'[q] = working[q]
      BY <1>2, <1>4, <1>7 DEF ReadingKeys
    <2>2. ToRevoke(C)' = ToRevoke(C)
      BY <2>1 DEF ToRevoke
    <2>3. PortalKeys' \ ToRevoke(C)' \in SUBSET ((PortalKeys \ ToRevoke(C)) \cup {issued'})
      BY <1>11, <2>2
    <2>4. IsFiniteSet(PortalKeys \ ToRevoke(C)) /\ Spared(C) \in Nat /\ Spared(C)' \in Nat
      BY KeyIdsAre DEF Spared, PortalKeys
    <2>5. Spared(C)' <= Spared(C) + 1
      BY <2>3, <2>4, AtMostOneMore DEF Spared
    <2>6. Spared(C) + Cardinality(Placing) + Cardinality(C) <= Overlaps
      BY <2>1 DEF KeysInv, KeysHaveRoom
    <2>7. Cardinality(C) \in Nat /\ Overlaps \in Nat /\ Overlaps' = Overlaps
      BY <1>2, <1>8, <2>1, KeysAreCounted DEF Overlaps
    <2> QED BY <1>12, <2>4, <2>5, <2>6, <2>7
  <1> QED BY <1>3, <1>6, <1>10, <1>13 DEF KeysInv, KeysHaveRoom

\* The portal revokes the keys it has seen.
LEMMA RevokeEarlierKeeps ==
    ASSUME KeysInv, NEW r \in Requests, RevokeEarlier(r) PROVE KeysInv'
  <1> DEFINE work   == [working[r] EXCEPT !.at = "portal insert", !.doomed = {}]
             doomed == working[r].doomed
  <1>1. /\ working[r] \in KeyWork /\ working[r].at = "portal" /\ doomed \subseteq KeyIds
        /\ Works(r, work) /\ UNCHANGED <<issued, together>>
        /\ key' = [k \in KeyIds |-> IF k \in doomed THEN Revokes(k, "portal") ELSE key[k]]
    BY DEF KeysInv, KeyWorkOK, KeysAreThere, KeyWork, RevokeEarlier
  <1>2. work \in KeyWork /\ work.at = "portal insert" /\ work.key = working[r].key
    BY <1>1 DEF KeyWork
  <1> HIDE DEF work, doomed
  <1>3. /\ working' \in [Requests -> KeyWork]
        /\ \A q \in Requests : working'[q] = IF q = r THEN work ELSE working[q]
        /\ \A q \in Requests : working[q].key \in KeyIds /\ working[q].key <= issued
    BY <1>1, <1>2, WorksIs
  <1>4. \A k \in KeyIds : key[k] \in KeyRow
    BY DEF KeysInv, KeyRowsOK
  <1>5. \A k \in KeyIds : /\ Revokes(k, "portal") \in KeyRow /\ Revokes(k, "portal").revoked = "portal"
                          /\ Revokes(k, "portal").by = key[k].by /\ Revokes(k, "portal").admin = key[k].admin
                          /\ Revokes(k, "portal").replaces = key[k].replaces
    BY <1>4 DEF Revokes, KeyRow
  <1>6. \A k \in KeyIds : /\ key'[k] \in KeyRow /\ key'[k].by = key[k].by /\ key'[k].admin = key[k].admin
                          /\ key'[k].replaces = key[k].replaces
                          /\ key'[k].revoked = IF k \in doomed THEN "portal" ELSE key[k].revoked
    BY <1>1, <1>4, <1>5
  <1>7. KeyRowsOK'
    <2>1. key' \in [KeyIds -> KeyRow]
      BY <1>1, <1>6
    <2> QED BY <1>1, <1>6, <2>1, KeyIdsAre DEF KeysInv, KeyRowsOK
  <1>8. \A k \in KeyIds : Given(key, k) => Given(key', k)
    BY <1>6, GivenStays
  <1>9. RotationsGive'
    BY <1>2, <1>3, <1>6, <1>8 DEF RotationsGive, KeysInv
  <1>10. PortalKeys' = PortalKeys \ doomed
    BY <1>6 DEF PortalKeys, IsLive, Exists
  <1>11. Placing' = Placing \cup {r} /\ r \notin Placing /\ r \in ReadingKeys /\ ReadingKeys' = ReadingKeys \ {r} /\ Between' = Between
    BY <1>1, <1>2, <1>3 DEF ReadingKeys, Placing, Between
  <1>12. KeyWorkOK
    BY DEF KeysInv
  <1>13. KeyWorkOK'
    BY <1>1, <1>2, <1>3, <1>11 DEF KeysInv, KeyWorkOK, KeysAreThere
  <1>14. Cardinality(Placing') = Cardinality(Placing) + 1 /\ Cardinality(Placing) \in Nat
    BY <1>11, <1>12, KeysAreCounted, FS_AddElement
  <1>15. ASSUME NEW C \in SUBSET ReadingKeys'
         PROVE  Spared(C)' + Cardinality(Placing') + Cardinality(C) <= Overlaps'
    <2>1. C \cup {r} \in SUBSET ReadingKeys /\ C \in SUBSET ReadingKeys /\ r \notin C /\ \A q \in C : working'[q] = working[q]
      BY <1>3, <1>11 DEF ReadingKeys
    <2>2. ToRevoke(C)' = ToRevoke(C) /\ ToRevoke(C \cup {r}) = ToRevoke(C) \cup doomed
      BY <2>1 DEF ToRevoke, doomed
    <2>3. PortalKeys' \ ToRevoke(C)' = PortalKeys \ ToRevoke(C \cup {r})
      BY <1>10, <2>2
    <2>4. Spared(C)' = Spared(C \cup {r})
      BY <2>3 DEF Spared
    <2>9. Spared(C \cup {r}) \in Nat
      BY <1>12, KeysAreCounted
    <2>5. IsFiniteSet(C) /\ Cardinality(C) \in Nat
      BY <1>12, <2>1, KeysAreCounted
    <2>6. Cardinality(C \cup {r}) = Cardinality(C) + 1
      BY <2>1, <2>5, FS_AddElement
    <2>7. Spared(C \cup {r}) + Cardinality(Placing) + Cardinality(C \cup {r}) <= Overlaps
      BY <2>1 DEF KeysInv, KeysHaveRoom
    <2>8. Overlaps \in Nat /\ Overlaps' = Overlaps
      BY <1>1, <1>12, KeysAreCounted DEF Overlaps
    <2> QED BY <1>14, <2>4, <2>5, <2>6, <2>7, <2>8, <2>9
  <1> QED BY <1>7, <1>9, <1>13, <1>15 DEF KeysInv, KeysHaveRoom

\* The portal is asked for a key and reads those that work.
LEMMA AskPortalKeeps ==
    ASSUME KeysInv, NEW r \in Requests, AskPortal(r) PROVE KeysInv'
  <1> DEFINE doomed == { k \in KeyIds : IsLive(k) /\ ~key[k].admin }
             work   == [NoWork EXCEPT !.at = "portal", !.doomed = doomed]
  <1>1. /\ Works(r, work) /\ working[r].at = "idle" /\ UNCHANGED <<key, issued>>
        /\ together' = AtLeast(Cardinality({ q \in Requests : working'[q].at \in {"portal", "portal insert"} }), together)
    BY DEF AskPortal, BeginsWork
  <1>2. work \in KeyWork /\ work.at = "portal" /\ work.key = 0 /\ work.doomed = doomed
    BY KeyIdsAre DEF KeyWork, NoWork
  <1>3. PortalKeys \subseteq doomed
    BY DEF PortalKeys, KeysInv, KeyRowsOK
  <1> HIDE DEF work, doomed
  <1>4. /\ working' \in [Requests -> KeyWork]
        /\ \A q \in Requests : working'[q] = IF q = r THEN work ELSE working[q]
        /\ \A q \in Requests : working[q].key \in KeyIds /\ working[q].key <= issued
    BY <1>1, <1>2, WorksIs
  <1>5. /\ ReadingKeys' = ReadingKeys \cup {r} /\ Placing' = Placing /\ Between' = Between \cup {r} /\ r \notin Between
        /\ ReadingKeys' \cup Placing' = Between' /\ ReadingKeys' \cap Placing' = {}
        /\ { q \in Requests : working'[q].at \in {"portal", "portal insert"} } = Between'
    BY <1>1, <1>2, <1>4 DEF ReadingKeys, Placing, Between
  <1>6. KeyWorkOK /\ IsFiniteSet(Between) /\ together \in Nat /\ Cardinality(Between) <= together /\ issued \in KeyIds
    BY DEF KeysInv, KeyWorkOK, KeyRowsOK
  <1>7. IsFiniteSet(Between') /\ Cardinality(Between') \in Nat
    <2>1. IsFiniteSet(Between \cup {r}) /\ Between' = Between \cup {r}
      BY <1>5, <1>6, FS_AddElement
    <2>2. IsFiniteSet(Between')
      BY <2>1
    <2> QED BY <2>2, FS_CardinalityType
  <1>8. together' \in Nat /\ together <= together' /\ Cardinality(Between') <= together'
    <2>1. together' = AtLeast(Cardinality(Between'), together)
      BY <1>1, <1>5
    <2> QED BY <1>6, <1>7, <2>1 DEF AtLeast
  <1>9.KeysAreThere'
    <2>1. \A q \in Requests : working[q].key <= issued'
      BY <1>1, <1>4
    <2>2. 0 <= issued'
      BY <1>1, <1>6, KeyIdsAre
    <2> QED BY <1>2, <1>4, <2>1, <2>2 DEF KeysAreThere
  <1>10. KeyWorkOK'
    BY <1>4, <1>7, <1>8, <1>9 DEF KeyWorkOK
  <1>11. KeyRowsOK'
    BY <1>1 DEF KeysInv, KeyRowsOK
  <1>12. RotationsGive'
    BY <1>1, <1>2, <1>4 DEF RotationsGive, KeysInv
  <1>13. PortalKeys' = PortalKeys
    BY <1>1 DEF PortalKeys, IsLive, Exists
  <1>14. Overlaps' \in Nat /\ together' <= Overlaps' /\ Overlaps \in Nat /\ Overlaps <= Overlaps'
    BY <1>6, <1>8 DEF Overlaps, AtLeast
  <1>15. ASSUME NEW C \in SUBSET ReadingKeys'
         PROVE  Spared(C)' + Cardinality(Placing') + Cardinality(C) <= Overlaps'
    <2>1. CASE r \in C
      <3>1. doomed \subseteq ToRevoke(C)'
        BY <1>2, <1>4, <2>1 DEF ToRevoke
      <3>2. PortalKeys' \ ToRevoke(C)' = {}
        BY <1>3, <1>13, <3>1
      <3>3. Spared(C)' = 0
        BY <3>2, FS_EmptySet DEF Spared
      <3>5. C \cap Placing' = {} /\ C \cup Placing' \in SUBSET Between'
        BY <1>5
      <3>8. C \in SUBSET Between' /\ Placing' \in SUBSET Between'
        BY <3>5
      <3>4. IsFiniteSet(C) /\ Cardinality(C) \in Nat /\ IsFiniteSet(Placing') /\ Cardinality(Placing') \in Nat
        BY <1>7, <3>8, FS_Subset, FS_CardinalityType
      <3>6. Cardinality(C \cup Placing') = Cardinality(C) + Cardinality(Placing')
        <4>1. Cardinality(C \cup Placing') = Cardinality(C) + Cardinality(Placing') - Cardinality(C \cap Placing')
          BY <3>4, FS_Union
        <4>2. Cardinality(C \cap Placing') = 0
          BY <3>5, FS_EmptySet
        <4> QED BY <3>4, <4>1, <4>2
      <3>7. Cardinality(C \cup Placing') <= Cardinality(Between')
        BY <1>7, <3>5, FS_Subset
      <3> QED BY <1>7, <1>8, <1>14, <3>3, <3>4, <3>6, <3>7
    <2>2. CASE r \notin C
      <3>1. C \in SUBSET ReadingKeys /\ \A q \in C : working'[q] = working[q]
        BY <1>4, <1>5, <2>2 DEF ReadingKeys
      <3>2. ToRevoke(C)' = ToRevoke(C)
        BY <3>1 DEF ToRevoke
      <3>3. Spared(C)' = Spared(C) /\ Spared(C) \in Nat
        BY <1>6, <1>13, <3>2, KeysAreCounted DEF Spared
      <3>4. Spared(C) + Cardinality(Placing) + Cardinality(C) <= Overlaps
        BY <3>1 DEF KeysInv, KeysHaveRoom
      <3>5. Cardinality(C) \in Nat /\ Cardinality(Placing) \in Nat /\ Cardinality(Placing') = Cardinality(Placing)
        BY <1>5, <1>6, <3>1, KeysAreCounted
      <3> QED BY <1>14, <3>3, <3>4, <3>5
    <2> QED BY <2>1, <2>2
  <1> QED BY <1>10, <1>11, <1>12, <1>15 DEF KeysInv, KeysHaveRoom

\* The start of the server ends all requests and makes only the bootstrap key live.
LEMMA StartKeeps ==
    ASSUME KeysInv, ServerStarts \/ ServerResets PROVE KeysInv'
  <1>1. /\ working' = [r \in Requests |-> NoWork] /\ UNCHANGED <<issued, together>>
    BY DEF ServerStarts, ServerResets
  <1>2. key \in [KeyIds -> KeyRow] /\ 0 \in KeyIds /\ key[0] \in KeyRow /\ key[0].by \in {"operator", "absent"}
    BY KeyIdsAre DEF KeysInv, KeyRowsOK
  <1>3. \A k \in KeyIds : key[k].by = "portal" => ~key[k].admin
    BY DEF KeysInv, KeyRowsOK
  <1>4. /\ key' \in [KeyIds -> KeyRow] /\ key'[0].by \in {"operator", "absent"}
        /\ \A k \in KeyIds : k # 0 => /\ key'[k].by = key[k].by /\ key'[k].replaces = key[k].replaces
                                      /\ key'[k].admin = key[k].admin
                                      /\ key'[k].revoked = key[k].revoked \/ key'[k].revoked = "operator"
        /\ key'[0].revoked = key[0].revoked \/ key'[0].revoked = "no"
        /\ key[0].by = "absent" \/ key'[0].replaces = key[0].replaces
    <2>1. CASE ServerStarts
      <3> DEFINE row == IF Exists(0) THEN [key[0] EXCEPT !.revoked = "no"] ELSE BootstrapKey
      <3>1. key' = [key EXCEPT ![0] = row]
        BY <2>1 DEF ServerStarts
      <3>2. /\ row \in KeyRow /\ row.by \in {"operator", "absent"} /\ row.revoked = "no"
            /\ key[0].by = "absent" \/ row.replaces = key[0].replaces
        <4>1. CASE Exists(0)
          BY <1>2, <4>1 DEF KeyRow
        <4>2. CASE ~Exists(0)
          BY <4>2, BootstrapIs DEF Exists
        <4> QED BY <4>1, <4>2
      <3> HIDE DEF row
      <3> QED BY <1>2, <3>1, <3>2
    <2>2. CASE ServerResets /\ Exists(0)
      <3>1. key' = key
        BY <2>2 DEF ServerResets
      <3> QED BY <1>2, <3>1
    <2>3. CASE ServerResets /\ ~Exists(0)
      <3>1. key' = [k \in KeyIds |-> CASE k = 0 -> BootstrapKey
                                       [] k # 0 /\ key[k].admin -> Revokes(k, "operator")
                                       [] OTHER -> key[k]]
        BY <2>3 DEF ServerResets
      <3>2. \A k \in KeyIds : key'[k] = IF k = 0 THEN BootstrapKey
                                        ELSE IF key[k].admin THEN Revokes(k, "operator") ELSE key[k]
        BY <3>1
      <3>3. \A k \in KeyIds : /\ Revokes(k, "operator") \in KeyRow /\ Revokes(k, "operator").revoked = "operator"
                              /\ Revokes(k, "operator").by = key[k].by /\ Revokes(k, "operator").admin = key[k].admin
                              /\ Revokes(k, "operator").replaces = key[k].replaces
        BY <1>2 DEF Revokes, KeyRow
      <3>4. key' \in [KeyIds -> KeyRow]
        BY <1>2, <3>1, <3>2, <3>3, BootstrapIs
      <3> QED BY <1>2, <2>3, <3>2, <3>3, <3>4, BootstrapIs DEF Exists
    <2> QED BY <2>1, <2>2, <2>3
  <1>5. KeyRowsOK'
    <2>1. \A k \in KeyIds : k > issued => k # 0
      BY KeyIdsAre DEF KeysInv, KeyRowsOK
    <2>2. \A k \in KeyIds : key'[k].by = "portal" => k # 0
      BY <1>4
    <2>3. \A k \in KeyIds : key'[k].by = "portal" => ~key'[k].admin
      <3> TAKE k \in KeyIds
      <3> HAVE key'[k].by = "portal"
      <3>1. key'[k].by = key[k].by /\ key'[k].admin = key[k].admin
        BY <1>4, <2>2
      <3> QED BY <1>3, <3>1
    <2>4. \A k \in KeyIds : k > issued => key'[k].by = "absent"
      <3>1. \A k \in KeyIds : k > issued => key[k].by = "absent"
        BY DEF KeysInv, KeyRowsOK
      <3> TAKE k \in KeyIds
      <3> HAVE k > issued
      <3>2. key'[k].by = key[k].by
        BY <1>4, <2>1
      <3> QED BY <3>1, <3>2
    <2>5. issued' = issued /\ issued \in KeyIds
      BY <1>1 DEF KeysInv, KeyRowsOK
    <2> QED BY <1>4, <2>3, <2>4, <2>5 DEF KeyRowsOK
  <1>6. PortalKeys' \subseteq PortalKeys
    BY <1>4 DEF PortalKeys, IsLive, Exists
  <1>7. \A r \in Requests : working'[r] = NoWork
    BY <1>1
  <1>8. /\ working' \in [Requests -> KeyWork] /\ KeysAreThere'
        /\ \A r \in Requests : working'[r].at = "idle"
    BY <1>1, <1>7, NoWorkIs, KeyIdsAre DEF KeysInv, KeyRowsOK, KeysAreThere
  <1>9. KeyWorkOK' /\ KeysHaveRoom'
    BY <1>1, <1>6, <1>8, FewerHaveRoom DEF NoPortalGoesOn
  <1>10. \A k \in KeyIds : Given(key, k) => Given(key', k)
    <2>1. \A n \in KeyIds : key[n].by = "rotation" =>
             key'[n].by = "rotation" /\ key'[n].replaces = key[n].replaces
      <3> TAKE n \in KeyIds
      <3> HAVE key[n].by = "rotation"
      <3>1. n # 0
        BY <1>2
      <3> QED BY <1>4, <3>1
    <2> QED BY <2>1, GivenStays
  <1>11. RotationsGive'
    BY <1>4, <1>8, <1>10 DEF RotationsGive, KeysInv
  <1> QED BY <1>5, <1>9, <1>11 DEF KeysInv

\* Requests that begin or end without a row.
LEMMA WorkKeeps ==
    ASSUME KeysInv, NEW r \in Requests, NEW work \in KeyWork, Works(r, work), work.at \in {"idle", "rotate", "force"},
           work.key <= issued, UNCHANGED <<key, issued, together>>
    PROVE  KeysInv'
  <1>1. /\ working' \in [Requests -> KeyWork]
        /\ \A q \in Requests : working'[q] = IF q = r THEN work ELSE working[q]
        /\ \A q \in Requests : working[q].key \in KeyIds /\ working[q].key <= issued
    BY WorksIs
  <1>2. PortalKeys' = PortalKeys
    BY DEF PortalKeys, IsLive, Exists
  <1>6. KeysAreThere'
    BY <1>1 DEF KeysAreThere
  <1>3. KeyWorkOK' /\ KeysHaveRoom'
    BY <1>1, <1>2, <1>6, FewerHaveRoom DEF NoPortalGoesOn
  <1>4. KeyRowsOK'
    BY DEF KeysInv, KeyRowsOK
  <1>5. RotationsGive'
    BY <1>1 DEF KeysInv, RotationsGive
  <1> QED BY <1>3, <1>4, <1>5 DEF KeysInv

\* Every step keeps it.
LEMMA NextKeys == KeysInv /\ [KeysNext]_keyVars => KeysInv'
  <1> SUFFICES ASSUME KeysInv, [KeysNext]_keyVars PROVE KeysInv'
    OBVIOUS
  <1>0. /\ key \in [KeyIds -> KeyRow] /\ working \in [Requests -> KeyWork]
        /\ \A r \in Requests : working[r].key \in KeyIds
        /\ \A k \in KeyIds : Exists(k) => k <= issued
        /\ issued \in KeyIds /\ 0 <= issued
    <2>1. /\ key \in [KeyIds -> KeyRow] /\ working \in [Requests -> KeyWork] /\ issued \in KeyIds
          /\ \A k \in KeyIds : k > issued => key[k].by = "absent"
      BY DEF KeysInv, KeyRowsOK, KeyWorkOK
    <2>2. \A k \in KeyIds : Exists(k) => k <= issued
      BY <2>1, KeyIdsAre DEF Exists
    <2>3. \A r \in Requests : working[r].key \in KeyIds
      BY <2>1 DEF KeyWork
    <2>4. 0 <= issued
      BY <2>1, KeyIdsAre
    <2> QED BY <2>1, <2>2, <2>3, <2>4
  <1>1. ASSUME NEW k \in KeyIds, RevokeKey(k) PROVE KeysInv'
    <2>1. Revokes(k, "operator") \in KeyRow
      BY <1>0 DEF Revokes, KeyRow
    <2>2. /\ Revokes(k, "operator").by = key[k].by /\ Revokes(k, "operator").replaces = key[k].replaces
          /\ Revokes(k, "operator").admin = key[k].admin /\ Revokes(k, "operator").revoked = "operator"
      BY <1>0 DEF Revokes, KeyRow
    <2> QED BY <1>0, <1>1, <2>1, <2>2, MarkKeeps DEF RevokeKey
  <1>2. ASSUME NEW k \in KeyIds, KeyExpires(k) PROVE KeysInv'
    <2> DEFINE row == [key[k] EXCEPT !.expired = TRUE]
    <2>1. /\ row \in KeyRow /\ row.by = key[k].by /\ row.replaces = key[k].replaces
          /\ row.admin = key[k].admin /\ row.revoked = key[k].revoked
      BY <1>0 DEF KeyRow
    <2>2. key' = [key EXCEPT ![k] = row]
      BY <1>0, <1>2 DEF KeyExpires
    <2> HIDE DEF row
    <2> QED BY <1>0, <1>2, <2>1, <2>2, MarkKeeps DEF KeyExpires
  <1>3. ASSUME NEW r \in Requests, MarkForced(r) PROVE KeysInv'
    <2> DEFINE k   == working[r].key
               row == [key[k] EXCEPT !.force = TRUE]
    <2>1. /\ row \in KeyRow /\ row.by = key[k].by /\ row.replaces = key[k].replaces
          /\ row.admin = key[k].admin /\ row.revoked = key[k].revoked
      <3>1. key[k] \in KeyRow
        BY <1>0
      <3> QED BY <3>1 DEF KeyRow
    <2>2. key' = [key EXCEPT ![k] = row] /\ Works(r, NoWork) /\ UNCHANGED <<issued, together>>
      BY <1>0, <1>3 DEF MarkForced
    <2>3. /\ working' \in [Requests -> KeyWork]
          /\ \A q \in Requests : working'[q] = IF q = r THEN NoWork ELSE working[q]
      BY <2>2, NoWorkIs, WorksIs
    <2>4. k \in KeyIds
      BY <1>0
    <2> HIDE DEF row, k
    <2> QED BY <2>1, <2>2, <2>3, <2>4, MarkKeeps
  <1>4. ASSUME NEW r \in Requests, RevokeReplaced(r) PROVE KeysInv'
    <2> DEFINE k   == working[r].key
               row == Revokes(k, "rotation")
    <2>1. /\ row \in KeyRow /\ row.by = key[k].by /\ row.replaces = key[k].replaces
          /\ row.admin = key[k].admin /\ row.revoked = "rotation"
      BY <1>0 DEF KeyRow, Revokes
    <2>2. key' = [key EXCEPT ![k] = row] /\ Works(r, NoWork) /\ UNCHANGED <<issued, together>>
      BY <1>4 DEF RevokeReplaced
    <2>3. /\ working' \in [Requests -> KeyWork]
          /\ \A q \in Requests : working'[q] = IF q = r THEN NoWork ELSE working[q]
      BY <2>2, NoWorkIs, WorksIs
    <2>4. k \in KeyIds /\ Given(key, k)
      BY <1>0, <1>4 DEF RevokeReplaced, IsReplaced, KeysInv, RotationsGive
    <2> HIDE DEF row, k
    <2> QED BY <2>1, <2>2, <2>3, <2>4, MarkKeeps
  <1>5. ASSUME NEW r \in Requests, KeyRequestFails(r) PROVE KeysInv'
    BY <1>0, <1>5, NoWorkIs, WorkKeeps DEF KeyRequestFails
  <1>6. ASSUME NEW r \in Requests, NEW k \in KeyIds, ForceRotate(r, k) PROVE KeysInv'
    <2> DEFINE work == [NoWork EXCEPT !.at = "force", !.key = k]
    <2>1. work \in KeyWork /\ work.at = "force" /\ work.key = k
      BY DEF NoWork, KeyWork
    <2>2. Works(r, work) /\ UNCHANGED <<key, issued, together>> /\ k <= issued
      BY <1>0, <1>6 DEF ForceRotate, BeginsWork, IsLive
    <2> HIDE DEF work
    <2> QED BY <2>1, <2>2, WorkKeeps
  <1>7. ASSUME NEW r \in Requests, NEW k \in KeyIds, Rotate(r, k) PROVE KeysInv'
    <2> DEFINE work == [NoWork EXCEPT !.at = "rotate", !.key = k]
    <2>1. work \in KeyWork /\ work.at = "rotate" /\ work.key = k
      BY DEF NoWork, KeyWork
    <2>2. Works(r, work) /\ UNCHANGED <<key, issued, together>> /\ k <= issued
      BY <1>0, <1>7 DEF Rotate, BeginsWork
    <2> HIDE DEF work
    <2> QED BY <2>1, <2>2, WorkKeeps
  <1>8. ASSUME UNCHANGED <<key, issued, working, together>> PROVE KeysInv'
    BY <1>8 DEF KeysInv, KeyRowsOK, KeyWorkOK, KeysAreThere, ReadingKeys, Placing, Between, RotationsGive, KeysHaveRoom, Spared,
                PortalKeys, ToRevoke, Overlaps, IsLive, Exists
  <1>9. ASSUME NEW k \in KeyIds, NEW account \in {"own", "other"}, ShowKey(k, account) PROVE KeysInv'
    BY <1>8, <1>9 DEF ShowKey
  <1>10. CASE UNCHANGED keyVars
    BY <1>8, <1>10 DEF keyVars
  <1> QED BY <1>1, <1>2, <1>3, <1>4, <1>5, <1>6, <1>7, <1>9, <1>10, IssueKeeps, ReplacementKeeps, MobileKeyKeeps,
             RevokeEarlierKeeps, AskPortalKeeps, StartKeeps DEF KeysNext

\* What is promised follows.
LEMMA KeysKept == KeysInv => KeysAreReplaced
  <1> SUFFICES ASSUME KeysInv PROVE KeysAreReplaced
    OBVIOUS
  <1>1. {} \in SUBSET ReadingKeys /\ PortalKeys \ ToRevoke({}) = PortalKeys
    BY DEF ToRevoke
  <1>2. Spared({}) + Cardinality(Placing) + Cardinality({}) <= Overlaps
    BY <1>1 DEF KeysInv, KeysHaveRoom
  <1>3. Spared({}) = Cardinality(PortalKeys) /\ Cardinality({}) = 0
    BY <1>1, FS_EmptySet DEF Spared
  <1>4. Spared({}) \in Nat /\ Cardinality(Placing) \in Nat /\ Overlaps \in Nat
    BY KeysAreCounted DEF KeysInv
  <1>5. Cardinality(PortalKeys) <= Overlaps
    BY <1>2, <1>3, <1>4
  <1>6. \A k \in KeyIds : key[k].revoked = "rotation" => Given(key, k)
    BY DEF KeysInv, RotationsGive
  <1> QED BY <1>5, <1>6 DEF KeysAreReplaced, PortalKeys, Overlaps, Given

-----------------------------------------------------------------------------
(* Signups for the demo.                                                   *)

Joining == [at : {"idle", "session", "look", "insert", "count", "issue", "ensure"},
            public : BOOLEAN, account : SubAccounts]

\* Rows are typed, requests are about accounts, and nothing a signup has read before makes
\* it write over a plan that was paid for meanwhile.
DemoInv ==
    /\ sub \in [SubAccounts -> SubRow]
    /\ joining \in [Requests -> Joining]
    /\ payers \subseteq SubAccounts
    /\ PaidPlansStay

\* A request that rests.
LEMMA NotJoiningTyped == NotJoining \in Joining
  <1>1. (CHOOSE a \in SubAccounts : TRUE) \in SubAccounts
    BY DemoAssumption DEF SubAccounts
  <1> QED BY <1>1 DEF NotJoining, Joining

\* The invariant holds at the start.
LEMMA InitDemo == DemoInit => DemoInv
  <1> SUFFICES ASSUME DemoInit PROVE DemoInv
    OBVIOUS
  <1>1. NoSub \in SubRow
    BY DEF NoSub, SubRow
  <1> QED BY <1>1, NotJoiningTyped DEF DemoInit, DemoInv, PaidPlansStay

\* A row that is written is another plan's only where nobody has paid.
LEMMA RowKeepsPlans ==
    ASSUME DemoInv, NEW a \in SubAccounts, NEW new \in SubRow, sub' = [sub EXCEPT ![a] = new],
           payers' \in {payers, payers \cup {a}}, joining' \in [Requests -> Joining],
           a \in payers' => new.plan = "paid"
    PROVE  DemoInv'
  BY DEF DemoInv, PaidPlansStay

\* Every step keeps it.
LEMMA NextDemo == DemoInv /\ [DemoNext]_demoVars => DemoInv'
  <1> SUFFICES ASSUME DemoInv, [DemoNext]_demoVars PROVE DemoInv'
    OBVIOUS
  <1>0. /\ sub \in [SubAccounts -> SubRow] /\ joining \in [Requests -> Joining]
        /\ \A a \in SubAccounts : sub[a] \in SubRow
        /\ NotJoining \in Joining
    BY NotJoiningTyped DEF DemoInv
  <1>1. ASSUME UNCHANGED <<sub, payers>>, joining' \in [Requests -> Joining] PROVE DemoInv'
    BY <1>1 DEF DemoInv, PaidPlansStay
  <1>2. ASSUME NEW r \in Requests, InsertDemo(r) PROVE DemoInv'
    <2> DEFINE a == joining[r].account
               new == [plan |-> "demo", alive |-> TRUE, mail |-> joining[r].public, portal |-> TRUE]
    <2>1. joining' \in [Requests -> Joining]
      BY <1>0, <1>2 DEF InsertDemo, Joins, LeavesSignup, Joining
    <2>2. CASE sub' = sub
      BY <1>1, <1>2, <2>1, <2>2 DEF InsertDemo
    <2>3. CASE sub[a].plan = "none" /\ sub' = [sub EXCEPT ![a] = new]
      <3>1. a \notin payers
        BY <2>3 DEF DemoInv, PaidPlansStay
      <3>2. payers' = payers
        BY <1>2 DEF InsertDemo
      <3>3. a \in SubAccounts /\ joining[r].public \in BOOLEAN
        BY <1>0 DEF Joining
      <3>4. new \in SubRow
        BY <3>3 DEF SubRow
      <3> QED BY <2>1, <2>3, <3>1, <3>2, <3>3, <3>4, RowKeepsPlans
    <2> QED BY <1>2, <2>2, <2>3 DEF InsertDemo, MayInsert
  <1>3. ASSUME NEW a \in SubAccounts, MemberPays(a) PROVE DemoInv'
    <2> DEFINE new == [plan |-> "paid", alive |-> TRUE, mail |-> sub[a].mail, portal |-> TRUE]
    <2>1. new \in SubRow /\ new.plan = "paid"
      BY <1>0 DEF SubRow
    <2> QED BY <1>0, <1>3, <2>1, RowKeepsPlans DEF MemberPays
  <1>4. ASSUME NEW a \in SubAccounts, StorePreset(a) PROVE DemoInv'
    <2> DEFINE new == [sub[a] EXCEPT !.plan = "demo"]
    <2>1. new \in SubRow /\ sub' = [sub EXCEPT ![a] = new]
      BY <1>0, <1>4 DEF SubRow, StorePreset
    <2>2. a \notin payers
      BY <1>4 DEF StorePreset, NoSub, DemoInv, PaidPlansStay
    <2>3. payers' = payers /\ joining' = joining
      BY <1>4 DEF StorePreset
    <2> HIDE DEF new
    <2> QED BY <1>0, <2>1, <2>2, <2>3, RowKeepsPlans
  <1>5. ASSUME NEW a \in SubAccounts, SubEnds(a) PROVE DemoInv'
    <2> DEFINE new == [sub[a] EXCEPT !.alive = FALSE]
    <2>1. new \in SubRow /\ new.plan = sub[a].plan /\ sub' = [sub EXCEPT ![a] = new]
      BY <1>0, <1>5 DEF SubRow, SubEnds
    <2>2. a \in payers => new.plan = "paid"
      BY <2>1 DEF DemoInv, PaidPlansStay
    <2>3. payers' = payers /\ joining' = joining
      BY <1>5 DEF SubEnds
    <2> HIDE DEF new
    <2> QED BY <1>0, <2>1, <2>2, <2>3, RowKeepsPlans
  <1>6. ASSUME NEW r \in Requests, NEW yes \in BOOLEAN, AskDemo(r, yes) \/ IssueDemoKey(r, yes) \/ EnsureDemoKey(r, yes)
        PROVE DemoInv'
    BY <1>0, <1>1, <1>6 DEF AskDemo, IssueDemoKey, EnsureDemoKey, Joins, LeavesSignup, Joining
  <1>7. ASSUME NEW r \in Requests, NEW a \in SubAccounts, OpenDemoSession(r, a) \/ AskAttach(r, a)
        PROVE DemoInv'
    BY <1>0, <1>1, <1>7 DEF OpenDemoSession, AskAttach, Joining
  <1>8. ASSUME NEW r \in Requests, LookUpAccount(r) \/ CountDemoKeys(r) \/ SignupFails(r)
        PROVE DemoInv'
    BY <1>0, <1>1, <1>8 DEF LookUpAccount, CountDemoKeys, SignupFails, Joins, LeavesSignup, Joining
  <1>9. CASE UNCHANGED demoVars
    BY <1>0, <1>1, <1>9 DEF demoVars
  <1> QED BY <1>2, <1>3, <1>4, <1>5, <1>6, <1>7, <1>8, <1>9 DEF DemoNext

-----------------------------------------------------------------------------
(* Which pairs are traded.                                                 *)

RoutingInv ==
    /\ tables \in Tables
    /\ offered \subseteq Pairs /\ handed \subseteq Pairs
    /\ \A p \in handed : IsAuthorized(tables, p)

\* The invariant holds at the start.
LEMMA InitRouting == RoutingInit => RoutingInv
  BY DEF RoutingInit, RoutingInv

\* Every step keeps it.
LEMMA NextRouting == RoutingInv /\ [RoutingNext]_routingVars => RoutingInv'
  <1> SUFFICES ASSUME RoutingInv, [RoutingNext]_routingVars PROVE RoutingInv'
    OBVIOUS
  <1> USE DEF RoutingInv
  <1>1. ASSUME NEW p \in Pairs, OfferSignal(p) PROVE RoutingInv'
    BY <1>1 DEF OfferSignal
  <1>2. ASSUME NEW ps, PollPairs(ps) PROVE RoutingInv'
    <2> DEFINE got == { p \in ps \cap offered : IsAuthorized(tables, p) }
    <2>1. handed' = handed \cup got /\ offered' = offered \ got /\ tables' = tables
      BY <1>2 DEF PollPairs
    <2>2. got \subseteq Pairs /\ \A p \in got : IsAuthorized(tables, p)
      OBVIOUS
    <2> HIDE DEF got
    <2> QED BY <2>1, <2>2
  <1>3. ASSUME UNCHANGED <<tables, offered, handed>> PROVE RoutingInv'
    BY <1>3
  <1>4. ASSUME NEW t \in Tables, Deploy(t) PROVE RoutingInv'
    BY <1>4 DEF Deploy
  <1> QED BY <1>1, <1>2, <1>3, <1>4 DEF RoutingNext, PollUniverse, AskRoute, RunAcceptance,
            ActivateProfile, routingVars

\* Of the router's refusals only that for want of a rulebook can hold for a pair that the
\* registry service authorizes.
LEMMA AuthorizedIsRouted ==
    ASSUME NEW t \in Tables, t.rows # << >>, NEW p \in Pairs, IsAuthorized(t, p)
    PROVE  RouteOf(t, Research(p)).state =
               IF EligibleIds(t, Research(p)) = {} THEN "NO_QUALIFIED_RULEBOOK"
               ELSE "ROUTABLE_RESEARCH"
  <1> DEFINE probe == Research(p)
             refusals == Refusals(t, probe)
             refused == { i \in DOMAIN refusals : refusals[i].holds }
  <1>1. probe.pair = p /\ probe.m5 = TRUE /\ probe.spread = TRUE /\ probe.production = FALSE
    BY DEF Research
  <1>2. ListedAt(t, p) # {} /\ IsGood(FirstRow(t, p)) /\ FirstRow(t, p).status \in Tradeable
    BY DEF IsAuthorized, IsGood, IsTradeable
  <1>3. RowOf(t, p).status \notin Disabled
    BY <1>2 DEF RowOf, Disabled, Tradeable
  <1> HIDE DEF probe
  <1>4. DOMAIN refusals = 1..6
    BY DEF Refusals
  <1>5. /\ ~refusals[1].holds /\ ~refusals[2].holds /\ ~refusals[3].holds
        /\ ~refusals[4].holds /\ ~refusals[6].holds
        /\ refusals[5].holds = (EligibleIds(t, probe) = {})
        /\ refusals[5].state = "NO_QUALIFIED_RULEBOOK"
    BY <1>1, <1>2, <1>3 DEF Refusals
  <1> HIDE DEF refusals
  <1>6. refused = IF EligibleIds(t, probe) = {} THEN {5} ELSE {}
    <2>1. ASSUME NEW i \in 1..6
          PROVE  i \in refused <=> i = 5 /\ EligibleIds(t, probe) = {}
      <3>1. i = 1 \/ i = 2 \/ i = 3 \/ i = 4 \/ i = 5 \/ i = 6
        OBVIOUS
      <3> QED BY <1>4, <1>5, <3>1
    <2>2. refused \subseteq 1..6
      BY <1>4
    <2> HIDE DEF refused
    <2>3. CASE EligibleIds(t, probe) = {}
      <3>1. \A i \in 1..6 : i \in refused <=> i = 5
        BY <2>1, <2>3
      <3>2. 5 \in 1..6
        OBVIOUS
      <3>3. \A i : i \in refused <=> i \in {5}
        BY <2>2, <3>1, <3>2, Zenon
      <3>4. refused = {5}
        BY <3>3, Zenon
      <3> QED BY <2>3, <3>4, Zenon
    <2>4. CASE EligibleIds(t, probe) # {}
      <3>1. \A i \in 1..6 : i \notin refused
        BY <2>1, <2>4
      <3>2. refused = {}
        BY <2>2, <3>1, Zenon
      <3> QED BY <2>4, <3>2, Zenon
    <2> QED BY <2>3, <2>4
  <1> HIDE DEF refused
  <1>7. Min({5}) = 5
    BY DEF Min
  <1>8. RouteOf(t, probe).state = IF refused = {} THEN "ROUTABLE_RESEARCH"
                                  ELSE refusals[Min(refused)].state
    BY DEF RouteOf, refusals, refused
  <1> QED BY <1>5, <1>6, <1>7, <1>8 DEF probe

\* What is promised follows.
LEMMA HandedIsRouted == RoutingInv => HandedPairsAreRouted
  BY AuthorizedIsRouted DEF RoutingInv, HandedPairsAreRouted

-----------------------------------------------------------------------------
(* What is said in the rooms and threads.                                  *)

Threads == Channels \ {Room}

ChatRow == [channel : Channels, author : ChatAccounts \cup {0},
            state : {"none", "inserted", "gone", "shown", "deleted"}]

ReaderRec == [first : Nat, last : Nat, got : SUBSET MessageIds, heard : SUBSET Nat]

WriteRec == [at : {"idle", "name", "thread", "post", "commit", "tell"}, by : ChatAccounts,
             channel : Channels, name : Names \cup {0}, new : BOOLEAN, id : Nat]

ReportRec == [message : MessageIds, status : {"open", "reviewed", "dismissed", "actioned"}]

ChatOK ==
    /\ profile \in [ChatAccounts -> Names \cup {0} \cup ChatAccounts]
    /\ chat \in [MessageIds -> ChatRow]
    /\ writing \in [Requests -> WriteRec]
    /\ reader \in [Channels -> ReaderRec]
    /\ reports \in Seq(ReportRec)
    /\ threads \subseteq Threads
    /\ \A r \in Requests : writing[r].at = "thread" => writing[r].channel \in Threads

NamesDiffer == \A a, b \in ChatAccounts : a # b /\ profile[a] # 0 => profile[a] # profile[b]

\* A message that others have seen, or that an operator has removed since.
WasShown(m) == chat[m].state \in {"shown", "deleted"}

\* The same of a message of one channel.
SeenIn(c, m) == WasShown(m) /\ chat[m].channel = c

\* Ids are given out one after the other; a later one of the same channel that is shown has
\* overtaken the others.
IdsAreInARow == \A m \in MessageIds : chat[m].state # "none" => m \in 1..Cardinality(Inserted)

OvertakenAreNoted ==
    \A m, n \in MessageIds :
        chat[m].state = "inserted" /\ SeenIn(chat[m].channel, n) /\ m < n => m \in overtaken

\* Each request that has inserted a message commits its own.
CommitsItsOwn ==
    /\ \A r \in Requests : writing[r].at = "commit" =>
          writing[r].id \in MessageIds /\ chat[writing[r].id].state = "inserted"
    /\ \A r, q \in Requests : r # q /\ writing[r].at = "commit" /\ writing[q].at = "commit" =>
          writing[r].id # writing[q].id

ReportedWereShown == \A k \in 1..Len(reports) : WasShown(reports[k].message)

\* A reader is at a message that was shown, and has what is listed before it.
ReaderMissesNothing(c) ==
    /\ reader[c].first = 0 <=> reader[c].last = 0
    /\ reader[c].last # 0 => reader[c].last \in MessageIds /\ SeenIn(c, reader[c].last)
    /\ \A m \in Shown(c) : m \in reader[c].first..reader[c].last => m \in reader[c].got \cup overtaken

ReadersMiss == \A c \in Channels : ReaderMissesNothing(c)

ChatInv == /\ ChatOK /\ NamesDiffer /\ IdsAreInARow /\ OvertakenAreNoted
           /\ CommitsItsOwn /\ ReportedWereShown /\ ReadersMiss

-----------------------------------------------------------------------------
\* Messages are numbered from one.
LEMMA IdsAreNat == ASSUME NEW m \in MessageIds PROVE m \in Nat /\ m >= 1 /\ m <= MaxMessages
  BY ChatAssumption DEF MessageIds

\* They are finitely many.
LEMMA IdsAreFinite == ASSUME NEW S, S \subseteq MessageIds PROVE IsFiniteSet(S) /\ Cardinality(S) \in Nat
  <1>1. IsFiniteSet(1..MaxMessages)
    BY ChatAssumption, FS_Interval
  <1>2. IsFiniteSet(S)
    BY <1>1, FS_Subset DEF MessageIds
  <1> QED BY <1>2, FS_CardinalityType

\* The extreme messages of a page exist.
LEMMA LastOfPage ==
    ASSUME NEW S, S \subseteq MessageIds, S # {} PROVE \E m \in S : \A n \in S : m >= n
  <1> DEFINE above(m) == { n \in S : n > m }
             Bad == { above(m) : m \in S }
  <1>1. IsFiniteSet(S) /\ Bad \in SUBSET SUBSET S /\ Bad # {}
    BY IdsAreFinite
  <1>2. PICK T \in Bad : \A U \in Bad : U \subseteq T => U = T
    <2> HIDE DEF Bad
    <2> QED BY <1>1, SmallestSubset
  <1>3. PICK m \in S : T = above(m)
    BY <1>2
  <1>4. ASSUME NEW n \in S, ~(m >= n) PROVE FALSE
    <2>1. m \in Nat /\ n \in Nat /\ \A k \in S : k \in Nat
      BY IdsAreNat
    <2>2. n > m
      BY ONLY <1>4, <2>1
    <2>3. \A k \in S : k > n => k > m
      BY ONLY <2>1, <2>2
    <2>4. above(n) \subseteq above(m) /\ above(n) \in Bad
      BY <2>3
    <2>5. above(n) = above(m)
      BY <1>2, <1>3, <2>4
    <2>6. n \in above(m)
      BY <2>2
    <2>7. n > n
      BY <2>5, <2>6
    <2> QED BY ONLY <2>1, <2>7
  <1> QED BY <1>4

\* The same at the other end.
LEMMA FirstOfPage ==
    ASSUME NEW S, S \subseteq MessageIds, S # {} PROVE \E m \in S : \A n \in S : m <= n
  <1> DEFINE below(m) == { n \in S : n < m }
             Bad == { below(m) : m \in S }
  <1>1. IsFiniteSet(S) /\ Bad \in SUBSET SUBSET S /\ Bad # {}
    BY IdsAreFinite
  <1>2. PICK T \in Bad : \A U \in Bad : U \subseteq T => U = T
    <2> HIDE DEF Bad
    <2> QED BY <1>1, SmallestSubset
  <1>3. PICK m \in S : T = below(m)
    BY <1>2
  <1>4. ASSUME NEW n \in S, ~(m <= n) PROVE FALSE
    <2>1. m \in Nat /\ n \in Nat /\ \A k \in S : k \in Nat
      BY IdsAreNat
    <2>2. n < m
      BY ONLY <1>4, <2>1
    <2>3. \A k \in S : k < n => k < m
      BY ONLY <2>1, <2>2
    <2>4. below(n) \subseteq below(m) /\ below(n) \in Bad
      BY <2>3
    <2>5. below(n) = below(m)
      BY <1>2, <1>3, <2>4
    <2>6. n \in below(m)
      BY <2>2
    <2>7. n < n
      BY <2>5, <2>6
    <2> QED BY ONLY <2>1, <2>7
  <1> QED BY <1>4

\* A page of the oldest has what comes before a member of it, one of the newest what comes after.
LEMMA OldestAreFirst ==
    ASSUME NEW S, S \subseteq MessageIds, NEW n \in Oldest(S), NEW m \in S, m <= n
    PROVE  m \in Oldest(S)
  <1> DEFINE below(k) == { x \in S : x < k }
  <1>1. m \in Nat /\ n \in Nat /\ n \in S /\ \A x \in S : x \in Nat
    BY IdsAreNat DEF Oldest
  <1>2. \A x \in S : x < m => x < n
    BY ONLY <1>1, m <= n
  <1>3. below(m) \subseteq below(n) /\ below(n) \subseteq MessageIds /\ below(m) \subseteq MessageIds
    BY <1>2
  <1> HIDE DEF below
  <1>4. IsFiniteSet(below(n)) /\ Cardinality(below(n)) \in Nat /\ Cardinality(below(m)) \in Nat
    BY <1>3, IdsAreFinite
  <1>5. Cardinality(below(m)) <= Cardinality(below(n))
    BY <1>3, <1>4, FS_Subset
  <1>6. Cardinality(below(n)) < ChatPage /\ ChatPage \in Nat
    BY ChatAssumption DEF Oldest, below
  <1>7. Cardinality(below(m)) < ChatPage
    BY ONLY <1>4, <1>5, <1>6
  <1> QED BY <1>7 DEF Oldest, below

\* The same of a page of the newest.
LEMMA NewestAreLast ==
    ASSUME NEW S, S \subseteq MessageIds, NEW n \in Newest(S), NEW m \in S, m >= n
    PROVE  m \in Newest(S)
  <1> DEFINE above(k) == { x \in S : x > k }
  <1>1. m \in Nat /\ n \in Nat /\ n \in S /\ \A x \in S : x \in Nat
    BY IdsAreNat DEF Newest
  <1>2. \A x \in S : x > m => x > n
    BY ONLY <1>1, m >= n
  <1>3. above(m) \subseteq above(n) /\ above(n) \subseteq MessageIds /\ above(m) \subseteq MessageIds
    BY <1>2
  <1> HIDE DEF above
  <1>4. IsFiniteSet(above(n)) /\ Cardinality(above(n)) \in Nat /\ Cardinality(above(m)) \in Nat
    BY <1>3, IdsAreFinite
  <1>5. Cardinality(above(m)) <= Cardinality(above(n))
    BY <1>3, <1>4, FS_Subset
  <1>6. Cardinality(above(n)) < ChatPage /\ ChatPage \in Nat
    BY ChatAssumption DEF Newest, above
  <1>7. Cardinality(above(m)) < ChatPage
    BY ONLY <1>4, <1>5, <1>6
  <1> QED BY <1>7 DEF Newest, above

-----------------------------------------------------------------------------
\* A set of numbers has a least one.
LEMMA LeastOfNumbers ==
    ASSUME NEW S, S \subseteq Nat, S # {} PROVE \E m \in S : \A n \in S : m <= n
  <1>1. PICK k \in S : TRUE
    OBVIOUS
  <1> DEFINE T == { n \in S : n <= k }
             below(m) == { n \in T : n < m }
             Bad == { below(m) : m \in T }
  <1>2. k \in Nat /\ \A n \in S : n \in Nat
    BY <1>1
  <1>3. T \subseteq 0..k /\ k \in T
    <2>1. \A n \in T : n \in Nat /\ n <= k
      BY <1>2
    <2>2. k <= k
      BY ONLY <1>2
    <2>3. k \in T
      BY <1>1, <2>2
    <2> HIDE DEF T
    <2> QED BY ONLY <1>2, <2>1, <2>3
  <1>4. IsFiniteSet(0..k)
    BY <1>2, FS_Interval
  <1>5. IsFiniteSet(T)
    BY <1>3, <1>4, FS_Subset
  <1>6. Bad \in SUBSET SUBSET T /\ Bad # {}
    BY <1>3
  <1>7. PICK U \in Bad : \A V \in Bad : V \subseteq U => V = U
    <2> HIDE DEF Bad, T
    <2> QED BY <1>5, <1>6, SmallestSubset
  <1>8. PICK m \in T : U = below(m)
    BY <1>7
  <1>9. ASSUME NEW n \in S, ~(m <= n) PROVE FALSE
    <2>1. m \in Nat /\ n \in Nat /\ m <= k /\ \A x \in T : x \in Nat
      BY <1>2, <1>8
    <2>2. n < m /\ n <= k
      BY ONLY <1>2, <1>9, <2>1
    <2>3. n \in T
      BY <2>2
    <2>4. \A x \in T : x < n => x < m
      BY ONLY <2>1, <2>2
    <2>5. below(n) \subseteq below(m) /\ below(n) \in Bad
      BY <2>3, <2>4
    <2>6. below(n) = below(m)
      BY <1>7, <1>8, <2>5
    <2>7. n \in below(m)
      BY <2>2, <2>3
    <2>8. n < n
      BY <2>6, <2>7
    <2> QED BY ONLY <2>1, <2>8
  <1> QED BY <1>8, <1>9

\* A channel is the room or a thread, and a thread is sorted.
LEMMA RoomIsNoThread == Room \in Channels /\ Threads \subseteq Channels /\ Threads = { t \in ChatAccounts \X ChatAccounts : t[1] < t[2] }
  BY DEF Channels, Threads, Room

\* A request that rests.
LEMMA IdleIsWriting == Idle \in WriteRec /\ Idle.at = "idle"
  <1>1. (CHOOSE a \in ChatAccounts : TRUE) \in ChatAccounts
    BY ChatAssumption
  <1> QED BY <1>1, RoomIsNoThread DEF Idle, NoWriting, WriteRec

\* A client that has read nothing.
LEMMA NewReaderIsReader ==
    /\ NewReader \in ReaderRec
    /\ NewReader.first = 0 /\ NewReader.last = 0 /\ NewReader.got = {}
  BY DEF NewReader, ReaderRec

\* A row that was not inserted.
LEMMA NoMessageIsRow == NoMessage \in ChatRow /\ NoMessage.state = "none"
  BY RoomIsNoThread DEF NoMessage, ChatRow

\* The invariant holds at the start.
LEMMA InitChat == ChatInit => ChatInv
  <1> SUFFICES ASSUME ChatInit PROVE ChatInv
    OBVIOUS
  <1>1. /\ chat = [m \in MessageIds |-> NoMessage] /\ writing = [r \in Requests |-> Idle]
        /\ reader = [c \in Channels |-> NewReader] /\ reports = << >>
    BY DEF ChatInit
  <1>2. /\ \A m \in MessageIds : chat[m].state = "none"
        /\ \A r \in Requests : writing[r].at = "idle"
        /\ \A c \in Channels : reader[c].first = 0 /\ reader[c].last = 0 /\ reader[c].got = {}
    BY <1>1, IdleIsWriting, NewReaderIsReader, NoMessageIsRow
  <1>3. /\ chat \in [MessageIds -> ChatRow] /\ writing \in [Requests -> WriteRec]
        /\ reader \in [Channels -> ReaderRec] /\ reports \in Seq(ReportRec)
    BY <1>1, IdleIsWriting, NewReaderIsReader, NoMessageIsRow
  <1>4. profile \in [ChatAccounts -> Names \cup {0} \cup ChatAccounts] /\ threads \subseteq Threads
    BY DEF ChatInit, Threads
  <1>5. ChatOK
    BY <1>2, <1>3, <1>4 DEF ChatOK
  <1>6. NamesDiffer
    BY DEF ChatInit, NamesDiffer
  <1>7. \A c \in Channels : Shown(c) = {}
    BY <1>2 DEF Shown
  <1>8. ReadersMiss
    BY <1>2, <1>7 DEF ReadersMiss, ReaderMissesNothing
  <1>9. Len(reports) = 0
    BY <1>1
  <1>10. ReportedWereShown
    BY <1>9 DEF ReportedWereShown
  <1>11. IdsAreInARow /\ OvertakenAreNoted /\ CommitsItsOwn
    BY <1>2 DEF IdsAreInARow, OvertakenAreNoted, CommitsItsOwn
  <1> QED BY <1>5, <1>6, <1>8, <1>10, <1>11 DEF ChatInv

\* A step of a request that leaves messages, readers and reports alone.
LEMMA WritingKeeps ==
    ASSUME ChatInv, NEW r \in Requests, NEW w \in WriteRec,
           writing' = [writing EXCEPT ![r] = w], w.at # "commit",
           w.at = "thread" => w.channel \in Threads,
           profile' \in [ChatAccounts -> Names \cup {0} \cup ChatAccounts], NamesDiffer',
           threads' \subseteq Threads,
           UNCHANGED <<chat, overtaken, reader, reports>>
    PROVE  ChatInv'
  <1>1. /\ ChatOK /\ IdsAreInARow /\ OvertakenAreNoted /\ CommitsItsOwn
        /\ ReportedWereShown /\ ReadersMiss
    BY DEF ChatInv
  <1>2. /\ writing' \in [Requests -> WriteRec]
        /\ \A q \in Requests : writing'[q] = IF q = r THEN w ELSE writing[q]
    BY <1>1 DEF ChatOK
  <1>3. ChatOK'
    BY <1>1, <1>2 DEF ChatOK
  <1>4. CommitsItsOwn'
    BY <1>1, <1>2 DEF CommitsItsOwn
  <1>5. IdsAreInARow' /\ OvertakenAreNoted' /\ ReportedWereShown'
    BY <1>1 DEF IdsAreInARow, OvertakenAreNoted, ReportedWereShown, SeenIn, WasShown, Inserted
  <1>6. ReadersMiss'
    BY <1>1 DEF ReadersMiss, ReaderMissesNothing, SeenIn, WasShown, Shown
  <1> QED BY <1>3, <1>4, <1>5, <1>6 DEF ChatInv

\* A step of nobody's writing.
LEMMA OthersKeep ==
    ASSUME ChatInv, UNCHANGED <<profile, threads, chat, writing, overtaken, reader, reports>>
    PROVE  ChatInv'
  BY DEF ChatInv, ChatOK, NamesDiffer, IdsAreInARow, OvertakenAreNoted, CommitsItsOwn,
         SeenIn, ReportedWereShown, ReadersMiss, ReaderMissesNothing, WasShown, Shown, Inserted

-----------------------------------------------------------------------------
\* A request of an account before it writes.
LEMMA NoWritingIsWriting ==
    ASSUME NEW a \in ChatAccounts
    PROVE  /\ NoWriting(a) \in WriteRec /\ NoWriting(a).channel = Room
           /\ NoWriting(a).by = a
  BY RoomIsNoThread DEF NoWriting, WriteRec

\* A request that takes a name is still a request.
LEMMA NamingIsWriting ==
    ASSUME NEW base \in WriteRec, NEW n \in Names, NEW new \in BOOLEAN
    PROVE  /\ [base EXCEPT !.at = "name", !.name = n, !.new = new] \in WriteRec
           /\ [base EXCEPT !.at = "name", !.name = n, !.new = new].at = "name"
           /\ [base EXCEPT !.at = "name", !.new = new, !.name = n] \in WriteRec
           /\ [base EXCEPT !.at = "name", !.new = new, !.name = n].at = "name"
  BY DEF WriteRec

\* A request about a channel is still a request.
LEMMA ChannelIsWriting ==
    ASSUME NEW base \in WriteRec, NEW c \in Channels, NEW at \in {"thread", "post"}
    PROVE  LET w == [base EXCEPT !.at = at, !.channel = c]
           IN  w \in WriteRec /\ w.at = at /\ w.channel = c
  BY DEF WriteRec

\* A request starts to write.
LEMMA ChatStartKeeps ==
    ASSUME ChatInv, NEW kind, NEW r \in Requests, NEW w \in WriteRec, StartsWriting(kind, r, w),
           w.at # "commit", w.at = "thread" => w.channel \in Threads,
           UNCHANGED <<profile, threads, chat, overtaken, reader, reports>>
    PROVE  ChatInv'
  <1>1. writing' = [writing EXCEPT ![r] = w]
    BY DEF StartsWriting
  <1>2. /\ profile' \in [ChatAccounts -> Names \cup {0} \cup ChatAccounts]
        /\ threads' \subseteq Threads
    BY DEF ChatInv, ChatOK
  <1>3. NamesDiffer'
    BY DEF ChatInv, NamesDiffer
  <1> QED BY <1>1, <1>2, <1>3, WritingKeeps

\* An account asks for a name.
LEMMA SetNameKeeps ==
    ASSUME ChatInv, NEW r \in Requests, NEW a \in ChatAccounts, NEW n \in Names, SetName(r, a, n)
    PROVE  ChatInv'
  <1>1. PICK new \in BOOLEAN : new = (profile[a] = 0)
    OBVIOUS
  <1> DEFINE w == [NoWriting(a) EXCEPT !.at = "name", !.name = n, !.new = new]
  <1>2. StartsWriting("name", r, w) /\ UNCHANGED <<profile, threads, chat, overtaken, reader, reports>>
    BY <1>1 DEF SetName
  <1>3. w \in WriteRec /\ w.at = "name"
    <2>1. NoWriting(a) \in WriteRec
      BY NoWritingIsWriting
    <2> QED BY ONLY <2>1, n \in Names, new \in BOOLEAN DEF WriteRec
  <1> QED BY <1>2, <1>3, ChatStartKeeps

\* A first sign of life takes the least variant of the name that is free.
LEMMA HeartbeatKeeps ==
    ASSUME ChatInv, NEW r \in Requests, NEW a \in ChatAccounts, Heartbeat(r, a)
    PROVE  ChatInv'
  <1> DEFINE free == { n \in Names : ~IsTaken(n, a) }
             name == CHOOSE n \in free : \A o \in free : n <= o
  <1>1. name \in Names
    <2>1. free # {} /\ free \subseteq Nat /\ free \subseteq Names
      BY ChatAssumption DEF Heartbeat
    <2>2. \E n \in free : \A o \in free : n <= o
      <3> HIDE DEF free
      <3> QED BY <2>1, LeastOfNumbers
    <2> HIDE DEF free
    <2> QED BY <2>1, <2>2
  <1>2. PICK new \in BOOLEAN : new = TRUE
    OBVIOUS
  <1>3. PICK n \in Names : n = name
    BY <1>1
  <1> DEFINE w == [NoWriting(a) EXCEPT !.at = "name", !.new = new, !.name = n]
  <1>4. StartsWriting("name", r, w) /\ UNCHANGED <<profile, threads, chat, overtaken, reader, reports>>
    BY <1>2, <1>3 DEF Heartbeat
  <1>5. w \in WriteRec /\ w.at = "name"
    <2>1. NoWriting(a) \in WriteRec
      BY NoWritingIsWriting
    <2> QED BY ONLY <2>1, n \in Names, new \in BOOLEAN DEF WriteRec
  <1> QED BY <1>4, <1>5, ChatStartKeeps

\* A thread is opened from either end: its name is sorted.
LEMMA OpenThreadKeeps ==
    ASSUME ChatInv, NEW r \in Requests, NEW a \in ChatAccounts, NEW peer \in ChatAccounts,
           OpenThread(r, a, peer)
    PROVE  ChatInv'
  <1> DEFINE w == [NoWriting(a) EXCEPT !.at = "thread", !.channel = ThreadOf(a, peer)]
  <1>1. /\ peer # a /\ StartsWriting("thread", r, w)
        /\ UNCHANGED <<profile, threads, chat, overtaken, reader, reports>>
    BY DEF OpenThread
  <1>2. a \in Nat /\ peer \in Nat
    BY ChatAssumption
  <1>3. ThreadOf(a, peer) \in Threads
    BY <1>1, <1>2, RoomIsNoThread DEF ThreadOf
  <1>4. w \in WriteRec /\ w.at = "thread" /\ w.channel = ThreadOf(a, peer)
    BY <1>3, NoWritingIsWriting, ChannelIsWriting, RoomIsNoThread
  <1> QED BY <1>1, <1>3, <1>4, ChatStartKeeps

\* A post begins.
LEMMA PostKeeps ==
    ASSUME ChatInv, NEW r \in Requests, NEW a \in ChatAccounts, NEW c \in Channels, Post(r, a, c)
    PROVE  ChatInv'
  <1> DEFINE w == [NoWriting(a) EXCEPT !.at = "post", !.channel = c]
  <1>1. StartsWriting("post", r, w) /\ UNCHANGED <<profile, threads, chat, overtaken, reader, reports>>
    BY DEF Post
  <1>2. w \in WriteRec /\ w.at = "post"
    BY NoWritingIsWriting, ChannelIsWriting
  <1> QED BY <1>1, <1>2, ChatStartKeeps

\* A name is written where nobody took it meanwhile.
LEMMA CommitNameKeeps == ASSUME ChatInv, NEW r \in Requests, CommitName(r) PROVE ChatInv'
  <1> DEFINE w == writing[r]
             refused == IsTaken(w.name, w.by) \/ (w.new /\ profile[w.by] # 0)
  <1>1. /\ profile' = IF refused THEN profile ELSE [profile EXCEPT ![w.by] = w.name]
        /\ writing' = [writing EXCEPT ![r] = Idle]
        /\ UNCHANGED <<threads, chat, overtaken, reader, reports>>
    BY DEF CommitName, StopsWriting
  <1>2. ChatOK /\ NamesDiffer /\ w \in WriteRec
    BY DEF ChatInv, ChatOK
  <1>3. w.by \in ChatAccounts /\ w.name \in Names \cup {0}
    BY <1>2 DEF WriteRec
  <1>4. profile' \in [ChatAccounts -> Names \cup {0} \cup ChatAccounts] /\ NamesDiffer'
    <2>1. CASE refused
      BY <1>1, <1>2, <2>1 DEF ChatOK, NamesDiffer
    <2>2. CASE ~refused
      <3>1. profile' = [profile EXCEPT ![w.by] = w.name]
        BY <1>1, <2>2
      <3>2. \A b \in ChatAccounts \ {w.by} : profile[b] # w.name
        BY <2>2 DEF IsTaken
      <3> HIDE DEF w
      <3> QED BY <1>2, <1>3, <3>1, <3>2 DEF ChatOK, NamesDiffer
    <2> QED BY <2>1, <2>2
  <1>5. threads' \subseteq Threads
    BY <1>1, <1>2 DEF ChatOK
  <1> QED BY <1>1, <1>4, <1>5, IdleIsWriting, WritingKeeps

\* A thread is written.
LEMMA CommitThreadKeeps == ASSUME ChatInv, NEW r \in Requests, CommitThread(r) PROVE ChatInv'
  <1>1. /\ writing[r].at = "thread" /\ threads' = threads \cup {writing[r].channel}
        /\ writing' = [writing EXCEPT ![r] = Idle]
        /\ UNCHANGED <<profile, chat, overtaken, reader, reports>>
    BY DEF CommitThread, StopsWriting
  <1>2. threads' \subseteq Threads
    BY <1>1 DEF ChatInv, ChatOK
  <1>3. profile' \in [ChatAccounts -> Names \cup {0} \cup ChatAccounts] /\ NamesDiffer'
    BY <1>1 DEF ChatInv, ChatOK, NamesDiffer
  <1> QED BY <1>1, <1>2, <1>3, IdleIsWriting, WritingKeeps

\* Names, threads and reports that a step of messages leaves alone.
NamesAlone == UNCHANGED <<profile, threads, reports>>

\* A message in another state is still a message.
LEMMA RowIsOfChat ==
    ASSUME NEW row \in ChatRow, NEW s \in {"none", "inserted", "gone", "shown", "deleted"}
    PROVE  LET new == [row EXCEPT !.state = s]
           IN  new \in ChatRow /\ new.state = s /\ new.channel = row.channel
  BY DEF ChatRow

\* A message that is inserted is one.
LEMMA NewRowIsOfChat ==
    ASSUME NEW c \in Channels, NEW a \in ChatAccounts
    PROVE  LET new == [channel |-> c, author |-> a, state |-> "inserted"]
           IN  new \in ChatRow /\ new.state = "inserted"
  BY DEF ChatRow

\* A request that has inserted a message is still a request.
LEMMA PlaceIsOfWriting ==
    ASSUME NEW w \in WriteRec, NEW at \in {"commit", "tell"}, NEW id \in Nat
    PROVE  /\ [w EXCEPT !.at = at, !.id = id] \in WriteRec
           /\ [w EXCEPT !.at = at, !.id = id].at = at
           /\ [w EXCEPT !.at = at, !.id = id].id = id
           /\ [w EXCEPT !.at = at] \in WriteRec /\ [w EXCEPT !.at = at].at = at
  BY DEF WriteRec

\* A message takes the next id; it is above everything that was shown.
LEMMA InsertKeeps == ASSUME ChatInv, NEW r \in Requests, InsertMessage(r) PROVE ChatInv'
  <1> DEFINE w == writing[r]
             count == Cardinality(Inserted)
             m == count + 1
             row == [channel |-> w.channel, author |-> w.by, state |-> "inserted"]
             new == [w EXCEPT !.at = "commit", !.id = m]
  <1>1. /\ m \in MessageIds /\ chat' = [chat EXCEPT ![m] = row]
        /\ writing' = [writing EXCEPT ![r] = new]
        /\ UNCHANGED <<profile, threads, overtaken, reader, reports>>
    BY DEF InsertMessage
  <1>2. /\ ChatOK /\ NamesDiffer /\ IdsAreInARow /\ OvertakenAreNoted /\ CommitsItsOwn
        /\ ReportedWereShown /\ ReadersMiss
    BY DEF ChatInv
  <1>3. w \in WriteRec /\ chat \in [MessageIds -> ChatRow]
    BY <1>2 DEF ChatOK
  <1>4. Inserted \subseteq MessageIds /\ IsFiniteSet(Inserted) /\ count \in Nat
    BY IdsAreFinite DEF Inserted
  <1>5. m \in Nat
    BY <1>4
  <1>6. row \in ChatRow /\ row.state = "inserted"
    <2>1. w.channel \in Channels /\ w.by \in ChatAccounts
      BY <1>3 DEF WriteRec
    <2> QED BY <2>1, NewRowIsOfChat
  <1>7. new \in WriteRec /\ new.at = "commit" /\ new.id = m
    <2> HIDE DEF w, m
    <2> QED BY ONLY <1>3, <1>5 DEF WriteRec
  <1>8. m \notin 1..count
    BY <1>4
  <1>9. chat[m].state = "none"
    BY <1>1, <1>2, <1>8 DEF IdsAreInARow
  <1> HIDE DEF row, new, w
  <1>10. /\ chat' \in [MessageIds -> ChatRow] /\ chat'[m] = row
         /\ \A k \in MessageIds : k # m => chat'[k] = chat[k]
    BY <1>1, <1>3, <1>6
  <1>11. /\ writing' \in [Requests -> WriteRec] /\ writing'[r] = new
         /\ \A q \in Requests : q # r => writing'[q] = writing[q]
    BY <1>1, <1>2, <1>7 DEF ChatOK
  <1>12. ChatOK'
    BY <1>1, <1>2, <1>7, <1>10, <1>11 DEF ChatOK
  <1>13. NamesDiffer'
    BY <1>1, <1>2 DEF NamesDiffer
  <1>14. Inserted' = Inserted \cup {m} /\ m \notin Inserted
    BY <1>1, <1>6, <1>9, <1>10 DEF Inserted
  <1>15. Cardinality(Inserted)' = m
    BY <1>4, <1>14, FS_AddElement
  <1>16. IdsAreInARow'
    <2>1. \A k \in 1..count : k \in 1..m
      BY ONLY <1>4
    <2>2. m \in 1..m
      BY ONLY <1>4
    <2> HIDE DEF m, count
    <2>3. ASSUME NEW k \in MessageIds, chat'[k].state # "none" PROVE k \in 1..m
      <3>1. CASE k = m
        BY <2>2, <3>1
      <3>2. CASE k # m
        BY <1>2, <1>10, <2>1, <2>3, <3>2 DEF IdsAreInARow, count
      <3> QED BY <3>1, <3>2
    <2> QED BY <1>15, <2>3 DEF IdsAreInARow
  <1>17. \A n \in MessageIds : WasShown(n)' <=> WasShown(n)
    BY <1>6, <1>9, <1>10 DEF WasShown
  <1>18. \A n \in MessageIds : WasShown(n) => ~(m < n)
    <2>1. ASSUME NEW n \in MessageIds, WasShown(n) PROVE ~(m < n)
      <3>1. n \in 1..count
        BY <1>2, <2>1 DEF IdsAreInARow, WasShown
      <3> QED BY ONLY <1>4, <3>1
    <2> QED BY <2>1
  <1> HIDE DEF m, count
  <1>19. OvertakenAreNoted'
    <2>1. ASSUME NEW k \in MessageIds, NEW n \in MessageIds, chat'[k].state = "inserted",
                 SeenIn(chat[k].channel, n)', k < n
          PROVE  k \in overtaken
      <3>1. WasShown(n)
        BY <1>17, <2>1 DEF SeenIn
      <3>2. k # m /\ n # m
        BY <1>9, <1>18, <2>1, <3>1 DEF WasShown
      <3>3. SeenIn(chat[k].channel, n)
        BY <1>10, <2>1, <3>1, <3>2 DEF SeenIn
      <3> QED BY <1>2, <1>10, <2>1, <3>2, <3>3 DEF OvertakenAreNoted
    <2> QED BY <1>1, <2>1 DEF OvertakenAreNoted
  <1>20. CommitsItsOwn'
    <2>1. ASSUME NEW q \in Requests, q # r, writing[q].at = "commit"
          PROVE  /\ writing[q].id \in MessageIds /\ writing[q].id # m
                 /\ chat'[writing[q].id].state = "inserted"
      BY <1>2, <1>9, <1>10, <2>1 DEF CommitsItsOwn
    <2> QED BY <1>1, <1>2, <1>6, <1>7, <1>10, <1>11, <2>1 DEF CommitsItsOwn
  <1>21. ReportedWereShown'
    <2>1. ASSUME NEW k \in 1..Len(reports) PROVE reports[k].message \in MessageIds
      <3>1. reports \in Seq(ReportRec)
        BY <1>2 DEF ChatOK
      <3>2. reports[k] \in ReportRec
        BY <3>1
      <3> QED BY <3>2 DEF ReportRec
    <2> QED BY <1>1, <1>2, <1>17, <2>1 DEF ReportedWereShown
  <1>22. \A c : Shown(c)' = Shown(c)
    BY <1>6, <1>9, <1>10 DEF Shown
  <1>24. \A c : \A n \in MessageIds : SeenIn(c, n) => SeenIn(c, n)'
    BY <1>9, <1>10, <1>17 DEF SeenIn, WasShown
  <1>23. ReadersMiss'
    <2>1. ASSUME NEW c \in Channels, NEW n, n = reader[c].last, n \in MessageIds, SeenIn(c, n)
          PROVE  SeenIn(c, reader[c].last)'
      BY <1>1, <1>24, <2>1 DEF SeenIn, WasShown
    <2> QED BY <1>1, <1>2, <1>22, <2>1 DEF ReadersMiss, ReaderMissesNothing
  <1> QED BY <1>12, <1>13, <1>16, <1>19, <1>20, <1>21, <1>23 DEF ChatInv

\* A message that a request has inserted is committed or rolled back.
LEMMA SettledKeeps ==
    ASSUME ChatInv, NEW r \in Requests, NEW w \in WriteRec, NEW id \in MessageIds,
           writing[r].at = "commit", writing[r].id = id,
           writing' = [writing EXCEPT ![r] = w], w.at \in {"idle", "tell"},
           NEW s, s = "gone" \/ s = "shown", chat' = [chat EXCEPT ![id].state = s],
           overtaken \subseteq overtaken',
           s = "shown" => \A k \in MessageIds :
               k < id /\ chat[k].state = "inserted" /\ chat[k].channel = chat[id].channel
                   => k \in overtaken',
           UNCHANGED <<profile, threads, reader, reports>>
    PROVE  ChatInv'
  <1>1. /\ ChatOK /\ NamesDiffer /\ IdsAreInARow /\ OvertakenAreNoted /\ CommitsItsOwn
        /\ ReportedWereShown /\ ReadersMiss
    BY DEF ChatInv
  <1>2. chat \in [MessageIds -> ChatRow] /\ chat[id] \in ChatRow /\ chat[id].state = "inserted"
    BY <1>1 DEF ChatOK, CommitsItsOwn
  <1> DEFINE row == [chat[id] EXCEPT !.state = s]
  <1>3. row \in ChatRow /\ row.state = s /\ row.channel = chat[id].channel
    BY ONLY <1>2, s = "gone" \/ s = "shown" DEF ChatRow
  <1>4. chat' = [chat EXCEPT ![id] = row]
    BY <1>2
  <1> HIDE DEF row
  <1>5. /\ chat' \in [MessageIds -> ChatRow] /\ chat'[id] = row
        /\ \A k \in MessageIds : k # id => chat'[k] = chat[k]
    BY <1>2, <1>3, <1>4
  <1>6. /\ writing' \in [Requests -> WriteRec] /\ writing'[r] = w
        /\ \A q \in Requests : q # r => writing'[q] = writing[q]
    BY <1>1 DEF ChatOK
  <1>7. ChatOK'
    BY <1>1, <1>5, <1>6 DEF ChatOK
  <1>8. NamesDiffer'
    BY <1>1 DEF NamesDiffer
  <1>9. Inserted' = Inserted
    BY <1>2, <1>3, <1>5 DEF Inserted
  <1>10. IdsAreInARow'
    BY <1>1, <1>2, <1>5, <1>9 DEF IdsAreInARow
  <1>11. \A n \in MessageIds : n # id => (WasShown(n)' <=> WasShown(n))
    BY <1>5 DEF WasShown
  <1>12. ~WasShown(id) /\ (WasShown(id)' <=> s = "shown")
    BY <1>2, <1>3, <1>5 DEF WasShown
  <1>19. \A n \in MessageIds : chat'[n].channel = chat[n].channel
    BY <1>3, <1>5
  <1>13. OvertakenAreNoted'
    <2>1. ASSUME NEW k \in MessageIds, NEW n \in MessageIds, chat'[k].state = "inserted",
                 SeenIn(chat[k].channel, n)', k < n
          PROVE  k \in overtaken'
      <3>1. chat[k].state = "inserted"
        BY <1>3, <1>5, <2>1
      <3>4. WasShown(n)' /\ chat[n].channel = chat[k].channel
        BY <1>19, <2>1 DEF SeenIn
      <3>2. CASE n = id
        BY <1>12, <2>1, <3>1, <3>2, <3>4
      <3>3. CASE n # id
        <4>1. SeenIn(chat[k].channel, n)
          BY <1>11, <3>3, <3>4 DEF SeenIn
        <4> QED BY <1>1, <2>1, <3>1, <4>1 DEF OvertakenAreNoted
      <3> QED BY <3>2, <3>3
    <2> QED BY <2>1 DEF OvertakenAreNoted
  <1>14. CommitsItsOwn'
    <2>1. ASSUME NEW q \in Requests, q # r, writing[q].at = "commit"
          PROVE  /\ writing[q].id \in MessageIds /\ writing[q].id # id
                 /\ chat'[writing[q].id].state = "inserted"
      BY <1>1, <1>5, <2>1 DEF CommitsItsOwn
    <2> QED BY <1>1, <1>6, <2>1 DEF CommitsItsOwn
  <1>15. \A n \in MessageIds : WasShown(n) => WasShown(n)' /\ n # id
    BY <1>11, <1>12
  <1>16. ReportedWereShown'
    <2>1. ASSUME NEW k \in 1..Len(reports) PROVE reports[k].message \in MessageIds
      <3>1. reports \in Seq(ReportRec)
        BY <1>1 DEF ChatOK
      <3>2. reports[k] \in ReportRec
        BY <3>1
      <3> QED BY <3>2 DEF ReportRec
    <2> QED BY <1>1, <1>15, <2>1 DEF ReportedWereShown
  <1>17. ASSUME NEW c \in Channels PROVE ReaderMissesNothing(c)'
    <2>1. /\ ReaderMissesNothing(c) /\ reader' = reader
          /\ reader[c].first \in Nat /\ reader[c].last \in Nat
      BY <1>1 DEF ReadersMiss, ChatOK, ReaderRec
    <2>2. Shown(c)' \subseteq Shown(c) \cup {id}
      BY <1>5 DEF Shown
    <2>3. ASSUME id \in reader[c].first..reader[c].last, chat[id].channel = c
          PROVE  id \in overtaken
      <3>1. id \in Nat /\ id >= 1
        BY IdsAreNat
      <3>2. reader[c].last # 0 /\ id <= reader[c].last
        BY ONLY <2>1, <2>3, <3>1
      <3>3. reader[c].last \in MessageIds /\ SeenIn(c, reader[c].last)
        BY <2>1, <3>2 DEF ReaderMissesNothing
      <3>4. reader[c].last # id
        BY <1>12, <3>3 DEF SeenIn
      <3>5. id < reader[c].last
        BY ONLY <2>1, <3>1, <3>2, <3>4
      <3> QED BY <1>1, <1>2, <2>3, <3>3, <3>5 DEF OvertakenAreNoted
    <2>6. id \in Shown(c)' => chat[id].channel = c
      BY <1>19 DEF Shown
    <2>4. \A m \in Shown(c)' : m \in reader[c].first..reader[c].last
                                  => m \in reader[c].got \cup overtaken'
      BY <2>1, <2>2, <2>3, <2>6 DEF ReaderMissesNothing
    <2>5. reader[c].last # 0 => reader[c].last \in MessageIds /\ SeenIn(c, reader[c].last)'
      <3>1. ASSUME reader[c].last # 0
            PROVE  reader[c].last \in MessageIds /\ SeenIn(c, reader[c].last)
        BY <2>1, <3>1 DEF ReaderMissesNothing
      <3>2. ASSUME NEW n, n = reader[c].last, n \in MessageIds, SeenIn(c, n)
            PROVE  SeenIn(c, reader[c].last)'
        BY <1>15, <1>19, <2>1, <3>2 DEF SeenIn, WasShown
      <3> QED BY <3>1, <3>2
    <2> QED BY <2>1, <2>4, <2>5 DEF ReaderMissesNothing
  <1>18. ReadersMiss'
    BY <1>17 DEF ReadersMiss
  <1> QED BY <1>7, <1>8, <1>10, <1>13, <1>14, <1>16, <1>18 DEF ChatInv

\* A message is shown, and notes which earlier ones it has overtaken.
LEMMA CommitMessageKeeps == ASSUME ChatInv, NEW r \in Requests, CommitMessage(r) PROVE ChatInv'
  <1> DEFINE id == writing[r].id
             w == [writing[r] EXCEPT !.at = "tell"]
  <1>1. /\ writing[r].at = "commit" /\ chat' = [chat EXCEPT ![id].state = "shown"]
        /\ overtaken' = overtaken \cup { m \in 1..id - 1 :
                             chat[m].state = "inserted" /\ chat[m].channel = chat[id].channel }
        /\ writing' = [writing EXCEPT ![r].at = "tell"]
        /\ UNCHANGED <<profile, threads, reader, reports>>
    BY DEF CommitMessage
  <1>2. id \in MessageIds /\ writing[r] \in WriteRec /\ DOMAIN writing = Requests
    BY <1>1 DEF ChatInv, CommitsItsOwn, ChatOK
  <1>3. w \in WriteRec /\ w.at = "tell"
    BY <1>2, PlaceIsOfWriting DEF WriteRec
  <1>4. writing' = [writing EXCEPT ![r] = w]
    BY <1>1, <1>2
  <1>5. ASSUME NEW k \in MessageIds, k < id, chat[k].state = "inserted",
               chat[k].channel = chat[id].channel
        PROVE  k \in overtaken'
    <2>1. k \in Nat /\ k >= 1 /\ id \in Nat
      BY <1>2, IdsAreNat
    <2>2. k \in 1..id - 1
      BY ONLY <1>5, <2>1
    <2> QED BY <1>1, <1>5, <2>2
  <1>6. PICK k0 \in MessageIds : k0 = id
    BY <1>2
  <1>7. PICK w0 \in WriteRec : w0 = w /\ w0.at \in {"idle", "tell"}
    BY <1>3
  <1>8. PICK s \in {"gone", "shown"} : s = "shown"
    OBVIOUS
  <1>9. /\ writing[r].at = "commit" /\ writing[r].id = k0
        /\ writing' = [writing EXCEPT ![r] = w0] /\ w0.at \in {"idle", "tell"}
        /\ UNCHANGED <<profile, threads, reader, reports>>
    BY <1>1, <1>4, <1>6, <1>7
  <1>10. s = "gone" \/ s = "shown"
    BY <1>8
  <1>11. chat' = [chat EXCEPT ![k0].state = s] /\ overtaken \subseteq overtaken'
    BY <1>1, <1>6, <1>8
  <1>12. s = "shown" => \A k \in MessageIds :
             k < k0 /\ chat[k].state = "inserted" /\ chat[k].channel = chat[k0].channel
                 => k \in overtaken'
    BY <1>5, <1>6
  <1> QED BY <1>9, <1>10, <1>11, <1>12, SettledKeeps, Zenon

\* A request fails, and rolls back what it inserted.
LEMMA WritingFailsKeeps == ASSUME ChatInv, NEW r \in Requests, WritingFails(r) PROVE ChatInv'
  <1>1. /\ writing' = [writing EXCEPT ![r] = Idle]
        /\ chat' = IF writing[r].at = "commit" THEN [chat EXCEPT ![writing[r].id].state = "gone"]
                   ELSE chat
        /\ UNCHANGED <<profile, threads, overtaken, reader, reports>>
    BY DEF WritingFails, StopsWriting
  <1>2. CASE writing[r].at = "commit"
    <2>1. writing[r].id \in MessageIds
      BY <1>2 DEF ChatInv, CommitsItsOwn
    <2>2. PICK id \in MessageIds : id = writing[r].id
      BY <2>1
    <2>3. PICK s : s = "gone"
      OBVIOUS
    <2>4. chat' = [chat EXCEPT ![id].state = s]
      BY <1>1, <1>2, <2>2, <2>3
    <2>5. PICK w \in WriteRec : w = Idle /\ w.at \in {"idle", "tell"}
      BY IdleIsWriting
    <2>6. s # "shown" /\ (s = "gone" \/ s = "shown") /\ overtaken \subseteq overtaken'
      BY <1>1, <2>3
    <2>7. /\ writing[r].at = "commit" /\ writing[r].id = id
          /\ writing' = [writing EXCEPT ![r] = w] /\ w.at \in {"idle", "tell"}
          /\ UNCHANGED <<profile, threads, reader, reports>>
      BY <1>1, <1>2, <2>2, <2>5
    <2>8. s = "shown" => \A k \in MessageIds :
              k < id /\ chat[k].state = "inserted" /\ chat[k].channel = chat[id].channel
                  => k \in overtaken'
      BY <2>6
    <2> QED BY <2>4, <2>6, <2>7, <2>8, SettledKeeps, Zenon
  <1>3. CASE writing[r].at # "commit"
    <2>1. /\ profile' \in [ChatAccounts -> Names \cup {0} \cup ChatAccounts] /\ NamesDiffer'
          /\ threads' \subseteq Threads
      BY <1>1 DEF ChatInv, ChatOK, NamesDiffer
    <2> QED BY <1>1, <1>3, <2>1, IdleIsWriting, WritingKeeps
  <1> QED BY <1>2, <1>3

-----------------------------------------------------------------------------
\* Readers change, nothing else that matters.
LEMMA ReadersKeep ==
    ASSUME ChatInv, reader' \in [Channels -> ReaderRec],
           writing' \in [Requests -> WriteRec],
           \A r \in Requests : writing'[r] = writing[r] \/ writing'[r] = Idle,
           \A c \in Channels : ReaderMissesNothing(c)',
           UNCHANGED <<profile, threads, chat, overtaken, reports>>
    PROVE  ChatInv'
  <1>1. /\ ChatOK /\ NamesDiffer /\ IdsAreInARow /\ OvertakenAreNoted /\ CommitsItsOwn
        /\ ReportedWereShown
    BY DEF ChatInv
  <1>2. ChatOK'
    BY <1>1, IdleIsWriting DEF ChatOK
  <1>3. CommitsItsOwn'
    BY <1>1, IdleIsWriting DEF CommitsItsOwn
  <1>4. NamesDiffer' /\ IdsAreInARow' /\ OvertakenAreNoted' /\ ReportedWereShown'
    BY <1>1 DEF NamesDiffer, IdsAreInARow, OvertakenAreNoted, ReportedWereShown, SeenIn, WasShown, Inserted
  <1>5. ReadersMiss'
    BY DEF ReadersMiss
  <1> QED BY <1>2, <1>3, <1>4, <1>5 DEF ChatInv

\* A reader that has heard more has read the same.
LEMMA HeardIsOfReader ==
    ASSUME NEW p \in ReaderRec, NEW heard \in SUBSET Nat
    PROVE  LET q == [p EXCEPT !.heard = heard]
           IN  q \in ReaderRec /\ q.first = p.first /\ q.last = p.last /\ q.got = p.got
  BY DEF ReaderRec

\* The sockets are told; what a client has paged through stays.
LEMMA BroadcastKeeps == ASSUME ChatInv, NEW r \in Requests, NEW dead, Broadcast(r, dead) PROVE ChatInv'
  <1> DEFINE w == writing[r]
             c == w.channel
             new == [reader[c] EXCEPT !.heard = reader[c].heard \cup {w.id}]
  <1>1. /\ writing' = [writing EXCEPT ![r] = Idle]
        /\ reader' = reader \/ reader' = [reader EXCEPT ![c].heard = @ \cup {w.id}]
        /\ UNCHANGED <<profile, threads, chat, overtaken, reports>>
    BY DEF Broadcast, StopsWriting
  <1>2. w \in WriteRec /\ reader \in [Channels -> ReaderRec] /\ ReadersMiss
    BY DEF ChatInv, ChatOK
  <1>3. c \in Channels /\ w.id \in Nat
    BY <1>2 DEF WriteRec
  <1>4. reader[c] \in ReaderRec
    BY <1>2, <1>3
  <1>5. reader[c].heard \cup {w.id} \in SUBSET Nat
    BY <1>3, <1>4 DEF ReaderRec
  <1>6. new \in ReaderRec /\ new.first = reader[c].first /\ new.last = reader[c].last
        /\ new.got = reader[c].got
    BY <1>4, <1>5, HeardIsOfReader
  <1>7. reader' = reader \/ reader' = [reader EXCEPT ![c] = new]
    BY <1>1, <1>2, <1>3
  <1> HIDE DEF new, c, w
  <1>8. /\ reader' \in [Channels -> ReaderRec]
        /\ \A d \in Channels : /\ reader'[d].first = reader[d].first
                               /\ reader'[d].last = reader[d].last /\ reader'[d].got = reader[d].got
    BY <1>2, <1>3, <1>6, <1>7
  <1>9. ASSUME NEW d \in Channels PROVE ReaderMissesNothing(d)'
    <2>1. ReaderMissesNothing(d)
      BY <1>2 DEF ReadersMiss
    <2> QED BY <1>1, <1>8, <2>1 DEF ReaderMissesNothing, SeenIn, WasShown, Shown
  <1>10. /\ writing' \in [Requests -> WriteRec]
         /\ \A q \in Requests : writing'[q] = writing[q] \/ writing'[q] = Idle
    BY <1>1, IdleIsWriting DEF ChatInv, ChatOK
  <1> QED BY <1>1, <1>8, <1>9, <1>10, ReadersKeep

\* A reader that has read a page is still a reader.
LEMMA PageIsOfReader ==
    ASSUME NEW p \in ReaderRec, NEW first \in Nat, NEW last \in Nat, NEW got \in SUBSET MessageIds
    PROVE  LET q == [p EXCEPT !.first = first, !.last = last, !.got = got]
           IN  q \in ReaderRec /\ q.first = first /\ q.last = last /\ q.got = got
  BY DEF ReaderRec

\* A client reads the page after its last message, or the latest page.
LEMMA ReadPageKeeps == ASSUME ChatInv, NEW c \in Channels, ReadPage(c) PROVE ChatInv'
  <1> DEFINE p == reader[c]
             page == PageAfter(c, p.last)
             low == CHOOSE m \in page : \A n \in page : m <= n
             high == CHOOSE m \in page : \A n \in page : m >= n
             first == IF p.first = 0 THEN low ELSE p.first
             got == p.got \cup page
             new == [p EXCEPT !.first = first, !.last = high, !.got = got]
  <1>1. /\ page # {}
        /\ reader' = [reader EXCEPT
                        ![c].first = IF @ = 0 THEN CHOOSE m \in page : \A n \in page : m <= n ELSE @,
                        ![c].last = CHOOSE m \in page : \A n \in page : m >= n,
                        ![c].got = @ \cup page]
        /\ UNCHANGED <<profile, threads, chat, writing, overtaken, reports>>
    BY DEF ReadPage
  <1>2. reader \in [Channels -> ReaderRec] /\ ReadersMiss /\ p \in ReaderRec /\ ReaderMissesNothing(c)
    BY DEF ChatInv, ChatOK, ReadersMiss
  <1>3. p.first \in Nat /\ p.last \in Nat /\ p.got \in SUBSET MessageIds
    BY <1>2 DEF ReaderRec
  <1>4. page \subseteq Shown(c) /\ Shown(c) \subseteq MessageIds
    BY DEF PageAfter, Newest, Oldest, Shown
  <1>5. reader' = [reader EXCEPT ![c] = new]
    <2>1. reader' = [reader EXCEPT ![c].first = IF @ = 0 THEN low ELSE @, ![c].last = high,
                                   ![c].got = @ \cup page]
      BY <1>1
    <2> HIDE DEF page, low, high
    <2> QED BY ONLY <1>2, <2>1 DEF ReaderRec
  <1> HIDE DEF page
  <1>6. low \in page /\ \A n \in page : low <= n
    BY <1>1, <1>4, FirstOfPage
  <1>7. high \in page /\ \A n \in page : high >= n
    BY <1>1, <1>4, LastOfPage
  <1> HIDE DEF low, high
  <1>8. low \in MessageIds /\ high \in MessageIds /\ low \in Nat /\ low >= 1 /\ high \in Nat /\ high >= 1
    BY <1>4, <1>6, <1>7, IdsAreNat
  <1>9. first \in Nat /\ first # 0
    BY <1>3, <1>8
  <1>10. got \in SUBSET MessageIds
    BY <1>3, <1>4
  <1> HIDE DEF first, got
  <1>11. new \in ReaderRec /\ new.first = first /\ new.last = high /\ new.got = got
    <2>1. p \in ReaderRec
      BY <1>2
    <2>2. high \in Nat
      BY <1>8
    <2>3. first \in Nat
      BY <1>9
    <2> HIDE DEF p
    <2> QED BY ONLY <2>1, <2>2, <2>3, <1>10 DEF ReaderRec
  <1> HIDE DEF new
  <1>12. /\ reader' \in [Channels -> ReaderRec] /\ reader'[c] = new
         /\ \A d \in Channels : d # c => reader'[d] = reader[d]
    BY <1>2, <1>5, <1>11
  <1>13. ASSUME NEW m \in Shown(c), m \in first..high PROVE m \in got \cup overtaken
    <2>1. m \in Nat /\ m >= 1 /\ m >= first /\ m <= high /\ m \in MessageIds
      <3>1. m \in MessageIds
        BY <1>4
      <3>2. m \in Nat /\ m >= 1
        BY <3>1, IdsAreNat
      <3>3. m >= first /\ m <= high
        BY ONLY <1>8, <1>9, <1>13, <3>2
      <3> QED BY <3>1, <3>2, <3>3
    <2>2. CASE p.last = 0
      <3>1. first = low /\ page = Newest(Shown(c))
        BY <1>2, <2>2 DEF ReaderMissesNothing, first, page, PageAfter
      <3>2. m >= low
        BY <2>1, <3>1
      <3>3. m \in Newest(Shown(c))
        BY <1>4, <1>6, <3>1, <3>2, NewestAreLast
      <3> QED BY <3>1, <3>3 DEF got
    <2>3. CASE p.last # 0
      <3> DEFINE after == { n \in Shown(c) : n > p.last }
      <3>1. first = p.first /\ page = Oldest(after)
        BY <1>2, <2>3 DEF ReaderMissesNothing, first, page, PageAfter
      <3>2. CASE m > p.last
        <4>1. m \in after /\ after \subseteq MessageIds
          BY <1>4, <3>2
        <4> HIDE DEF after
        <4>2. m \in Oldest(after)
          BY <1>7, <2>1, <3>1, <4>1, OldestAreFirst
        <4> QED BY <3>1, <4>2 DEF got
      <3>3. CASE ~(m > p.last)
        <4>1. m \in p.first..p.last
          BY ONLY <1>3, <2>1, <3>1, <3>3
        <4>2. m \in p.got \cup overtaken
          BY <1>2, <4>1 DEF ReaderMissesNothing
        <4> QED BY <4>2 DEF got
      <3> QED BY <3>2, <3>3
    <2> QED BY <2>2, <2>3
  <1>14. SeenIn(c, high)
    BY <1>4, <1>7 DEF Shown, SeenIn, WasShown
  <1>15. Shown(c)' = Shown(c)
    BY <1>1 DEF Shown
  <1>16. ReaderMissesNothing(c)'
    <2>1. /\ reader'[c].first = first /\ reader'[c].last = high /\ reader'[c].got = got
      BY <1>11, <1>12
    <2>2. first # 0 /\ high # 0
      BY <1>8, <1>9
    <2>3. SeenIn(c, reader[c].last)'
      BY <1>1, <1>14, <2>1 DEF SeenIn, WasShown
    <2> QED BY <1>1, <1>8, <1>13, <1>15, <2>1, <2>2, <2>3 DEF ReaderMissesNothing
  <1>17. ASSUME NEW d \in Channels, d # c PROVE ReaderMissesNothing(d)'
    <2>1. ReaderMissesNothing(d) /\ reader'[d] = reader[d]
      BY <1>2, <1>12, <1>17 DEF ReadersMiss
    <2> QED BY <1>1, <2>1 DEF ReaderMissesNothing, SeenIn, WasShown, Shown
  <1>18. writing' \in [Requests -> WriteRec] /\ \A q \in Requests : writing'[q] = writing[q]
    BY <1>1 DEF ChatInv, ChatOK
  <1> QED BY <1>1, <1>12, <1>16, <1>17, <1>18, ReadersKeep

-----------------------------------------------------------------------------
\* Reports, and the messages that are removed.
SameReports(new) ==
    /\ new \in Seq(ReportRec)
    /\ \A k \in 1..Len(new) : WasShown(new[k].message)

\* Reports change, and are about messages that were shown.
LEMMA ReportsKeep ==
    ASSUME ChatInv, SameReports(reports'),
           UNCHANGED <<profile, threads, chat, writing, overtaken, reader>>
    PROVE  ChatInv'
  <1>1. /\ ChatOK /\ NamesDiffer /\ IdsAreInARow /\ OvertakenAreNoted /\ CommitsItsOwn
        /\ ReadersMiss
    BY DEF ChatInv
  <1>2. ChatOK'
    BY <1>1 DEF ChatOK, SameReports
  <1>3. ReportedWereShown'
    BY DEF ReportedWereShown, SameReports, WasShown
  <1>4. NamesDiffer' /\ IdsAreInARow' /\ OvertakenAreNoted' /\ CommitsItsOwn'
    BY <1>1 DEF NamesDiffer, IdsAreInARow, OvertakenAreNoted, CommitsItsOwn, SeenIn, WasShown, Inserted
  <1>5. ReadersMiss'
    BY <1>1 DEF ReadersMiss, ReaderMissesNothing, SeenIn, WasShown, Shown
  <1> QED BY <1>2, <1>3, <1>4, <1>5 DEF ChatInv

\* A message that was shown is removed; nobody misses it.
LEMMA RemovedKeeps ==
    ASSUME ChatInv, NEW m \in MessageIds, WasShown(m), SameReports(reports'),
           chat' = [chat EXCEPT ![m].state = "deleted"],
           UNCHANGED <<profile, threads, writing, overtaken, reader>>
    PROVE  ChatInv'
  <1>1. /\ ChatOK /\ NamesDiffer /\ IdsAreInARow /\ OvertakenAreNoted /\ CommitsItsOwn
        /\ ReadersMiss
    BY DEF ChatInv
  <1>2. chat \in [MessageIds -> ChatRow] /\ chat[m] \in ChatRow
    BY <1>1 DEF ChatOK
  <1> DEFINE row == [chat[m] EXCEPT !.state = "deleted"]
  <1>3. row \in ChatRow /\ row.state = "deleted" /\ row.channel = chat[m].channel
    BY <1>2, RowIsOfChat DEF ChatRow
  <1>4. chat' = [chat EXCEPT ![m] = row]
    BY <1>2
  <1> HIDE DEF row
  <1>5. /\ chat' \in [MessageIds -> ChatRow] /\ chat'[m] = row
        /\ \A k \in MessageIds : k # m => chat'[k] = chat[k]
    BY <1>2, <1>3, <1>4
  <1>6. /\ \A n \in MessageIds : WasShown(n)' <=> WasShown(n)
        /\ \A n \in MessageIds : chat'[n].state = "inserted" <=> chat[n].state = "inserted"
        /\ \A n \in MessageIds : chat'[n].state # "none" <=> chat[n].state # "none"
        /\ \A n \in MessageIds : chat'[n].channel = chat[n].channel
    BY <1>3, <1>5 DEF WasShown
  <1>7. ChatOK' /\ NamesDiffer'
    BY <1>1, <1>5 DEF ChatOK, SameReports, NamesDiffer
  <1>8. Inserted' = Inserted
    BY <1>6 DEF Inserted
  <1>9. IdsAreInARow' /\ OvertakenAreNoted' /\ CommitsItsOwn'
    BY <1>1, <1>6, <1>8 DEF IdsAreInARow, OvertakenAreNoted, CommitsItsOwn, SeenIn
  <1>10. ReportedWereShown'
    <2>1. ASSUME NEW k \in 1..Len(reports') PROVE WasShown(reports[k].message)'
      <3>1. PICK n : n = reports'[k].message
        OBVIOUS
      <3>2. reports' \in Seq(ReportRec) /\ WasShown(n)
        BY <3>1 DEF SameReports
      <3>4. reports'[k] \in ReportRec
        BY <3>2
      <3>5. n \in MessageIds
        BY <3>1, <3>4 DEF ReportRec
      <3>3. WasShown(n)'
        BY <1>6, <3>2, <3>5
      <3> QED BY <3>1, <3>3 DEF WasShown
    <2> QED BY <2>1 DEF ReportedWereShown
  <1>11. ASSUME NEW c \in Channels PROVE ReaderMissesNothing(c)'
    <2>1. ReaderMissesNothing(c) /\ reader' = reader /\ overtaken' = overtaken
      BY <1>1 DEF ReadersMiss
    <2>2. Shown(c)' \subseteq Shown(c)
      BY <1>3, <1>5 DEF Shown
    <2>3. ASSUME NEW n, n = reader[c].last, n \in MessageIds, SeenIn(c, n)
          PROVE  SeenIn(c, reader[c].last)'
      BY <1>6, <2>1, <2>3 DEF SeenIn, WasShown
    <2> QED BY <2>1, <2>2, <2>3 DEF ReaderMissesNothing
  <1>12. ReadersMiss'
    BY <1>11 DEF ReadersMiss
  <1> QED BY <1>7, <1>9, <1>10, <1>12 DEF ChatInv

\* A message is reported.
LEMMA ReportKeeps == ASSUME ChatInv, NEW m \in MessageIds, ReportMessage(m) PROVE ChatInv'
  <1> DEFINE new == [message |-> m, status |-> "open"]
  <1>1. /\ WasShown(m) /\ reports' = Append(reports, new)
        /\ UNCHANGED <<profile, threads, chat, writing, overtaken, reader>>
    BY DEF ReportMessage, WasShown
  <1>2. reports \in Seq(ReportRec) /\ ReportedWereShown /\ new \in ReportRec /\ new.message = m
    BY DEF ChatInv, ChatOK, ReportRec
  <1> HIDE DEF new
  <1>3. /\ reports' \in Seq(ReportRec) /\ Len(reports') = Len(reports) + 1 /\ Len(reports) \in Nat
        /\ reports'[Len(reports) + 1] = new
        /\ \A k \in 1..Len(reports) : reports'[k] = reports[k]
    BY <1>1, <1>2
  <1>4. ASSUME NEW k \in 1..Len(reports') PROVE WasShown(reports'[k].message)
    <2>1. k = Len(reports) + 1 \/ k \in 1..Len(reports)
      BY ONLY <1>3
    <2>2. CASE k = Len(reports) + 1
      BY <1>1, <1>2, <1>3, <2>2
    <2>3. CASE k \in 1..Len(reports)
      BY <1>2, <1>3, <2>3 DEF ReportedWereShown
    <2> QED BY <2>1, <2>2, <2>3
  <1>5. SameReports(reports')
    BY <1>3, <1>4 DEF SameReports
  <1> QED BY <1>1, <1>5, ReportsKeep

\* A report that was decided is about the same message.
LEMMA ResolvedIsReport ==
    ASSUME NEW row \in ReportRec, NEW s \in {"open", "reviewed", "dismissed", "actioned"}
    PROVE  LET new == [row EXCEPT !.status = s]
           IN  new \in ReportRec /\ new.message = row.message
  BY DEF ReportRec

\* A report is decided.
LEMMA ResolveKeeps ==
    ASSUME ChatInv, NEW k \in DOMAIN reports, NEW status \in {"reviewed", "dismissed", "actioned"},
           ResolveReport(k, status)
    PROVE  ChatInv'
  <1> DEFINE m == reports[k].message
             new == [reports[k] EXCEPT !.status = status]
  <1>1. /\ reports' = [reports EXCEPT ![k].status = status]
        /\ chat' = IF status = "actioned" THEN [chat EXCEPT ![m].state = "deleted"] ELSE chat
        /\ UNCHANGED <<profile, threads, writing, overtaken, reader>>
    BY DEF ResolveReport
  <1>2. reports \in Seq(ReportRec) /\ ReportedWereShown /\ k \in 1..Len(reports)
    BY DEF ChatInv, ChatOK
  <1>3. reports[k] \in ReportRec
    BY <1>2
  <1>4. m \in MessageIds /\ WasShown(m)
    BY <1>2, <1>3 DEF ReportedWereShown, ReportRec
  <1>5. new \in ReportRec /\ new.message = m
    BY <1>3, ResolvedIsReport
  <1>6. reports' = [reports EXCEPT ![k] = new]
    BY <1>1, <1>2
  <1> HIDE DEF new, m
  <1>7. /\ reports' \in Seq(ReportRec) /\ Len(reports') = Len(reports)
        /\ \A j \in 1..Len(reports) : reports'[j] = IF j = k THEN new ELSE reports[j]
    BY <1>2, <1>5, <1>6
  <1>8. SameReports(reports')
    BY <1>2, <1>4, <1>5, <1>7 DEF SameReports, ReportedWereShown
  <1>9. CASE status = "actioned"
    BY <1>1, <1>4, <1>8, <1>9, RemovedKeeps
  <1>10. CASE status # "actioned"
    BY <1>1, <1>8, <1>10, ReportsKeep
  <1> QED BY <1>9, <1>10

\* An operator removes a message.
LEMMA DeleteKeeps == ASSUME ChatInv, NEW m \in MessageIds, DeleteMessage(m) PROVE ChatInv'
  <1>1. /\ WasShown(m) /\ chat' = [chat EXCEPT ![m].state = "deleted"]
        /\ UNCHANGED <<profile, threads, writing, overtaken, reader, reports>>
    BY DEF DeleteMessage, WasShown, Shown
  <1>2. SameReports(reports')
    BY <1>1 DEF ChatInv, ChatOK, ReportedWereShown, SameReports
  <1> QED BY <1>1, <1>2, RemovedKeeps

\* Every step keeps it.
LEMMA NextChat == ChatInv /\ [ChatNext]_chatVars => ChatInv'
  <1> SUFFICES ASSUME ChatInv, [ChatNext]_chatVars PROVE ChatInv'
    OBVIOUS
  <1>1. CASE UNCHANGED chatVars
    BY <1>1, OthersKeep DEF chatVars
  <1>2. ASSUME NEW a, PostTooSoon(a) PROVE ChatInv'
    BY <1>2, OthersKeep DEF PostTooSoon
  <1>3. ASSUME NEW s, NEW c, Join(s, c) \/ Disconnect(s) PROVE ChatInv'
    BY <1>3, OthersKeep DEF Join, Disconnect
  <1>4. CASE ChatTick
    BY <1>4, OthersKeep DEF ChatTick
  <1> QED BY <1>1, <1>2, <1>3, <1>4, SetNameKeeps, HeartbeatKeeps, OpenThreadKeeps, PostKeeps,
             CommitNameKeeps, CommitThreadKeeps, InsertKeeps, CommitMessageKeeps, WritingFailsKeeps,
             BroadcastKeeps, ReadPageKeeps, ReportKeeps, ResolveKeeps, DeleteKeeps DEF ChatNext

\* What is promised follows.
LEMMA ChatKept == ChatInv => ReadersMissNothing /\ ThreadsAreShared
  <1> SUFFICES ASSUME ChatInv PROVE ReadersMissNothing /\ ThreadsAreShared
    OBVIOUS
  <1>1. ReadersMissNothing
    BY DEF ChatInv, ReadersMiss, ReaderMissesNothing, ReadersMissNothing
  <1>2. ASSUME NEW s \in threads, NEW t \in threads, {s[1], s[2]} = {t[1], t[2]} PROVE s = t
    <2>1. /\ s \in ChatAccounts \X ChatAccounts /\ s[1] < s[2]
          /\ t \in ChatAccounts \X ChatAccounts /\ t[1] < t[2]
      BY RoomIsNoThread DEF ChatInv, ChatOK
    <2>2. /\ s[1] \in Nat /\ s[2] \in Nat /\ t[1] \in Nat /\ t[2] \in Nat
          /\ s = <<s[1], s[2]>> /\ t = <<t[1], t[2]>>
      <3>1. /\ s[1] \in ChatAccounts /\ s[2] \in ChatAccounts
            /\ t[1] \in ChatAccounts /\ t[2] \in ChatAccounts
        BY ONLY <2>1
      <3>2. s = <<s[1], s[2]>> /\ t = <<t[1], t[2]>>
        BY ONLY <2>1
      <3> QED BY <3>1, <3>2, ChatAssumption, Zenon
    <2>3. (s[1] = t[1] /\ s[2] = t[2]) \/ (s[1] = t[2] /\ s[2] = t[1])
      BY <1>2
    <2>4. s[1] = t[1] /\ s[2] = t[2]
      BY ONLY <2>1, <2>2, <2>3
    <2> QED BY <2>2, <2>4
  <1> QED BY <1>1, <1>2 DEF ThreadsAreShared, ChatInv, NamesDiffer

-----------------------------------------------------------------------------
(* Reminders before a subscription ends.                                   *)

Row == [type : NoticeTypes, about : Reminder, status : Statuses, read : BOOLEAN, acked : BOOLEAN]

ScanRec == [at : {"idle", "decide", "create", "send", "mark"}, seen : Plan, about : Reminder]

NoticesOK ==
    /\ inbox \in Seq(Row) /\ scan \in ScanRec /\ plan \in Plan
    /\ today \in Nat /\ lapses \in Nat
    /\ \A k \in marks : k.about \in Reminder /\ k.until \in Nat

Expiring == { m \in Reminder : m.kind = "expiring" }

NoticesOf(m) == Cardinality(Announcing(m))

\* A notice that is about to be inserted.
Creating(m) == IF scan.at = "create" /\ scan.about = m THEN 1 ELSE 0

OnItsWay(m) == scan.at \in {"create", "send", "mark"} /\ scan.about = m

\* The day of a reminder is not over yet, or has come.
IsAhead(m, day) == day + m.before <= m.anchor
HasCome(m, day) == day + m.before >= m.anchor

\* Every notice of a reminder but one is a failure; all of them are while it can be created.
ReminderIsKept(m) ==
    /\ NoticesOf(m) + Creating(m) <= 1 + lapses
    /\ IsAhead(m, today) /\ ~IsMarked(m) /\ ~OnItsWay(m) => NoticesOf(m) <= lapses

RemindersKept == \A m \in Expiring : ReminderIsKept(m)

\* A mark stands for a notice, and lives longer than the day of its reminder.
MarkOutlives(k) == k.about.kind = "expiring" => k.until + k.about.before >= k.about.anchor + 2
MarksHold == \A k \in marks : Announcing(k.about) # {} /\ MarkOutlives(k)

ScanHolds ==
    /\ OnItsWay(scan.about) /\ scan.about.kind = "expiring" => HasCome(scan.about, today)
    /\ scan.at \in {"send", "mark"} => Announcing(scan.about) # {}

NoticesInv == NoticesOK /\ RemindersKept /\ MarksHold /\ ScanHolds

\* What a reminder is about.
LEMMA ReminderIsTyped ==
    ASSUME NEW m \in Reminder
    PROVE  m.kind \in Milestones /\ m.before \in Nat /\ m.anchor \in Nat
  <1>1. m.kind \in Milestones /\ m.before \in DaysBefore \cup {0} /\ m.anchor \in Days
    BY DEF Reminder
  <1>2. m.anchor \in Nat
    BY <1>1, NoticesAssumption DEF Days
  <1>3. m.before \in Nat
    <2>1. DaysBefore \subseteq Nat
      BY NoticesAssumption
    <2>2. m.before \in DaysBefore \/ m.before = 0
      BY <1>1
    <2>3. 0 \in Nat
      OBVIOUS
    <2> QED BY ONLY <2>1, <2>2, <2>3, Zenon
  <1> QED BY <1>1, <1>2, <1>3

\* A scan that is about nothing.
LEMMA NoneIsReminder == NoReminder \in Reminder /\ NoReminder.kind = "expired"
  BY NoticesAssumption DEF NoReminder, Reminder, Milestones, Days

\* A scan that rests.
LEMMA NoScanIsIdle ==
    NoScan \in ScanRec /\ NoScan.at = "idle" /\ NoScan.about = NoReminder
  <1>1. [status |-> "canceled", ends |-> 0] \in Plan
    BY NoticesAssumption DEF Plan, Days
  <1> QED BY <1>1, NoneIsReminder DEF NoScan, ScanRec

\* The notices of a reminder are finitely many.
LEMMA AnnouncingIsFinite ==
    ASSUME NoticesOK, NEW m PROVE IsFiniteSet(Announcing(m)) /\ NoticesOf(m) \in Nat
  <1>1. DOMAIN inbox = 1..Len(inbox) /\ Len(inbox) \in Nat
    BY DEF NoticesOK
  <1>2. IsFiniteSet(1..Len(inbox))
    BY <1>1, FS_Interval
  <1>3. Announcing(m) \subseteq 1..Len(inbox)
    BY <1>1 DEF Announcing
  <1>4. IsFiniteSet(Announcing(m))
    BY <1>2, <1>3, FS_Subset
  <1> QED BY <1>4, FS_CardinalityType DEF NoticesOf

\* The invariant holds at the start.
LEMMA InitNotices == NoticesInit => NoticesInv
  <1> SUFFICES ASSUME NoticesInit PROVE NoticesInv
    OBVIOUS
  <1>1. inbox = << >> /\ marks = {} /\ scan = NoScan /\ lapses = 0 /\ today = 0
    BY DEF NoticesInit
  <1>2. NoticesOK
    BY <1>1, NoScanIsIdle DEF NoticesOK, NoticesInit
  <1>3. \A m : Announcing(m) = {}
    BY <1>1 DEF Announcing
  <1>4. \A m : NoticesOf(m) = 0
    BY <1>3, FS_EmptySet DEF NoticesOf
  <1>5. \A m : Creating(m) = 0
    BY <1>1, NoScanIsIdle DEF Creating
  <1>6. RemindersKept
    BY <1>1, <1>4, <1>5 DEF RemindersKept, ReminderIsKept
  <1> QED BY <1>1, <1>2, <1>6, NoScanIsIdle DEF NoticesInv, MarksHold, ScanHolds, OnItsWay

-----------------------------------------------------------------------------
\* Rows keep what they announce.
SameRows(rows, new) ==
    /\ new \in Seq(Row) /\ Len(new) = Len(rows)
    /\ \A i \in 1..Len(rows) : new[i].type = rows[i].type /\ new[i].about = rows[i].about

\* Rows whose subjects stay announce the same.
LEMMA SameRowsAnnounce ==
    ASSUME inbox \in Seq(Row), SameRows(inbox, inbox')
    PROVE  \A m : Announcing(m)' = Announcing(m)
  <1>1. DOMAIN inbox = 1..Len(inbox) /\ DOMAIN inbox' = 1..Len(inbox)
    BY DEF SameRows
  <1> QED BY <1>1 DEF SameRows, Announcing

\* A step that announces nothing and leaves the loop alone.
LEMMA NothingAnnounced ==
    ASSUME NoticesInv, inbox' \in Seq(Row), plan' \in Plan,
           \A m \in Reminder : Announcing(m)' = Announcing(m),
           UNCHANGED <<today, marks, scan, lapses>>
    PROVE  NoticesInv'
  <1>1. NoticesOK /\ RemindersKept /\ MarksHold /\ ScanHolds
    BY DEF NoticesInv
  <1>2. NoticesOK'
    BY <1>1 DEF NoticesOK
  <1>3. ASSUME NEW m \in Expiring PROVE ReminderIsKept(m)'
    <2>1. m \in Reminder
      BY DEF Expiring
    <2>2. NoticesOf(m)' = NoticesOf(m)
      BY <2>1 DEF NoticesOf
    <2>3. ReminderIsKept(m)
      BY <1>1 DEF RemindersKept
    <2> QED BY <2>2, <2>3 DEF ReminderIsKept, Creating, OnItsWay, IsMarked
  <1>4. RemindersKept'
    BY <1>3 DEF RemindersKept, Expiring
  <1>5. MarksHold'
    BY <1>1 DEF MarksHold, NoticesOK
  <1>6. scan.about \in Reminder
    BY <1>1 DEF NoticesOK, ScanRec
  <1>7. ScanHolds'
    BY <1>1, <1>6 DEF ScanHolds, OnItsWay
  <1> QED BY <1>2, <1>4, <1>5, <1>7 DEF NoticesInv

\* A step that changes no subject of the inbox.
LEMMA SameRowsKeep ==
    ASSUME NoticesInv, SameRows(inbox, inbox'), plan' \in Plan,
           UNCHANGED <<today, marks, scan, lapses>>
    PROVE  NoticesInv'
  <1>1. inbox \in Seq(Row) /\ inbox' \in Seq(Row)
    BY DEF NoticesInv, NoticesOK, SameRows
  <1>2. \A m : Announcing(m)' = Announcing(m)
    BY <1>1, SameRowsAnnounce
  <1> QED BY <1>1, <1>2, NothingAnnounced

\* A new notice is a row about its reminder.
LEMMA NoticeIsRow ==
    ASSUME NEW type \in NoticeTypes, NEW about \in Reminder
    PROVE  /\ Notice(type, about) \in Row
           /\ Notice(type, about).type = type /\ Notice(type, about).about = about
  BY DEF Notice, Row, Statuses

\* One row more, which announces a reminder or nothing.
LEMMA InsertAnnounces ==
    ASSUME inbox \in Seq(Row), NEW type \in NoticeTypes, NEW about \in Reminder,
           Insert(type, about)
    PROVE  /\ inbox' \in Seq(Row)
           /\ \A m : Announcing(m)' = IF type \in Milestones /\ m = about
                                      THEN Announcing(m) \cup {Len(inbox) + 1}
                                      ELSE Announcing(m)
  <1> DEFINE new == Notice(type, about)
  <1>1. new \in Row /\ new.type = type /\ new.about = about
    BY NoticeIsRow
  <1>2. inbox' = Append(inbox, new)
    BY DEF Insert
  <1> HIDE DEF new
  <1>3. /\ inbox' \in Seq(Row) /\ Len(inbox) \in Nat
        /\ DOMAIN inbox = 1..Len(inbox) /\ DOMAIN inbox' = 1..Len(inbox) + 1
        /\ inbox'[Len(inbox) + 1] = new
        /\ \A i \in 1..Len(inbox) : inbox'[i] = inbox[i]
    BY <1>1, <1>2
  <1>4. 1..Len(inbox) + 1 = 1..Len(inbox) \cup {Len(inbox) + 1}
    BY ONLY Len(inbox) \in Nat
  <1>5. ASSUME NEW m
        PROVE  Announcing(m)' = IF type \in Milestones /\ m = about
                                THEN Announcing(m) \cup {Len(inbox) + 1}
                                ELSE Announcing(m)
    <2>1. Announcing(m)' = { n \in 1..Len(inbox) \cup {Len(inbox) + 1} :
                                inbox'[n].type \in Milestones /\ inbox'[n].about = m }
      BY <1>3, <1>4 DEF Announcing
    <2>2. Announcing(m) = { n \in 1..Len(inbox) : inbox[n].type \in Milestones /\ inbox[n].about = m }
      BY <1>3 DEF Announcing
    <2>3. \A n \in 1..Len(inbox) : n \in Announcing(m)' <=> n \in Announcing(m)
      BY <1>3, <2>1, <2>2
    <2>4. Len(inbox) + 1 \in Announcing(m)' <=> type \in Milestones /\ m = about
      BY <1>1, <1>3, <2>1
    <2>5. /\ Announcing(m)' \subseteq 1..Len(inbox) \cup {Len(inbox) + 1}
          /\ Announcing(m) \subseteq 1..Len(inbox)
      BY <2>1, <2>2
    <2> DEFINE last == Len(inbox) + 1
               ids == 1..Len(inbox)
               one == Announcing(m)'
               old == Announcing(m)
    <2>6. /\ \A n \in ids : n \in one <=> n \in old
          /\ last \in one <=> type \in Milestones /\ m = about
          /\ one \subseteq ids \cup {last} /\ old \subseteq ids
      BY <2>3, <2>4, <2>5
    <2> HIDE DEF last, ids, one, old
    <2>7. one = IF type \in Milestones /\ m = about THEN old \cup {last} ELSE old
      <3>1. CASE type \in Milestones /\ m = about
        BY ONLY <2>6, <3>1
      <3>2. CASE ~(type \in Milestones /\ m = about)
        BY ONLY <2>6, <3>2
      <3> QED BY <3>1, <3>2
    <2> QED BY <2>7 DEF one, old, last
  <1> QED BY <1>3, <1>5

\* A notice of something else is written.
LEMMA EmitKeeps ==
    ASSUME NoticesInv, NEW type \in {"signal", "analysis", "execution"}, NEW hold, NEW level,
           Emit(type, hold, level)
    PROVE  NoticesInv'
  <1>1. type \in NoticeTypes /\ type \notin Milestones
    BY DEF NoticeTypes, Milestones
  <1>2. inbox \in Seq(Row) /\ plan \in Plan
    BY DEF NoticesInv, NoticesOK
  <1>3. Insert(type, NoReminder) /\ UNCHANGED <<plan, today, marks, scan, lapses>>
    BY DEF Emit
  <1>4. inbox' \in Seq(Row) /\ \A m \in Reminder : Announcing(m)' = Announcing(m)
    BY <1>1, <1>2, <1>3, NoneIsReminder, InsertAnnounces
  <1> QED BY <1>2, <1>3, <1>4, NothingAnnounced

\* A row with another status is about the same.
LEMMA StatusIsOfRow ==
    ASSUME NEW row \in Row, NEW outcome \in Statuses
    PROVE  LET new == [row EXCEPT !.status = outcome]
           IN  new \in Row /\ new.type = row.type /\ new.about = row.about
  BY DEF Row

\* Whatever becomes of a notice is a status.
LEMMA OutcomesAreStatuses == ASSUME NEW type, NEW wanted PROVE Outcomes(type, wanted) \subseteq Statuses
  BY DEF Outcomes, Statuses

\* A status that is set changes no subject.
LEMMA SetStatusKeepsRows ==
    ASSUME inbox \in Seq(Row), NEW n, NEW wanted, SetStatus(n, wanted)
    PROVE  SameRows(inbox, inbox')
  <1>1. PICK outcome \in Statuses : inbox' = [inbox EXCEPT ![n].status = outcome]
    BY OutcomesAreStatuses DEF SetStatus
  <1>2. DOMAIN inbox = 1..Len(inbox) /\ Len(inbox) \in Nat
    BY <1>1
  <1> DEFINE new == [inbox[n] EXCEPT !.status = outcome]
  <1>3. inbox' = [inbox EXCEPT ![n] = new]
    BY <1>1
  <1>4. CASE n \in 1..Len(inbox)
    <2>1. new \in Row /\ new.type = inbox[n].type /\ new.about = inbox[n].about
      BY <1>2, <1>4, StatusIsOfRow
    <2> HIDE DEF new
    <2>2. inbox' \in Seq(Row) /\ Len(inbox') = Len(inbox)
      BY <1>2, <1>3, <1>4, <2>1
    <2>3. \A i \in 1..Len(inbox) : inbox'[i] = IF i = n THEN new ELSE inbox[i]
      BY <1>2, <1>3, <1>4
    <2> QED BY <2>1, <2>2, <2>3 DEF SameRows
  <1>5. CASE n \notin 1..Len(inbox)
    <2>1. inbox' = inbox
      BY <1>2, <1>3, <1>5
    <2> QED BY <2>1 DEF SameRows
  <1> QED BY <1>4, <1>5

\* A notice is sent.
LEMMA SendOutKeeps == ASSUME NoticesInv, NEW s, SendOut(s) PROVE NoticesInv'
  <1>1. inbox \in Seq(Row) /\ plan \in Plan
    BY DEF NoticesInv, NoticesOK
  <1>2. SetStatus(s.id, IsWanted(s)) /\ UNCHANGED <<plan, today, marks, scan, lapses>>
    BY DEF SendOut
  <1>3. SameRows(inbox, inbox')
    BY <1>1, <1>2, SetStatusKeepsRows
  <1> QED BY <1>1, <1>2, <1>3, SameRowsKeep

\* A row that was read is about the same.
LEMMA ReadIsOfRow ==
    ASSUME NEW row \in Row, NEW ack \in BOOLEAN, NEW read \in BOOLEAN
    PROVE  LET new == [row EXCEPT !.read = read, !.acked = ack]
           IN  new \in Row /\ new.type = row.type /\ new.about = row.about
  BY DEF Row

\* Notices are read or acknowledged.
LEMMA ReadingKeeps ==
    ASSUME NoticesInv, NEW ns, NEW acks \in BOOLEAN, Reading(ns, acks) PROVE NoticesInv'
  <1>1. inbox \in Seq(Row) /\ plan \in Plan
    BY DEF NoticesInv, NoticesOK
  <1>2. DOMAIN inbox = 1..Len(inbox) /\ Len(inbox) \in Nat
    BY <1>1
  <1> DEFINE new(n) == IF n \in ns
                       THEN [inbox[n] EXCEPT !.read = TRUE, !.acked = inbox[n].acked \/ acks]
                       ELSE inbox[n]
  <1>3. inbox' = [n \in 1..Len(inbox) |-> new(n)] /\ UNCHANGED <<plan, today, marks, scan, lapses>>
    BY <1>2 DEF Reading
  <1>4. ASSUME NEW n \in 1..Len(inbox)
        PROVE  new(n) \in Row /\ new(n).type = inbox[n].type /\ new(n).about = inbox[n].about
    <2>1. inbox[n] \in Row
      BY <1>1, <1>2
    <2>2. PICK read \in BOOLEAN : read = TRUE
      OBVIOUS
    <2>3. PICK ack \in BOOLEAN : ack = (inbox[n].acked \/ acks)
      OBVIOUS
    <2>4. n \in ns => new(n) = [inbox[n] EXCEPT !.read = read, !.acked = ack]
      BY <2>2, <2>3
    <2>5. n \notin ns => new(n) = inbox[n]
      OBVIOUS
    <2> HIDE DEF new
    <2>6. CASE n \in ns
      BY ONLY <2>1, <2>4, <2>6, read \in BOOLEAN, ack \in BOOLEAN DEF Row
    <2>7. CASE n \notin ns
      BY <2>1, <2>5, <2>7
    <2> QED BY <2>6, <2>7
  <1> HIDE DEF new
  <1>5. inbox' \in Seq(Row) /\ Len(inbox') = Len(inbox)
    BY <1>2, <1>3, <1>4
  <1>6. SameRows(inbox, inbox')
    BY <1>3, <1>4, <1>5 DEF SameRows
  <1> QED BY <1>1, <1>3, <1>6, SameRowsKeep

-----------------------------------------------------------------------------
\* Sums that the steps of the loop leave within bounds.
LEMMA OneMoreLapse ==
    ASSUME NEW c \in Nat, NEW g \in {0, 1}, NEW n \in Nat, NEW n1, n1 = n + 1, c + g <= 1 + n
    PROVE  c <= n1 /\ c + 0 <= 1 + n1
  OBVIOUS

\* A scan creates one notice at a time.
LEMMA CreatingIs ==
    ASSUME NEW m PROVE Creating(m) \in {0, 1} /\ (scan.at # "create" => Creating(m) = 0)
  BY DEF Creating

\* The loop ends without a mark: a failure of Redis, of the database or of the server.
LEMMA ScanEndsKeeps ==
    ASSUME NoticesInv, scan' = NoScan, lapses' = lapses + 1,
           UNCHANGED <<inbox, plan, today, marks>>
    PROVE  NoticesInv'
  <1>1. NoticesOK /\ RemindersKept /\ MarksHold
    BY DEF NoticesInv
  <1>2. NoticesOK'
    BY <1>1, NoScanIsIdle DEF NoticesOK
  <1>3. \A m : Announcing(m)' = Announcing(m)
    BY DEF Announcing
  <1>4. ASSUME NEW m \in Expiring PROVE ReminderIsKept(m)'
    <2>1. NoticesOf(m)' = NoticesOf(m) /\ Creating(m)' = 0
      BY <1>3, NoScanIsIdle DEF NoticesOf, Creating
    <2>2. NoticesOf(m) + Creating(m) <= 1 + lapses /\ NoticesOf(m) \in Nat /\ lapses \in Nat
      BY <1>1, AnnouncingIsFinite DEF RemindersKept, ReminderIsKept, NoticesOK
    <2>3. NoticesOf(m) <= lapses' /\ NoticesOf(m) + 0 <= 1 + lapses'
      BY <2>2, CreatingIs, OneMoreLapse
    <2> QED BY <2>1, <2>3 DEF ReminderIsKept
  <1>5. RemindersKept'
    BY <1>4 DEF RemindersKept, Expiring
  <1>6. MarksHold'
    BY <1>1, <1>3 DEF MarksHold
  <1>7. ScanHolds'
    BY NoScanIsIdle DEF ScanHolds, OnItsWay
  <1> QED BY <1>2, <1>5, <1>6, <1>7 DEF NoticesInv

\* Nothing is announced or marked, and no reminder comes on its way.
LEMMA ReminderStays ==
    ASSUME NoticesInv, NEW m \in Expiring, Announcing(m)' = Announcing(m), lapses' = lapses,
           Creating(m)' = Creating(m),
           IsAhead(m, today') /\ ~IsMarked(m)' /\ ~OnItsWay(m)'
             => IsAhead(m, today) /\ ~IsMarked(m) /\ ~OnItsWay(m)
    PROVE  ReminderIsKept(m)'
  <1>1. ReminderIsKept(m)
    BY DEF NoticesInv, RemindersKept
  <1>2. NoticesOf(m)' = NoticesOf(m)
    BY DEF NoticesOf
  <1> QED BY <1>1, <1>2 DEF ReminderIsKept

\* A mark is gone only after the day of its reminder.
LEMMA GoneMarksAreOver ==
    ASSUME NEW k, MarkOutlives(k), k.about \in Expiring, k.until \in Nat, NEW day \in Nat,
           k.until <= day
    PROVE  ~IsAhead(k.about, day)
  <1>1. k.about.before \in Nat /\ k.about.anchor \in Nat
    BY ReminderIsTyped DEF Expiring
  <1>2. k.until + k.about.before >= k.about.anchor + 2
    BY DEF MarkOutlives, Expiring
  <1>3. ~(day + k.about.before <= k.about.anchor)
    BY ONLY <1>1, <1>2, k.until \in Nat, day \in Nat, k.until <= day
  <1> QED BY <1>3 DEF IsAhead

\* Days pass and marks expire.
LEMMA TimeKeeps ==
    ASSUME NoticesInv, today' \in Nat, today <= today', marks' \subseteq marks,
           \A k \in marks \ marks' : k.until <= today',
           UNCHANGED <<inbox, plan, scan, lapses>>
    PROVE  NoticesInv'
  <1>1. NoticesOK /\ RemindersKept /\ MarksHold /\ ScanHolds
    BY DEF NoticesInv
  <1>2. NoticesOK'
    BY <1>1 DEF NoticesOK
  <1>3. \A m : Announcing(m)' = Announcing(m)
    BY DEF Announcing
  <1>4. ASSUME NEW m \in Expiring PROVE ReminderIsKept(m)'
    <2>1. m.before \in Nat /\ m.anchor \in Nat /\ today \in Nat
      BY <1>1, ReminderIsTyped DEF Expiring, NoticesOK
    <2>2. IsAhead(m, today') => IsAhead(m, today)
      <3>1. today' + m.before <= m.anchor => today + m.before <= m.anchor
        BY ONLY <2>1, today' \in Nat, today <= today'
      <3> QED BY <3>1 DEF IsAhead
    <2>3. ASSUME IsAhead(m, today'), ~IsMarked(m)' PROVE ~IsMarked(m)
      <3>1. SUFFICES ASSUME NEW k \in marks, k.about = m PROVE FALSE
        BY DEF IsMarked
      <3>2. k \notin marks'
        BY <2>3, <3>1 DEF IsMarked
      <3>3. k.until <= today' /\ k.until \in Nat /\ MarkOutlives(k)
        BY <1>1, <3>1, <3>2 DEF MarksHold, NoticesOK
      <3> QED BY <2>3, <3>1, <3>3, GoneMarksAreOver
    <2>4. Creating(m)' = Creating(m) /\ (OnItsWay(m)' <=> OnItsWay(m))
      BY DEF Creating, OnItsWay
    <2> QED BY <1>3, <2>2, <2>3, <2>4, ReminderStays
  <1>5. RemindersKept'
    BY <1>4 DEF RemindersKept, Expiring
  <1>6. MarksHold'
    BY <1>1, <1>3 DEF MarksHold
  <1>7. ScanHolds'
    <2>1. OnItsWay(scan.about)' <=> OnItsWay(scan.about)
      BY DEF OnItsWay
    <2>2. scan.about \in Reminder /\ today \in Nat
      BY <1>1 DEF NoticesOK, ScanRec
    <2>3. scan.about.before \in Nat /\ scan.about.anchor \in Nat
      BY <2>2, ReminderIsTyped
    <2>4. HasCome(scan.about, today) => HasCome(scan.about, today')
      <3>1. today + scan.about.before >= scan.about.anchor => today' + scan.about.before >= scan.about.anchor
        BY ONLY <2>2, <2>3, today' \in Nat, today <= today'
      <3> QED BY <3>1 DEF HasCome
    <2> QED BY <1>1, <1>3, <2>1, <2>4 DEF ScanHolds, OnItsWay
  <1> QED BY <1>2, <1>5, <1>6, <1>7 DEF NoticesInv

\* A day passes; nothing that was due becomes due again.
LEMMA DayPassesKeeps == ASSUME NoticesInv, DayPasses PROVE NoticesInv'
  <1>1. today \in Nat /\ \A k \in marks : k.until \in Nat
    BY DEF NoticesInv, NoticesOK
  <1>2. today' = today + 1 /\ marks' = { k \in marks : k.until >= today' }
    BY DEF DayPasses
  <1>3. today' \in Nat /\ today <= today'
    BY ONLY <1>1, <1>2
  <1>4. ASSUME NEW k \in marks \ marks' PROVE k.until <= today'
    <2>1. k.until \in Nat /\ ~(k.until >= today')
      BY <1>1, <1>2
    <2> QED BY ONLY <1>3, <2>1
  <1>5. marks' \subseteq marks
    BY <1>2
  <1> QED BY <1>3, <1>4, <1>5, TimeKeeps DEF DayPasses

\* A mark expires, after its reminder is over.
LEMMA MarkExpiresKeeps == ASSUME NoticesInv, NEW k \in marks, MarkExpires(k) PROVE NoticesInv'
  <1>1. today \in Nat
    BY DEF NoticesInv, NoticesOK
  <1>2. /\ k.until = today /\ marks' = marks \ {k}
        /\ UNCHANGED <<inbox, plan, today, scan, lapses>>
    BY DEF MarkExpires
  <1>3. marks' \subseteq marks /\ \A h \in marks \ marks' : h = k
    BY <1>2
  <1>4. \A h \in marks \ marks' : h.until <= today'
    BY <1>1, <1>2, <1>3
  <1> QED BY <1>1, <1>2, <1>3, <1>4, TimeKeeps

\* The scan lists the subscriptions.
LEMMA ListKeeps == ASSUME NoticesInv, ListSubscriptions PROVE NoticesInv'
  <1>1. NoticesOK /\ RemindersKept /\ MarksHold /\ ScanHolds
    BY DEF NoticesInv
  <1>2. /\ scan.at = "idle" /\ scan' = [scan EXCEPT !.at = "decide", !.seen = plan]
        /\ UNCHANGED <<inbox, plan, today, marks, lapses>>
    BY DEF ListSubscriptions
  <1>3. scan' \in ScanRec /\ scan'.at = "decide"
    BY <1>1, <1>2 DEF NoticesOK, ScanRec
  <1>4. NoticesOK'
    BY <1>1, <1>2, <1>3 DEF NoticesOK
  <1>5. \A m : Announcing(m)' = Announcing(m)
    BY <1>2 DEF Announcing
  <1>6. ASSUME NEW m \in Expiring PROVE ReminderIsKept(m)'
    <2>1. Creating(m) = 0 /\ Creating(m)' = 0 /\ ~OnItsWay(m) /\ ~OnItsWay(m)'
      BY <1>2, <1>3 DEF Creating, OnItsWay
    <2>2. IsMarked(m)' <=> IsMarked(m)
      BY <1>2 DEF IsMarked
    <2> QED BY <1>2, <1>5, <2>1, <2>2, ReminderStays
  <1>7. RemindersKept'
    BY <1>6 DEF RemindersKept, Expiring
  <1>8. MarksHold'
    BY <1>1, <1>2, <1>5 DEF MarksHold
  <1>9. ScanHolds'
    BY <1>3 DEF ScanHolds, OnItsWay
  <1> QED BY <1>4, <1>7, <1>8, <1>9 DEF NoticesInv

\* The loop has nothing to send, or goes on with a reminder that is due.
LEMMA DueIsToday ==
    ASSUME NEW p \in Plan, NEW day \in Nat, NEW m \in Due(p, day)
    PROVE  m \in Reminder /\ (m.kind = "expiring" => day + m.before = m.anchor)
  BY DEF Due, Milestones

\* A scan that goes to create.
LEMMA CreateIsOfScan ==
    ASSUME NEW m \in Reminder
    PROVE  LET new == [NoScan EXCEPT !.at = "create", !.about = m]
           IN  new \in ScanRec /\ new.at = "create" /\ new.about = m
  BY NoScanIsIdle DEF ScanRec

\* The scan finds nothing to do.
LEMMA DecideIdles ==
    ASSUME NoticesInv, scan.at = "decide", scan' = NoScan, lapses' = lapses,
           UNCHANGED <<inbox, plan, today, marks>>
    PROVE  NoticesInv'
  <1>1. NoticesOK /\ RemindersKept /\ MarksHold /\ ScanHolds
    BY DEF NoticesInv
  <1>2. NoticesOK'
    BY <1>1, NoScanIsIdle DEF NoticesOK
  <1>3. \A m : Announcing(m)' = Announcing(m)
    BY DEF Announcing
  <1>4. ASSUME NEW m \in Expiring PROVE ReminderIsKept(m)'
    <2>1. Creating(m) = 0 /\ Creating(m)' = 0 /\ ~OnItsWay(m) /\ ~OnItsWay(m)'
      BY NoScanIsIdle DEF Creating, OnItsWay
    <2>2. IsMarked(m)' <=> IsMarked(m)
      BY DEF IsMarked
    <2> QED BY <1>3, <2>1, <2>2, ReminderStays
  <1>5. RemindersKept'
    BY <1>4 DEF RemindersKept, Expiring
  <1>6. MarksHold'
    BY <1>1, <1>3 DEF MarksHold
  <1>7. ScanHolds'
    BY NoScanIsIdle DEF ScanHolds, OnItsWay
  <1> QED BY <1>2, <1>5, <1>6, <1>7 DEF NoticesInv

\* The scan goes to create; without the mark, what was sent is counted as lost.
LEMMA DecideCreates ==
    ASSUME NoticesInv, scan.at = "decide", NEW d \in Due(scan.seen, today),
           scan' = [NoScan EXCEPT !.at = "create", !.about = d],
           (~IsMarked(d) /\ lapses' = lapses) \/ lapses' = lapses + 1,
           UNCHANGED <<inbox, plan, today, marks>>
    PROVE  NoticesInv'
  <1>1. NoticesOK /\ RemindersKept /\ MarksHold /\ ScanHolds
    BY DEF NoticesInv
  <1>2. scan.seen \in Plan /\ today \in Nat /\ lapses \in Nat
    BY <1>1 DEF NoticesOK, ScanRec
  <1>3. d \in Reminder /\ (d.kind = "expiring" => today + d.before = d.anchor)
    BY <1>2, DueIsToday
  <1>4. scan' \in ScanRec /\ scan'.at = "create" /\ scan'.about = d
    BY <1>3, CreateIsOfScan
  <1>5. lapses' \in Nat /\ lapses <= lapses'
    BY ONLY <1>2, (~IsMarked(d) /\ lapses' = lapses) \/ lapses' = lapses + 1
  <1>6. NoticesOK'
    BY <1>1, <1>4, <1>5 DEF NoticesOK
  <1>7. \A m : Announcing(m)' = Announcing(m)
    BY DEF Announcing
  <1>8. ASSUME NEW m \in Expiring PROVE ReminderIsKept(m)'
    <2>1. NoticesOf(m)' = NoticesOf(m) /\ NoticesOf(m) \in Nat
      BY <1>1, <1>7, AnnouncingIsFinite DEF NoticesOf
    <2>2. Creating(m) = 0 /\ ~OnItsWay(m) /\ ReminderIsKept(m)
      BY <1>1 DEF Creating, OnItsWay, RemindersKept
    <2>3. NoticesOf(m) + 0 <= 1 + lapses
      BY <2>2 DEF ReminderIsKept
    <2>4. CASE m = d
      <3>1. Creating(m)' = 1 /\ OnItsWay(m)'
        BY <1>4, <2>4 DEF Creating, OnItsWay
      <3>2. NoticesOf(m) <= lapses'
        <4>1. CASE lapses' = lapses + 1
          BY ONLY <1>2, <2>1, <2>3, <4>1
        <4>2. CASE ~IsMarked(d) /\ lapses' = lapses
          <5>1. today + m.before = m.anchor
            BY <1>3, <2>4 DEF Expiring
          <5>2. m.before \in Nat /\ m.anchor \in Nat
            BY <1>3, <2>4, ReminderIsTyped
          <5>3. today + m.before <= m.anchor
            BY ONLY <1>2, <5>1, <5>2
          <5>4. IsAhead(m, today)
            BY <5>3 DEF IsAhead
          <5> QED BY <2>2, <2>4, <4>2, <5>4 DEF ReminderIsKept
        <4> QED BY <4>1, <4>2
      <3>3. NoticesOf(m) + 1 <= 1 + lapses'
        BY ONLY <1>5, <2>1, <3>2
      <3> QED BY <2>1, <3>1, <3>3 DEF ReminderIsKept
    <2>5. CASE m # d
      <3>1. Creating(m)' = 0
        BY <1>4, <2>5 DEF Creating
      <3>2. NoticesOf(m) + 0 <= 1 + lapses'
        BY ONLY <1>2, <1>5, <2>1, <2>3
      <3>3. IsMarked(m)' <=> IsMarked(m)
        BY DEF IsMarked
      <3>4. IsAhead(m, today) /\ ~IsMarked(m) => NoticesOf(m) <= lapses
        BY <2>2 DEF ReminderIsKept
      <3>5. NoticesOf(m) <= lapses => NoticesOf(m) <= lapses'
        BY ONLY <1>2, <1>5, <2>1
      <3> QED BY <2>1, <3>1, <3>2, <3>3, <3>4, <3>5 DEF ReminderIsKept
    <2> QED BY <2>4, <2>5
  <1>9. RemindersKept'
    BY <1>8 DEF RemindersKept, Expiring
  <1>10. MarksHold'
    BY <1>1, <1>7 DEF MarksHold
  <1>11. ScanHolds'
    <2>1. d.kind = "expiring" => HasCome(d, today)
      <3>1. d.before \in Nat /\ d.anchor \in Nat
        BY <1>3, ReminderIsTyped
      <3>2. today + d.before = d.anchor => today + d.before >= d.anchor
        BY ONLY <1>2, <3>1
      <3> QED BY <1>3, <3>2 DEF HasCome
    <2> QED BY <1>4, <2>1 DEF ScanHolds, OnItsWay
  <1> QED BY <1>6, <1>9, <1>10, <1>11 DEF NoticesInv

\* The scan decides on a subscription.
LEMMA DecideKeeps == ASSUME NoticesInv, NEW redis \in BOOLEAN, Decide(redis) PROVE NoticesInv'
  <1> DEFINE due == Due(scan.seen, today)
             none == due = {} \/ (redis /\ \E m \in due : IsMarked(m))
             d == CHOOSE m \in due : TRUE
  <1>1. /\ scan.at = "decide"
        /\ scan' = IF none THEN NoScan ELSE [NoScan EXCEPT !.at = "create", !.about = d]
        /\ IF redis THEN UNCHANGED lapses ELSE lapses' = lapses + 1
        /\ UNCHANGED <<inbox, plan, today, marks>>
    BY DEF Decide, Lapse
  <1>2. CASE none
    <2>1. CASE redis
      BY <1>1, <1>2, <2>1, DecideIdles
    <2>2. CASE ~redis
      BY <1>1, <1>2, <2>2, ScanEndsKeeps
    <2> QED BY <2>1, <2>2
  <1>3. CASE ~none
    <2>1. d \in due /\ (redis => ~IsMarked(d))
      BY <1>3
    <2>2. (~IsMarked(d) /\ lapses' = lapses) \/ lapses' = lapses + 1
      BY <1>1, <2>1
    <2> HIDE DEF d, none
    <2> QED BY <1>1, <1>3, <2>1, <2>2, DecideCreates
  <1> QED BY <1>2, <1>3

\* The notice of a reminder is written.
LEMMA RemindKeeps == ASSUME NoticesInv, RemindInbox PROVE NoticesInv'
  <1>1. NoticesOK /\ RemindersKept /\ MarksHold /\ ScanHolds
    BY DEF NoticesInv
  <1> DEFINE about == scan.about
  <1>2. /\ scan.at = "create" /\ Insert(about.kind, about) /\ scan' = [scan EXCEPT !.at = "send"]
        /\ UNCHANGED <<plan, today, marks, lapses>>
    BY DEF RemindInbox
  <1>3. about \in Reminder /\ inbox \in Seq(Row) /\ Len(inbox) \in Nat /\ lapses \in Nat
    BY <1>1 DEF NoticesOK, ScanRec
  <1>4. about.kind \in Milestones /\ about.kind \in NoticeTypes
    BY <1>3, ReminderIsTyped DEF NoticeTypes
  <1>5. scan' \in ScanRec /\ scan'.at = "send" /\ scan'.about = about
    BY <1>1, <1>2 DEF NoticesOK, ScanRec
  <1>6. /\ inbox' \in Seq(Row)
        /\ \A m : Announcing(m)' = IF m = about THEN Announcing(m) \cup {Len(inbox) + 1}
                                    ELSE Announcing(m)
    BY <1>2, <1>3, <1>4, InsertAnnounces
  <1>7. NoticesOK'
    BY <1>1, <1>2, <1>5, <1>6 DEF NoticesOK
  <1>8. ASSUME NEW m \in Expiring PROVE ReminderIsKept(m)'
    <2>1. ReminderIsKept(m) /\ NoticesOf(m) \in Nat
      BY <1>1, AnnouncingIsFinite DEF RemindersKept
    <2>2. IsMarked(m)' <=> IsMarked(m)
      BY <1>2 DEF IsMarked
    <2>3. OnItsWay(m)' <=> OnItsWay(m)
      BY <1>2, <1>5 DEF OnItsWay
    <2>4. CASE m = about
      <3>1. Creating(m) = 1 /\ Creating(m)' = 0 /\ OnItsWay(m)
        BY <1>2, <1>5, <2>4 DEF Creating, OnItsWay
      <3>2. IsFiniteSet(Announcing(m)) /\ Announcing(m)' = Announcing(m) \cup {Len(inbox) + 1}
        BY <1>1, <1>6, <2>4, AnnouncingIsFinite
      <3>3. Cardinality(Announcing(m)') \in {Cardinality(Announcing(m)), Cardinality(Announcing(m)) + 1}
        BY <3>2, FS_AddElement
      <3>4. NoticesOf(m)' \in {NoticesOf(m), NoticesOf(m) + 1}
        BY <3>3 DEF NoticesOf
      <3>5. NoticesOf(m) + 1 <= 1 + lapses
        BY <2>1, <3>1 DEF ReminderIsKept
      <3>6. NoticesOf(m)' + 0 <= 1 + lapses
        BY ONLY <1>3, <2>1, <3>4, <3>5
      <3> QED BY <1>2, <2>3, <3>1, <3>6 DEF ReminderIsKept
    <2>5. CASE m # about
      <3>1. Creating(m)' = Creating(m) /\ Announcing(m)' = Announcing(m)
        BY <1>2, <1>5, <1>6, <2>5 DEF Creating
      <3> QED BY <1>2, <2>2, <2>3, <3>1, ReminderStays
    <2> QED BY <2>4, <2>5
  <1>9. RemindersKept'
    BY <1>8 DEF RemindersKept, Expiring
  <1>10. \A m : Announcing(m) \subseteq Announcing(m)'
    BY <1>6
  <1>11. MarksHold'
    BY <1>1, <1>2, <1>10 DEF MarksHold
  <1>12. ScanHolds'
    <2>1. PICK m : m = about
      OBVIOUS
    <2>2. Announcing(m)' # {}
      BY <1>6, <2>1
    <2>3. Announcing(scan.about)' # {}
      BY <1>5, <2>1, <2>2 DEF Announcing
    <2>4. about.kind = "expiring" => HasCome(about, today)
      BY <1>1, <1>2 DEF ScanHolds, OnItsWay
    <2> QED BY <1>2, <1>5, <2>3, <2>4 DEF ScanHolds, OnItsWay
  <1> QED BY <1>7, <1>9, <1>11, <1>12 DEF NoticesInv

\* It is sent.
LEMMA SendReminderKeeps == ASSUME NoticesInv, SendReminder PROVE NoticesInv'
  <1>1. NoticesOK /\ RemindersKept /\ MarksHold /\ ScanHolds
    BY DEF NoticesInv
  <1>2. /\ scan.at = "send" /\ \E n, wanted : SetStatus(n, wanted)
        /\ scan' = [scan EXCEPT !.at = "mark"]
        /\ UNCHANGED <<plan, today, marks, lapses>>
    BY DEF SendReminder
  <1>3. inbox \in Seq(Row)
    BY <1>1 DEF NoticesOK
  <1>4. SameRows(inbox, inbox')
    BY <1>2, <1>3, SetStatusKeepsRows
  <1>5. inbox' \in Seq(Row) /\ \A m : Announcing(m)' = Announcing(m)
    BY <1>3, <1>4, SameRowsAnnounce DEF SameRows
  <1>6. scan' \in ScanRec /\ scan'.at = "mark" /\ scan'.about = scan.about
    BY <1>1, <1>2 DEF NoticesOK, ScanRec
  <1>7. NoticesOK'
    BY <1>1, <1>2, <1>5, <1>6 DEF NoticesOK
  <1>8. ASSUME NEW m \in Expiring PROVE ReminderIsKept(m)'
    <2>1. Creating(m)' = Creating(m) /\ (OnItsWay(m)' <=> OnItsWay(m))
      BY <1>2, <1>6 DEF Creating, OnItsWay
    <2>2. IsMarked(m)' <=> IsMarked(m)
      BY <1>2 DEF IsMarked
    <2> QED BY <1>2, <1>5, <2>1, <2>2, ReminderStays
  <1>9. RemindersKept'
    BY <1>8 DEF RemindersKept, Expiring
  <1>10. MarksHold'
    BY <1>1, <1>2, <1>5 DEF MarksHold
  <1>11. ScanHolds'
    BY <1>1, <1>2, <1>5, <1>6 DEF ScanHolds, OnItsWay
  <1> QED BY <1>7, <1>9, <1>10, <1>11 DEF NoticesInv

\* It is marked as sent, if the store answers.
LEMMA MarkSentKeeps == ASSUME NoticesInv, NEW redis \in BOOLEAN, MarkSent(redis) PROVE NoticesInv'
  <1>1. NoticesOK /\ RemindersKept /\ MarksHold /\ ScanHolds
    BY DEF NoticesInv
  <1>2. CASE ~redis
    BY <1>2, ScanEndsKeeps DEF MarkSent, Lapse
  <1>3. CASE redis
    <2> DEFINE about == scan.about
               k == [about |-> about, until |-> today + 2]
    <2>1. /\ scan.at = "mark" /\ marks' = marks \cup {k} /\ scan' = NoScan
          /\ UNCHANGED <<inbox, plan, today, lapses>>
      BY <1>3 DEF MarkSent, MayMark
    <2>2. about \in Reminder /\ today \in Nat
      BY <1>1 DEF NoticesOK, ScanRec
    <2>3. about.before \in Nat /\ about.anchor \in Nat
      BY <2>2, ReminderIsTyped
    <2>4. k.about = about /\ k.until = today + 2 /\ today + 2 \in Nat
      BY <2>2
    <2>5. MarkOutlives(k)
      <3>1. today + about.before >= about.anchor => (today + 2) + about.before >= about.anchor + 2
        BY ONLY <2>2, <2>3
      <3>2. about.kind = "expiring" => today + about.before >= about.anchor
        BY <1>1, <2>1 DEF ScanHolds, OnItsWay, HasCome
      <3> QED BY <2>4, <3>1, <3>2 DEF MarkOutlives
    <2> HIDE DEF k
    <2>6. NoticesOK'
      BY <1>1, <2>1, <2>2, <2>4, NoScanIsIdle DEF NoticesOK
    <2>7. \A m : Announcing(m)' = Announcing(m)
      BY <2>1 DEF Announcing
    <2>8. ASSUME NEW m \in Expiring PROVE ReminderIsKept(m)'
      <3>1. Creating(m) = 0 /\ Creating(m)' = 0
        BY <2>1, NoScanIsIdle DEF Creating
      <3>2. ASSUME ~IsMarked(m)' PROVE ~IsMarked(m) /\ ~OnItsWay(m)
        <4>1. m # about
          BY <2>1, <2>4, <3>2 DEF IsMarked
        <4> QED BY <2>1, <3>2, <4>1 DEF IsMarked, OnItsWay
      <3> QED BY <2>1, <2>7, <3>1, <3>2, ReminderStays
    <2>9. RemindersKept'
      BY <2>8 DEF RemindersKept, Expiring
    <2>10. Announcing(about) # {}
      BY <1>1, <2>1 DEF ScanHolds
    <2>11. MarksHold'
      BY <1>1, <2>1, <2>4, <2>5, <2>7, <2>10 DEF MarksHold
    <2>12. ScanHolds'
      BY <2>1, NoScanIsIdle DEF ScanHolds, OnItsWay
    <2> QED BY <2>6, <2>9, <2>11, <2>12 DEF NoticesInv
  <1> QED BY <1>2, <1>3

\* Every step keeps it.
LEMMA NextNotices == NoticesInv /\ [NoticesNext]_noticeVars => NoticesInv'
  <1> SUFFICES ASSUME NoticesInv, [NoticesNext]_noticeVars PROVE NoticesInv'
    OBVIOUS
  <1>1. inbox \in Seq(Row) /\ plan \in Plan
    BY DEF NoticesInv, NoticesOK
  <1>2. SameRows(inbox, inbox)
    BY <1>1 DEF SameRows
  <1>3. ASSUME plan' \in Plan, UNCHANGED <<inbox, today, marks, scan, lapses>> PROVE NoticesInv'
    BY <1>2, <1>3, SameRowsKeep
  <1>4. CASE UNCHANGED noticeVars
    BY <1>1, <1>3, <1>4 DEF noticeVars
  <1>5. ASSUME NEW p \in Preferences, SetPreferences(p) PROVE NoticesInv'
    BY <1>1, <1>3, <1>5 DEF SetPreferences
  <1>6. ASSUME NEW p \in Plan, PlanMoves(p) PROVE NoticesInv'
    BY <1>3, <1>6 DEF PlanMoves
  <1>7. ASSUME NEW n, ReadNotice(n) \/ Acknowledge(n) PROVE NoticesInv'
    BY <1>7, ReadingKeeps DEF ReadNotice, Acknowledge
  <1>8. CASE ReadAll
    BY <1>8, ReadingKeeps DEF ReadAll
  <1>9. CASE ScanFails
    BY <1>9, ScanEndsKeeps DEF ScanFails, Lapse
  <1> QED BY <1>4, <1>5, <1>6, <1>7, <1>8, <1>9, EmitKeeps, SendOutKeeps, DayPassesKeeps, ListKeeps,
             RemindKeeps, SendReminderKeeps, DecideKeeps, MarkSentKeeps, MarkExpiresKeeps
          DEF NoticesNext

\* What is promised follows.
LEMMA RemindersCount == NoticesInv => RemindersAreKept
  <1> SUFFICES ASSUME NoticesInv PROVE RemindersAreKept
    OBVIOUS
  <1>1. ASSUME NEW m \in Reminder, m.kind = "expiring"
        PROVE  Cardinality(Announcing(m)) <= 1 + lapses
    <2>1. m \in Expiring
      BY <1>1 DEF Expiring
    <2>2. NoticesOf(m) + Creating(m) <= 1 + lapses
      BY <2>1 DEF NoticesInv, RemindersKept, ReminderIsKept
    <2>3. NoticesOf(m) \in Nat /\ lapses \in Nat /\ Creating(m) \in {0, 1}
      BY AnnouncingIsFinite, CreatingIs DEF NoticesInv, NoticesOK
    <2>4. NoticesOf(m) <= 1 + lapses
      BY ONLY <2>2, <2>3
    <2> QED BY <2>4 DEF NoticesOf
  <1> QED BY <1>1 DEF NoticesInv, MarksHold, RemindersAreKept

-----------------------------------------------------------------------------
(* Frames of a screen and what they are judged to be.                      *)

Places == {"idle", "ask", "add", "trim", "read"}

ScreenRec == [at : Places, frame : Frames \cup {<<0, 0>>}, named : BOOLEAN, source : Sources,
              bars : BOOLEAN, acquired : Acquisitions, verdict : Verdicts]

\* Bars come with a stream, and a verdict with the end of a request.
ScreenIsClear(s) ==
    /\ s.bars => s.source = "stream"
    /\ s.verdict = "EXECUTE_CANDIDATE" =>
          s.at = "idle" /\ s.acquired = "CAPTURE_COMPLETE" /\ s.source = "stream"

ScreensAreClear == /\ screen \in [Requests -> ScreenRec] /\ serial \in Nat
                   /\ \A r \in Requests : ScreenIsClear(screen[r])

HistoryIsKept == /\ IsFiniteSet(received) /\ frames \subseteq received
                 /\ LatestOf(received) \subseteq frames

ScreenInv == ScreensAreClear /\ HistoryIsKept

\* A request without a screen.
LEMMA NoScreenIsClear == NoScreen \in ScreenRec /\ ScreenIsClear(NoScreen) /\ NoScreen.verdict = "none"
  BY DEF NoScreen, ScreenRec, ScreenIsClear, Places, Sources, Acquisitions, Verdicts

\* The invariant holds at the start.
LEMMA InitScreen == ScreenInit => ScreenInv
  <1> SUFFICES ASSUME ScreenInit PROVE ScreenInv
    OBVIOUS
  <1>1. ScreensAreClear
    BY NoScreenIsClear DEF ScreenInit, ScreensAreClear
  <1>2. HistoryIsKept
    BY FS_EmptySet DEF ScreenInit, HistoryIsKept, LatestOf
  <1> QED BY <1>1, <1>2 DEF ScreenInv

\* The frames that are later than one of a set.
LaterIn(S, f) == { g \in S : Later(g, f) }

\* Fewer frames are later than one in a smaller set.
LEMMA LatestOfLess ==
    ASSUME NEW S, NEW T, IsFiniteSet(T), S \subseteq T, NEW f \in LatestOf(T), f \in S
    PROVE  f \in LatestOf(S)
  <1>1. IsFiniteSet(LaterIn(T, f)) /\ LaterIn(S, f) \subseteq LaterIn(T, f)
    BY FS_Subset DEF LaterIn
  <1>2. /\ IsFiniteSet(LaterIn(S, f))
        /\ Cardinality(LaterIn(S, f)) <= Cardinality(LaterIn(T, f))
    BY <1>1, FS_Subset
  <1>3. Cardinality(LaterIn(S, f)) \in Nat /\ Cardinality(LaterIn(T, f)) \in Nat
    BY <1>1, <1>2, FS_CardinalityType
  <1>4. Cardinality(LaterIn(T, f)) < MaxFrames /\ MaxFrames \in Nat
    BY ScreenAssumption DEF LatestOf, LaterIn
  <1>5. Cardinality(LaterIn(S, f)) < MaxFrames
    BY ONLY <1>2, <1>3, <1>4
  <1> QED BY <1>5 DEF LatestOf, LaterIn

\* The latest frames are some of them.
LEMMA LatestIsThere == ASSUME NEW S PROVE LatestOf(S) \subseteq S
  BY DEF LatestOf

\* The new state of a request.
ScreenIs(r, new) ==
    /\ screen' = [screen EXCEPT ![r] = new]
    /\ new \in ScreenRec /\ ScreenIsClear(new)

\* A request that changes its screen.
LEMMA ScreenChanges ==
    ASSUME ScreensAreClear, serial' \in Nat, NEW r \in Requests, NEW new, ScreenIs(r, new)
    PROVE  ScreensAreClear'
  BY DEF ScreensAreClear, ScreenIs

\* A screen is uploaded: its form has no source that is synchronized.
LEMMA UploadKeeps ==
    ASSUME ScreenInv, NEW r \in Requests, UploadScreen(r) PROVE ScreenInv'
  <1>1. ScreensAreClear /\ HistoryIsKept
    BY DEF ScreenInv
  <1>2. PICK captured \in Captures, named \in BOOLEAN :
          screen' = [screen EXCEPT ![r] =
              [NoScreen EXCEPT !.at = IF named THEN "ask" ELSE "add",
                               !.frame = <<captured, serial + 1>>,
                               !.named = named]]
    BY DEF UploadScreen
  <1>3. serial \in Nat /\ MaxScreens \in Nat /\ serial < MaxScreens /\ serial' = serial + 1
    BY <1>1, ScreenAssumption DEF UploadScreen, ScreensAreClear
  <1>4. serial' \in Nat /\ serial + 1 \in 1..MaxScreens
    BY ONLY <1>3
  <1> DEFINE at == IF named THEN "ask" ELSE "add"
             new == [NoScreen EXCEPT !.at = at, !.frame = <<captured, serial + 1>>, !.named = named]
  <1>5. at \in Places /\ <<captured, serial + 1>> \in Frames
    BY <1>4 DEF Places, Frames
  <1> HIDE DEF at
  <1>6. new \in ScreenRec /\ new.bars = FALSE /\ new.verdict = "none"
    BY <1>5, NoScreenIsClear DEF ScreenRec, NoScreen
  <1>7. ScreenIsClear(new)
    BY <1>6 DEF ScreenIsClear
  <1>8. ScreenIs(r, new)
    BY <1>2, <1>6, <1>7 DEF ScreenIs, at
  <1>9. ScreensAreClear'
    BY <1>1, <1>4, <1>8, ScreenChanges
  <1>10. HistoryIsKept'
    BY <1>1 DEF HistoryIsKept, UploadScreen, LatestOf
  <1> QED BY <1>9, <1>10 DEF ScreenInv

\* The worker is asked for bars.
LEMMA AskKeeps ==
    ASSUME ScreenInv, NEW r \in Requests, AskWorker(r) PROVE ScreenInv'
  <1>1. ScreensAreClear /\ HistoryIsKept /\ screen[r] \in ScreenRec /\ ScreenIsClear(screen[r])
    BY DEF ScreenInv, ScreensAreClear
  <1>2. PICK snapshot \in {"none", "worker", "no close"}, filled \in BOOLEAN :
          screen' = [screen EXCEPT ![r].source = SourceOf(snapshot, filled),
                                   ![r].bars = stream = "fresh" /\ enough,
                                   ![r].at = "add"]
    BY DEF AskWorker
  <1> DEFINE source == SourceOf(snapshot, filled)
             bars == stream = "fresh" /\ enough
             new == [screen[r] EXCEPT !.source = source, !.bars = bars, !.at = "add"]
  <1>3. source \in Sources /\ (stream = "fresh" => source = "stream")
    BY DEF SourceOf, Sources
  <1>4. bars \in BOOLEAN /\ (bars => source = "stream") /\ "add" \in Places
    BY <1>3 DEF Places
  <1>5. screen[r].at # "idle" /\ "add" # "idle"
    BY DEF AskWorker
  <1> HIDE DEF source, bars
  <1>6. screen' = [screen EXCEPT ![r] = new]
    BY <1>1, <1>2 DEF ScreensAreClear, source, bars
  <1>7. new \in ScreenRec /\ new.bars = bars /\ new.source = source /\ new.verdict = screen[r].verdict
    BY <1>1, <1>3, <1>4 DEF ScreenRec
  <1>8. screen[r].verdict # "EXECUTE_CANDIDATE"
    BY <1>1, <1>5 DEF ScreenIsClear
  <1>9. ScreenIsClear(new)
    BY <1>4, <1>7, <1>8 DEF ScreenIsClear
  <1>10. ScreenIs(r, new)
    BY <1>6, <1>7, <1>9 DEF ScreenIs
  <1>11. UNCHANGED <<frames, received, serial>>
    BY DEF AskWorker
  <1>12. ScreensAreClear'
    BY <1>1, <1>10, <1>11, ScreenChanges DEF ScreensAreClear
  <1>13. HistoryIsKept'
    BY <1>1, <1>11 DEF HistoryIsKept, LatestOf
  <1> QED BY <1>12, <1>13 DEF ScreenInv

\* A request moves on and keeps what it knows of its screen.
LEMMA MovesOn ==
    ASSUME ScreensAreClear, NEW r \in Requests, NEW at \in Places, screen[r].at # "idle",
           screen' = [screen EXCEPT ![r].at = at], UNCHANGED serial
    PROVE  ScreensAreClear'
  <1> DEFINE new == [screen[r] EXCEPT !.at = at]
  <1>1. screen[r] \in ScreenRec /\ ScreenIsClear(screen[r]) /\ serial' \in Nat
    BY DEF ScreensAreClear
  <1>2. /\ new \in ScreenRec /\ new.bars = screen[r].bars /\ new.source = screen[r].source
        /\ new.verdict = screen[r].verdict
    BY <1>1 DEF ScreenRec
  <1>3. ScreenIsClear(new)
    BY <1>1, <1>2 DEF ScreenIsClear
  <1>4. screen' = [screen EXCEPT ![r] = new]
    BY DEF ScreensAreClear
  <1> QED BY <1>1, <1>2, <1>3, <1>4, ScreenChanges DEF ScreenIs

\* A frame is added.
LEMMA AddKeeps ==
    ASSUME ScreenInv, NEW r \in Requests, AddFrame(r) PROVE ScreenInv'
  <1>1. ScreensAreClear /\ HistoryIsKept
    BY DEF ScreenInv
  <1>2. ScreensAreClear'
    BY <1>1, MovesOn DEF AddFrame, Places
  <1> DEFINE f == screen[r].frame
  <1>3. received' = received \cup {f} /\ frames' = frames \cup {f}
    BY DEF AddFrame
  <1>4. IsFiniteSet(received') /\ received \subseteq received'
    BY <1>1, <1>3, FS_AddElement DEF HistoryIsKept
  <1>5. ASSUME NEW g \in LatestOf(received') PROVE g \in frames'
    <2>1. g \in received'
      BY LatestIsThere
    <2>2. CASE g = f
      BY <1>3, <2>2
    <2>3. CASE g # f
      BY <1>1, <1>3, <1>4, <2>1, <2>3, LatestOfLess DEF HistoryIsKept
    <2> QED BY <2>2, <2>3
  <1>6. LatestOf(received') \subseteq frames'
    BY <1>5
  <1>7. HistoryIsKept'
    BY <1>1, <1>3, <1>4, <1>6 DEF HistoryIsKept, LatestOf
  <1> QED BY <1>2, <1>7 DEF ScreenInv

\* The oldest frames are trimmed, whatever was added meanwhile.
LEMMA TrimKeeps ==
    ASSUME ScreenInv, NEW r \in Requests, TrimFrames(r) PROVE ScreenInv'
  <1>1. ScreensAreClear /\ HistoryIsKept
    BY DEF ScreenInv
  <1>2. ScreensAreClear'
    BY <1>1, MovesOn DEF TrimFrames, Places
  <1>3. received' = received /\ frames' = LatestOf(frames)
    BY DEF TrimFrames, Trim
  <1>4. LatestOf(received) \subseteq LatestOf(frames)
    BY <1>1, LatestOfLess DEF HistoryIsKept
  <1>5. LatestOf(frames) \subseteq frames
    BY LatestIsThere
  <1>6. HistoryIsKept'
    BY <1>1, <1>3, <1>4, <1>5 DEF HistoryIsKept, LatestOf
  <1> QED BY <1>2, <1>6 DEF ScreenInv

\* What an reply makes of a screen.
LEMMA CandidateIsComplete ==
    ASSUME NEW s, ScreenIsClear(s), s.source \in Sources, NEW reply \in Answers(s),
           VerdictOn(reply, AcquiredBy(s, reply)) = "EXECUTE_CANDIDATE"
    PROVE  AcquiredBy(s, reply) = "CAPTURE_COMPLETE" /\ s.source = "stream"
  <1>1. reply.signal # "HOLD"
    BY DEF VerdictOn
  <1>2. reply.rule = "evaluated" /\ s.bars
    BY <1>1 DEF Answers, Evaluates
  <1>3. s.source = "stream"
    BY <1>2 DEF ScreenIsClear
  <1> QED BY <1>2, <1>3 DEF AcquiredBy

\* The screen is judged.
LEMMA AnalyzeKeeps ==
    ASSUME ScreenInv, NEW r \in Requests, AnalyzeScreen(r) PROVE ScreenInv'
  <1>1. /\ ScreensAreClear /\ HistoryIsKept /\ screen[r] \in ScreenRec
        /\ ScreenIsClear(screen[r]) /\ serial \in Nat
    BY DEF ScreenInv, ScreensAreClear
  <1>2. UNCHANGED <<frames, received, serial>>
    BY DEF AnalyzeScreen
  <1>3. HistoryIsKept'
    BY <1>1, <1>2 DEF HistoryIsKept, LatestOf
  <1>4. ASSUME NEW verdict \in {"none", "failed"},
               screen' = [screen EXCEPT ![r] = [NoScreen EXCEPT !.verdict = verdict]]
        PROVE  ScreensAreClear'
    <2> DEFINE new == [NoScreen EXCEPT !.verdict = verdict]
    <2>1. verdict \in Verdicts /\ verdict # "EXECUTE_CANDIDATE"
      BY DEF Verdicts
    <2>2. new \in ScreenRec /\ new.bars = FALSE /\ new.verdict = verdict
      BY <2>1, NoScreenIsClear DEF ScreenRec, NoScreen
    <2>3. ScreenIs(r, new)
      BY <1>4, <2>1, <2>2 DEF ScreenIs, ScreenIsClear
    <2> QED BY <1>1, <1>2, <2>3, ScreenChanges
  <1>5. ASSUME NEW reply \in Answers(screen[r]),
               screen' = [screen EXCEPT ![r] =
                   [NoScreen EXCEPT !.source = screen[r].source,
                                    !.acquired = AcquiredBy(screen[r], reply),
                                    !.verdict = VerdictOn(reply, AcquiredBy(screen[r], reply))]]
        PROVE  ScreensAreClear'
    <2> DEFINE source == screen[r].source
               acquired == AcquiredBy(screen[r], reply)
               verdict == VerdictOn(reply, acquired)
               new == [NoScreen EXCEPT !.source = source, !.acquired = acquired, !.verdict = verdict]
    <2>1. source \in Sources
      BY <1>1 DEF ScreenRec
    <2>2. acquired \in Acquisitions
      BY DEF AcquiredBy, Acquisitions
    <2>3. verdict \in Verdicts
      BY DEF VerdictOn, Verdicts
    <2>4. verdict = "EXECUTE_CANDIDATE" => acquired = "CAPTURE_COMPLETE" /\ source = "stream"
      BY <1>1, <2>1, CandidateIsComplete
    <2> HIDE DEF source, acquired, verdict
    <2>5. /\ new \in ScreenRec /\ new.bars = FALSE /\ new.verdict = verdict
          /\ new.acquired = acquired /\ new.source = source /\ new.at = "idle"
      BY <2>1, <2>2, <2>3, NoScreenIsClear DEF ScreenRec, NoScreen
    <2>6. ScreenIsClear(new)
      BY <2>4, <2>5 DEF ScreenIsClear
    <2>7. ScreenIs(r, new)
      BY <1>5, <2>5, <2>6 DEF ScreenIs, source, acquired, verdict
    <2> QED BY <1>1, <1>2, <2>7, ScreenChanges
  <1>6. ScreensAreClear'
    BY <1>4, <1>5 DEF AnalyzeScreen
  <1> QED BY <1>3, <1>6 DEF ScreenInv

\* Every step keeps it.
LEMMA NextScreen == ScreenInv /\ [ScreenNext]_screenVars => ScreenInv'
  <1> SUFFICES ASSUME ScreenInv, [ScreenNext]_screenVars PROVE ScreenInv'
    OBVIOUS
  <1>1. ASSUME UNCHANGED <<screen, frames, received, serial>> PROVE ScreenInv'
    BY <1>1 DEF ScreenInv, ScreensAreClear, HistoryIsKept, LatestOf
  <1>2. CASE UNCHANGED screenVars
    BY <1>1, <1>2 DEF screenVars
  <1>3. CASE PostBars \/ BarsAge
    BY <1>1, <1>3 DEF PostBars, BarsAge
  <1>4. CASE FramesExpire
    <2>1. frames' = {} /\ received' = {} /\ UNCHANGED <<screen, serial>>
      BY <1>4 DEF FramesExpire
    <2>2. HistoryIsKept'
      BY <2>1, FS_EmptySet DEF HistoryIsKept, LatestOf
    <2> QED BY <2>1, <2>2 DEF ScreenInv, ScreensAreClear
  <1> QED BY <1>2, <1>3, <1>4, UploadKeeps, AskKeeps, AddKeeps, TrimKeeps, AnalyzeKeeps DEF ScreenNext

\* What is promised follows.
LEMMA ScreenKept == ScreenInv => NewestFramesAreKept /\ CandidatesAreSynchronized
  BY DEF ScreenInv, HistoryIsKept, ScreensAreClear, ScreenIsClear, NewestFramesAreKept,
         CandidatesAreSynchronized

-----------------------------------------------------------------------------
(* The rules on charts, and on charts turned upside down.                  *)

Lines == {"U", "M", "L"}
Oscillators == {"rsi", "ma"}

\* What a line, a direction, a kind of pivots and a side become.
OtherLine(l) == CASE l = "U" -> "L" [] l = "L" -> "U" [] OTHER -> l
OtherWay(d)  == CASE d = "above" -> "below" [] d = "below" -> "above" [] OTHER -> d
OtherKind(k) == IF k = "low" THEN "high" ELSE "low"

\* No value of a chart lies exactly on a line.
IsOffTheLines(f) == \A l \in Lines : Levels[l] \notin {f.rsi, f.ma, f.up, f.low}
OffTheLines == \A c \in Charts : \A f \in c.frames : IsOffTheLines(f)

ClearFrames == { f \in ChartFrames : IsOffTheLines(f) }

\* The lines of a chart.
LEMMA LinesAre ==
    /\ Height \in Nat /\ Touch \in Nat /\ Lookback \in Nat /\ Lookback > 0
    /\ \A l \in Lines : Levels[l] \in 0..Height /\ OtherLine(l) \in Lines
                        /\ Levels[OtherLine(l)] = Height - Levels[l]
    /\ NoRow \notin 0..Height
  <1>1. /\ Height \in Nat /\ Touch \in Nat /\ Lookback \in Nat /\ Lookback > 0
        /\ Levels \in [Lines -> 0..Height] /\ Levels["U"] + Levels["L"] = Height /\ 2 * Levels["M"] = Height
    BY RuleAssumption DEF Lines
  <1>2. Levels["U"] \in 0..Height /\ Levels["M"] \in 0..Height /\ Levels["L"] \in 0..Height
    BY <1>1 DEF Lines
  <1>3. \A l \in Lines : Levels[l] \in 0..Height /\ OtherLine(l) \in Lines
                        /\ Levels[OtherLine(l)] = Height - Levels[l]
    <2>1. OtherLine("U") = "L" /\ OtherLine("L") = "U" /\ OtherLine("M") = "M"
      BY DEF OtherLine
    <2>2. Levels["L"] = Height - Levels["U"] /\ Levels["U"] = Height - Levels["L"]
          /\ Levels["M"] = Height - Levels["M"]
      <3>1. \A a, b, n \in Int : a + b = n => b = n - a /\ a = n - b
        OBVIOUS
      <3>2. \A m, n \in Int : 2 * m = n => m = n - m
        OBVIOUS
      <3>3. Levels["U"] \in Int /\ Levels["M"] \in Int /\ Levels["L"] \in Int /\ Height \in Int
        BY <1>1, <1>2
      <3>4. Levels["U"] + Levels["L"] = Height
        BY <1>1
      <3>6. Levels["L"] = Height - Levels["U"] /\ Levels["U"] = Height - Levels["L"]
        <4> HIDE RuleAssumption
        <4> DEFINE u == Levels["U"] 
                   w == Levels["L"]
        <4>1. u + w = Height /\ u \in Int /\ w \in Int
          BY <3>3, <3>4
        <4> HIDE DEF u, w
        <4>2. w = Height - u /\ u = Height - w
          BY <3>3, <4>1
        <4> QED BY <4>2 DEF u, w
      <3>5. Levels["M"] = Height - Levels["M"]
        BY <1>1, <3>2, <3>3, Zenon
      <3> QED BY <3>5, <3>6
    <2> QED BY <1>2, <2>1, <2>2 DEF Lines
  <1> QED BY <1>1, <1>3 DEF NoRow

\* The fields of a mirrored frame.
LEMMA MirroredIs ==
    ASSUME NEW h \in Seq(ClearFrames)
    PROVE  /\ Mirrored(h) \in Seq(ClearFrames) /\ Len(Mirrored(h)) = Len(h)
           /\ \A i \in 1..Len(h) :
                 /\ \A osc \in Oscillators : Mirrored(h)[i][osc] = UpsideDown(h[i][osc])
                 /\ Mirrored(h)[i].up = Height - h[i].low /\ Mirrored(h)[i].low = Height - h[i].up
                 /\ Mirrored(h)[i].band = h[i].band /\ Mirrored(h)[i].price = h[i].price
  <1> DEFINE M == [i \in 1..Len(h) |->
                     [h[i] EXCEPT !.rsi = UpsideDown(h[i].rsi), !.ma = UpsideDown(h[i].ma),
                                  !.up = UpsideDown(h[i].low), !.low = UpsideDown(h[i].up)]]
  <1>1. Mirrored(h) = M
    BY DEF Mirrored
  <1>2. ASSUME NEW i \in 1..Len(h)
        PROVE  /\ M[i] \in ClearFrames
               /\ \A osc \in Oscillators : M[i][osc] = UpsideDown(h[i][osc])
               /\ M[i].up = Height - h[i].low /\ M[i].low = Height - h[i].up
               /\ M[i].band = h[i].band /\ M[i].price = h[i].price
    <2> DEFINE f == h[i]
    <2>1. f \in ClearFrames
      OBVIOUS
    <2>2. /\ f.rsi \in FoundRows /\ f.ma \in FoundRows /\ f.up \in 0..Height /\ f.low \in 0..Height
          /\ f.band \in BOOLEAN /\ f.price \in BOOLEAN
      BY <2>1 DEF ClearFrames, ChartFrames
    <2>3. \A r \in FoundRows : UpsideDown(r) \in FoundRows
      BY LinesAre DEF UpsideDown, FoundRows, NoRow
    <2>4. \A r \in 0..Height : UpsideDown(r) = Height - r /\ Height - r \in 0..Height
      BY LinesAre DEF UpsideDown
    <2>5. M[i] = [f EXCEPT !.rsi = UpsideDown(f.rsi), !.ma = UpsideDown(f.ma),
                           !.up = UpsideDown(f.low), !.low = UpsideDown(f.up)]
      OBVIOUS
    <2>6. f \in [rsi : FoundRows, ma : FoundRows, up : 0..Height, low : 0..Height,
                band : BOOLEAN, price : BOOLEAN]
      BY <2>1 DEF ClearFrames, ChartFrames
    <2> DEFINE g == [rsi |-> UpsideDown(f.rsi), ma |-> UpsideDown(f.ma),
                     up |-> Height - f.low, low |-> Height - f.up, band |-> f.band,
                     price |-> f.price]
    <2>7. M[i] = g
      <3> HIDE DEF M, f
      <3> QED BY <2>2, <2>4, <2>5, <2>6
    <2>8. g \in ChartFrames
      BY <2>2, <2>3, <2>4 DEF ChartFrames
    <2>9. IsOffTheLines(g)
      <3> SUFFICES ASSUME NEW l \in Lines PROVE Levels[l] \notin {g.rsi, g.ma, g.up, g.low}
        BY DEF IsOffTheLines
      <3>1. Levels[OtherLine(l)] \notin {f.rsi, f.ma, f.up, f.low}
        BY <2>1, LinesAre DEF ClearFrames, IsOffTheLines
      <3>2. Levels[l] = Height - Levels[OtherLine(l)] /\ Levels[l] \in 0..Height /\ Levels[OtherLine(l)] \in 0..Height
        BY LinesAre DEF OtherLine, Lines
      <3>3. \A r \in FoundRows : UpsideDown(r) = Levels[l] => r = Levels[OtherLine(l)]
        BY <3>2, LinesAre DEF UpsideDown, FoundRows, NoRow
      <3>4. \A r \in 0..Height : Height - r = Levels[l] => r = Levels[OtherLine(l)]
        BY <3>2, LinesAre
      <3> QED BY <2>2, <3>1, <3>3, <3>4
    <2> QED BY <2>7, <2>8, <2>9 DEF ClearFrames, Oscillators
  <1>3. M \in Seq(ClearFrames) /\ Len(M) = Len(h)
    <2>1. M = [i \in 1..Len(h) |-> M[i]] /\ Len(h) \in Nat
      OBVIOUS
    <2>2. \A i \in 1..Len(h) : M[i] \in ClearFrames
      BY <1>2
    <2> HIDE DEF M
    <2>3. M \in [1..Len(h) -> ClearFrames]
      BY <2>1, <2>2
    <2> QED BY <2>1, <2>3
  <1> HIDE DEF M
  <1> QED BY <1>1, <1>2, <1>3

\* Frames of a history.
LEMMA FramesAre ==
    ASSUME NEW h \in Seq(ClearFrames), NEW i \in 1..Len(h)
    PROVE  /\ \A osc \in Oscillators : h[i][osc] \in FoundRows
           /\ h[i].up \in 0..Height /\ h[i].low \in 0..Height /\ h[i].band \in BOOLEAN
           /\ \A l \in Lines : Levels[l] \notin {h[i].rsi, h[i].ma, h[i].up, h[i].low}
  <1>1. h[i] \in ClearFrames
    OBVIOUS
  <1> QED BY <1>1 DEF ClearFrames, ChartFrames, Oscillators, IsOffTheLines

\* A row changes sides, and comes as close to a line as its image to the other one.
LEMMA RowsTurn ==
    ASSUME NEW l \in Lines, NEW r \in 0..Height, NEW q \in 0..Height, r # Levels[l], q # Levels[l]
    PROVE  /\ Side(Height - r, Levels[OtherLine(l)]) = OtherWay(Side(r, Levels[l]))
           /\ Crossed(Height - r, Levels[OtherLine(l)], Height - q) = OtherWay(Crossed(r, Levels[l], q))
           /\ Touched(Height - r, Levels[OtherLine(l)]) <=> Touched(r, Levels[l])
           /\ Height - r < Levels[OtherLine(l)] <=> r > Levels[l]
           /\ Height - r > Levels[OtherLine(l)] <=> r < Levels[l]
  <1>1. Levels[l] \in 0..Height /\ Levels[OtherLine(l)] = Height - Levels[l] /\ Height \in Nat
    BY LinesAre
  <1>2. ASSUME NEW p \in 0..Height, p # Levels[l]
        PROVE Side(Height - p, Levels[OtherLine(l)]) = OtherWay(Side(p, Levels[l]))
    BY <1>1, <1>2 DEF Side, OtherWay
  <1>3. Crossed(Height - r, Levels[OtherLine(l)], Height - q) = OtherWay(Crossed(r, Levels[l], q))
    <2>1. Side(r, Levels[l]) \in {"above", "below"} /\ Side(q, Levels[l]) \in {"above", "below"}
      BY DEF Side
    <2> QED BY <1>2, <2>1 DEF Crossed, OtherWay
  <1>4. Touched(Height - r, Levels[OtherLine(l)]) <=> Touched(r, Levels[l])
    BY <1>1, LinesAre DEF Touched
  <1> QED BY <1>1, <1>2, <1>3, <1>4

\* The frames that the rules look at.
LEMMA RecentIs ==
    ASSUME NEW h \in Seq(ClearFrames)
    PROVE  Recent(h) \in Seq(ClearFrames) /\ Recent(Mirrored(h)) = Mirrored(Recent(h))
  <1> DEFINE k == Len(h) - Lookback
  <1>0. Lookback \in Nat /\ Lookback > 0 /\ Len(h) \in Nat /\ Len(Mirrored(h)) = Len(h)
    BY LinesAre, MirroredIs
  <1>1. CASE Len(h) > Lookback
    <2>1. Recent(h) = SubSeq(h, k + 1, Len(h)) /\ Recent(Mirrored(h)) = SubSeq(Mirrored(h), k + 1, Len(h))
      BY <1>0, <1>1 DEF Recent
    <2>2. SubSeq(h, k + 1, Len(h)) = [i \in 1..Lookback |-> h[i + k]]
      BY <1>0, <1>1
    <2>3. SubSeq(Mirrored(h), k + 1, Len(h)) = [i \in 1..Lookback |-> Mirrored(h)[i + k]]
      BY <1>0, <1>1
    <2>4. \A i \in 1..Lookback : i + k \in 1..Len(h) /\ i + k \in DOMAIN h
      BY <1>0, <1>1
    <2>5. [i \in 1..Lookback |-> h[i + k]] \in [1..Lookback -> ClearFrames]
      BY <2>4
    <2>6. Recent(h) \in Seq(ClearFrames) /\ DOMAIN Recent(h) = 1..Lookback
      <3> DEFINE G == [i \in 1..Lookback |-> h[i + k]]
      <3>1. G \in [1..Lookback -> ClearFrames] /\ DOMAIN G = 1..Lookback
        BY <2>5
      <3>2. Recent(h) = G
        BY <2>1, <2>2
      <3> HIDE DEF G
      <3> QED BY <1>0, <3>1, <3>2
    <2>7. Mirrored(Recent(h)) = [i \in 1..Lookback |-> Mirrored(h)[i + k]]
      BY <2>1, <2>2, <2>4, <2>6 DEF Mirrored
    <2> QED BY <2>1, <2>3, <2>6, <2>7
  <1>2. CASE ~(Len(h) > Lookback)
    BY <1>0, <1>2 DEF Recent
  <1> QED BY <1>1, <1>2

\* What the rules see of the recent frames, on the chart and turned upside down.
LEMMA ValuesTurn ==
    ASSUME NEW h \in Seq(ClearFrames), NEW osc \in Oscillators, NEW i \in 1..Len(h)
    PROVE  /\ HasLevels(Mirrored(h)[i], osc) <=> HasLevels(h[i], osc)
           /\ Mirrored(h)[i][osc] # NoRow <=> h[i][osc] # NoRow
           /\ HasLevels(h[i], osc) => h[i][osc] # NoRow
           /\ h[i][osc] # NoRow => /\ h[i][osc] \in 0..Height
                                   /\ Mirrored(h)[i][osc] = Height - h[i][osc]
                                   /\ \A l \in Lines : h[i][osc] # Levels[l]
  <1>1. Mirrored(h)[i][osc] = UpsideDown(h[i][osc]) /\ Mirrored(h)[i].band = h[i].band
    BY MirroredIs
  <1>2. h[i][osc] \in FoundRows /\ \A l \in Lines : h[i][osc] # Levels[l]
    BY FramesAre DEF Oscillators
  <1>3. /\ h[i][osc] # NoRow => h[i][osc] \in 0..Height /\ UpsideDown(h[i][osc]) = Height - h[i][osc]
        /\ UpsideDown(h[i][osc]) # NoRow <=> h[i][osc] # NoRow
    BY <1>2, LinesAre DEF UpsideDown, FoundRows, NoRow
  <1> QED BY <1>1, <1>2, <1>3 DEF HasLevels

\* As many recent values come close to the other line on the chart turned upside down.
LEMMA TouchCountTurns ==
    ASSUME NEW h \in Seq(ClearFrames), NEW osc \in Oscillators, NEW l \in Lines
    PROVE  TouchCount(Mirrored(h), osc, OtherLine(l)) = TouchCount(h, osc, l)
  <1> DEFINE r == Recent(h)
  <1>1. r \in Seq(ClearFrames) /\ Recent(Mirrored(h)) = Mirrored(r) /\ OtherLine(l) \in Lines
    BY RecentIs, LinesAre
  <1> HIDE DEF r
  <1>2. DOMAIN r = 1..Len(r) /\ DOMAIN Mirrored(r) = 1..Len(r)
    BY <1>1, MirroredIs
  <1>3. ASSUME NEW i \in 1..Len(r)
        PROVE  (HasLevels(Mirrored(r)[i], osc) /\ Touched(Mirrored(r)[i][osc], Levels[OtherLine(l)]))
               <=> (HasLevels(r[i], osc) /\ Touched(r[i][osc], Levels[l]))
    <2>1. /\ HasLevels(Mirrored(r)[i], osc) <=> HasLevels(r[i], osc)
          /\ HasLevels(r[i], osc) => r[i][osc] \in 0..Height /\ r[i][osc] # Levels[l]
                                     /\ Mirrored(r)[i][osc] = Height - r[i][osc]
      BY <1>1, <1>3, ValuesTurn
    <2> QED BY <2>1, RowsTurn
  <1>4. {i \in DOMAIN Mirrored(r) : HasLevels(Mirrored(r)[i], osc)
                                    /\ Touched(Mirrored(r)[i][osc], Levels[OtherLine(l)])}
        = {i \in DOMAIN r : HasLevels(r[i], osc) /\ Touched(r[i][osc], Levels[l])}
    BY <1>2, <1>3
  <1> QED BY <1>1, <1>4 DEF TouchCount, r

\* A nonempty set of natural numbers has a least one.
LEMMA LeastOf ==
    ASSUME NEW S \in SUBSET Nat, S # {}
    PROVE  \E i \in S : \A j \in S : i <= j
  <1> DEFINE R == OpToRel(<, Nat)
  <1>1. \E i \in S : \A j \in S : <<j, i>> \notin R
    <2>1. IsWellFoundedOn(R, Nat)
      BY NatLessThanWellFounded
    <2> HIDE DEF R
    <2> QED BY <2>1, WFMin
  <1>2. \A i, j \in Nat : <<j, i>> \notin R => i <= j
    BY DEF OpToRel
  <1> QED BY <1>1, <1>2

\* The first crossing of a line is that of the other line, the other way.
LEMMA FirstCrossTurns ==
    ASSUME NEW h \in Seq(ClearFrames), NEW osc \in Oscillators, NEW l \in Lines, NEW pos \in Nat,
           NEW d \in {"above", "below"}
    PROVE  /\ FirstCross(Mirrored(h), pos, osc, OtherLine(l), OtherWay(d)) = FirstCross(h, pos, osc, l, d)
           /\ FirstCross(h, pos, osc, l, d) \in Nat
  <1> DEFINE Cross(i) == /\ HasLevels(h[i - 1], osc) /\ HasLevels(h[i], osc)
                         /\ Crossed(h[i - 1][osc], Levels[l], h[i][osc]) = d
             CrossM(i) == /\ HasLevels(Mirrored(h)[i - 1], osc) /\ HasLevels(Mirrored(h)[i], osc)
                          /\ Crossed(Mirrored(h)[i - 1][osc], Levels[OtherLine(l)], Mirrored(h)[i][osc])
                             = OtherWay(d)
  <1>1. Len(Mirrored(h)) = Len(h) /\ Len(h) \in Nat
    BY MirroredIs
  <1>2. ASSUME pos # 0, NEW i \in (pos + 1)..Len(h)
        PROVE  CrossM(i) <=> Cross(i)
    <2>1. i \in 1..Len(h) /\ i - 1 \in 1..Len(h)
      BY <1>1, <1>2
    <2>2. /\ HasLevels(Mirrored(h)[i], osc) <=> HasLevels(h[i], osc)
          /\ HasLevels(h[i], osc) => h[i][osc] \in 0..Height /\ h[i][osc] # Levels[l]
                                     /\ Mirrored(h)[i][osc] = Height - h[i][osc]
      BY <2>1, ValuesTurn
    <2>3. /\ HasLevels(Mirrored(h)[i - 1], osc) <=> HasLevels(h[i - 1], osc)
          /\ HasLevels(h[i - 1], osc) => h[i - 1][osc] \in 0..Height /\ h[i - 1][osc] # Levels[l]
                                     /\ Mirrored(h)[i - 1][osc] = Height - h[i - 1][osc]
      BY <2>1, ValuesTurn
    <2>4. CASE HasLevels(h[i], osc) /\ HasLevels(h[i - 1], osc)
      <3>1. Crossed(Mirrored(h)[i - 1][osc], Levels[OtherLine(l)], Mirrored(h)[i][osc])
            = OtherWay(Crossed(h[i - 1][osc], Levels[l], h[i][osc]))
        BY <2>2, <2>3, <2>4, RowsTurn
      <3>2. \A c : OtherWay(c) = OtherWay(d) <=> c = d
        BY DEF OtherWay
      <3> QED BY <2>2, <2>3, <2>4, <3>1, <3>2
    <2> QED BY <2>2, <2>3, <2>4
  <1> DEFINE found == {i \in (pos + 1)..Len(h) : Cross(i)}
             foundM == {i \in (pos + 1)..Len(h) : CrossM(i)}
  <1>3. pos # 0 => found = foundM
    BY <1>2
  <1>4. /\ FirstCross(h, pos, osc, l, d)
           = IF pos = 0 \/ found = {} THEN 0 ELSE CHOOSE i \in found : \A j \in found : i <= j
        /\ FirstCross(Mirrored(h), pos, osc, OtherLine(l), OtherWay(d))
           = IF pos = 0 \/ foundM = {} THEN 0 ELSE CHOOSE i \in foundM : \A j \in foundM : i <= j
    BY <1>1 DEF FirstCross
  <1>5. found \subseteq Nat
    BY <1>1
  <1> HIDE DEF found, foundM
  <1>6. ASSUME found # {}
        PROVE (CHOOSE i \in found : \A j \in found : i <= j) \in Nat
    <2>1. \E i \in found : \A j \in found : i <= j
      BY <1>5, <1>6, LeastOf
    <2> QED BY <1>5, <2>1
  <1>7. FirstCross(Mirrored(h), pos, osc, OtherLine(l), OtherWay(d)) = FirstCross(h, pos, osc, l, d)
    <2> HIDE DEF Cross, CrossM
    <2>1. CASE pos = 0
      BY <1>4, <2>1
    <2>2. CASE pos # 0
      <3>1. found = foundM
        BY <1>3, <2>2
      <3> QED BY <1>4, <3>1
    <2> QED BY <2>1, <2>2
  <1> HIDE DEF Cross, CrossM
  <1>8. FirstCross(h, pos, osc, l, d) \in Nat
    BY <1>4, <1>6
  <1> QED BY <1>7, <1>8

\* Three lines crossed one after the other are so the other way round.
LEMMA SequentialCrossTurns ==
    ASSUME NEW h \in Seq(ClearFrames), NEW osc \in Oscillators, NEW d \in {"above", "below"},
           NEW l1 \in Lines, NEW l2 \in Lines, NEW l3 \in Lines
    PROVE  SequentialCross(Mirrored(h), osc, <<OtherLine(l1), OtherLine(l2), OtherLine(l3)>>, OtherWay(d))
           <=> SequentialCross(h, osc, <<l1, l2, l3>>, d)
  <1> DEFINE r == Recent(h)
             p1 == FirstCross(r, 1, osc, l1, d)
             p2 == FirstCross(r, p1, osc, l2, d)
             p3 == FirstCross(r, p2, osc, l3, d)
  <1>1. r \in Seq(ClearFrames) /\ Recent(Mirrored(h)) = Mirrored(r)
    BY RecentIs
  <1> HIDE DEF r
  <1>7. ASSUME NEW pos \in Nat, NEW l \in Lines
        PROVE  /\ FirstCross(Mirrored(r), pos, osc, OtherLine(l), OtherWay(d)) = FirstCross(r, pos, osc, l, d)
               /\ FirstCross(r, pos, osc, l, d) \in Nat
    BY <1>1, FirstCrossTurns
  <1>2. FirstCross(Mirrored(r), 1, osc, OtherLine(l1), OtherWay(d)) = p1 /\ p1 \in Nat
    BY <1>7
  <1> HIDE DEF p1
  <1>3. FirstCross(Mirrored(r), p1, osc, OtherLine(l2), OtherWay(d)) = p2 /\ p2 \in Nat
    BY <1>2, <1>7
  <1> HIDE DEF p2
  <1>4. FirstCross(Mirrored(r), p2, osc, OtherLine(l3), OtherWay(d)) = p3
    BY <1>3, <1>7
  <1> HIDE DEF p3
  <1>5. SequentialCross(h, osc, <<l1, l2, l3>>, d) <=> p3 # 0
    BY DEF SequentialCross, r, p1, p2, p3
  <1>6. SequentialCross(Mirrored(h), osc, <<OtherLine(l1), OtherLine(l2), OtherLine(l3)>>, OtherWay(d))
        <=> p3 # 0
    BY <1>1, <1>2, <1>3, <1>4 DEF SequentialCross
  <1> QED BY <1>5, <1>6

\* A line reached from one side is the other line reached from the other side.
LEMMA RecentlyReachedTurns ==
    ASSUME NEW h \in Seq(ClearFrames), NEW osc \in Oscillators, NEW l \in Lines, NEW from \in {"above", "below"}
    PROVE  RecentlyReached(Mirrored(h), osc, OtherLine(l), OtherWay(from))
           <=> RecentlyReached(h, osc, l, from)
  <1>1. Len(Mirrored(h)) = Len(h) /\ Len(h) \in Nat
    BY MirroredIs
  <1>2. CASE Len(h) < 2
    BY <1>1, <1>2 DEF RecentlyReached
  <1>3. CASE Len(h) >= 2
    <2> DEFINE c == Current(h)
               p == Previous(h)
               cm == Current(Mirrored(h))
               pm == Previous(Mirrored(h))
    <2>1. Len(h) \in 1..Len(h) /\ Len(h) - 1 \in 1..Len(h)
      BY <1>1, <1>3
    <2>2. /\ HasLevels(cm, osc) <=> HasLevels(c, osc)
          /\ HasLevels(c, osc) => c[osc] \in 0..Height /\ c[osc] # Levels[l] /\ cm[osc] = Height - c[osc]
      BY <1>1, <2>1, ValuesTurn DEF Current
    <2>3. /\ HasLevels(pm, osc) <=> HasLevels(p, osc)
          /\ HasLevels(p, osc) => p[osc] \in 0..Height /\ p[osc] # Levels[l] /\ pm[osc] = Height - p[osc]
      BY <1>1, <2>1, ValuesTurn DEF Previous
    <2> HIDE DEF c, p, cm, pm
    <2>4. CASE HasLevels(c, osc) /\ HasLevels(p, osc)
      <3>1. /\ Side(pm[osc], Levels[OtherLine(l)]) = OtherWay(Side(p[osc], Levels[l]))
            /\ Crossed(pm[osc], Levels[OtherLine(l)], cm[osc]) = OtherWay(Crossed(p[osc], Levels[l], c[osc]))
        BY <2>2, <2>3, <2>4, RowsTurn
      <3>2. Touched(cm[osc], Levels[OtherLine(l)]) <=> Touched(c[osc], Levels[l])
        BY <2>2, <2>4, RowsTurn
      <3>3. \A s : OtherWay(s) = OtherWay(from) <=> s = from
        BY DEF OtherWay
      <3>4. \A s : OtherWay(s) = "no" <=> s = "no"
        BY DEF OtherWay
      <3>5. RecentlyReached(h, osc, l, from)
            <=> /\ Side(p[osc], Levels[l]) = from
                /\ Touched(c[osc], Levels[l]) \/ Crossed(p[osc], Levels[l], c[osc]) # "no"
        BY <1>3, <2>4 DEF RecentlyReached, c, p
      <3>6. RecentlyReached(Mirrored(h), osc, OtherLine(l), OtherWay(from))
            <=> /\ Side(pm[osc], Levels[OtherLine(l)]) = OtherWay(from)
                /\ \/ Touched(cm[osc], Levels[OtherLine(l)])
                   \/ Crossed(pm[osc], Levels[OtherLine(l)], cm[osc]) # "no"
        <4>1. HasLevels(cm, osc) /\ HasLevels(pm, osc)
          BY <2>2, <2>3, <2>4
        <4> QED BY <1>1, <1>3, <4>1 DEF RecentlyReached, cm, pm
      <3> QED BY <3>1, <3>2, <3>3, <3>4, <3>5, <3>6
    <2>5. CASE ~(HasLevels(c, osc) /\ HasLevels(p, osc))
      <3>1. ~(HasLevels(cm, osc) /\ HasLevels(pm, osc))
        BY <2>2, <2>3, <2>5
      <3> QED BY <2>5, <3>1 DEF RecentlyReached, c, p, cm, pm
    <2> QED BY <2>4, <2>5
  <1> QED BY <1>1, <1>2, <1>3

\* A crossing that failed from one side is one that failed from the other.
LEMMA FailedCrossTurns ==
    ASSUME NEW h \in Seq(ClearFrames), NEW osc \in Oscillators, NEW l \in Lines, NEW from \in {"above", "below"}
    PROVE  FailedCross(Mirrored(h), osc, OtherLine(l), OtherWay(from)) <=> FailedCross(h, osc, l, from)
  <1> DEFINE r == Recent(h)
             m == Mirrored(r)
             o == Levels[OtherLine(l)]
             n == Levels[l]
             Fails(i) == /\ \A j \in (i - 1)..(i + 1) : HasLevels(r[j], osc)
                         /\ Side(r[i - 1][osc], n) = from /\ Touched(r[i][osc], n)
                         /\ Crossed(r[i - 1][osc], n, r[i][osc]) = "no" /\ Side(r[i + 1][osc], n) = from
             FailsM(i) == /\ \A j \in (i - 1)..(i + 1) : HasLevels(m[j], osc)
                          /\ Side(m[i - 1][osc], o) = OtherWay(from) /\ Touched(m[i][osc], o)
                          /\ Crossed(m[i - 1][osc], o, m[i][osc]) = "no"
                          /\ Side(m[i + 1][osc], o) = OtherWay(from)
  <1>1. r \in Seq(ClearFrames) /\ Recent(Mirrored(h)) = m
    BY RecentIs
  <1>2. Len(m) = Len(r) /\ Len(r) \in Nat
    BY <1>1, MirroredIs
  <1>3. FailedCross(h, osc, l, from) <=> \E i \in 2..(Len(r) - 1) : Fails(i)
    BY DEF FailedCross
  <1>4. FailedCross(Mirrored(h), osc, OtherLine(l), OtherWay(from)) <=> \E i \in 2..(Len(r) - 1) : FailsM(i)
    BY <1>1, <1>2 DEF FailedCross
  <1> HIDE DEF r
  <1>5. ASSUME NEW i \in 2..(Len(r) - 1)
        PROVE  FailsM(i) <=> Fails(i)
    <2>1. \A j \in (i - 1)..(i + 1) :
             /\ HasLevels(m[j], osc) <=> HasLevels(r[j], osc)
             /\ HasLevels(r[j], osc) => r[j][osc] \in 0..Height /\ r[j][osc] # n /\ m[j][osc] = Height - r[j][osc]
      <3> SUFFICES ASSUME NEW j \in (i - 1)..(i + 1)
                   PROVE  /\ HasLevels(m[j], osc) <=> HasLevels(r[j], osc)
                          /\ HasLevels(r[j], osc) => r[j][osc] \in 0..Height /\ r[j][osc] # n
                                                     /\ m[j][osc] = Height - r[j][osc]
        OBVIOUS
      <3>1. j \in 1..Len(r)
        BY <1>2, <1>5
      <3> QED BY <1>1, <3>1, ValuesTurn
    <2>2. i - 1 \in (i - 1)..(i + 1) /\ i \in (i - 1)..(i + 1) /\ i + 1 \in (i - 1)..(i + 1)
      BY <1>2
    <2> HIDE DEF m
    <2>3. CASE \A j \in (i - 1)..(i + 1) : HasLevels(r[j], osc)
      <3>1. \A j \in (i - 1)..(i + 1) : HasLevels(m[j], osc)
        BY <2>1, <2>3
      <3>2. \A j \in (i - 1)..(i + 1) : /\ Side(m[j][osc], o) = OtherWay(Side(r[j][osc], n))
                                        /\ Touched(m[j][osc], o) <=> Touched(r[j][osc], n)
        BY <2>1, <2>3, RowsTurn
      <3>3. Crossed(m[i - 1][osc], o, m[i][osc]) = OtherWay(Crossed(r[i - 1][osc], n, r[i][osc]))
        BY <2>1, <2>2, <2>3, RowsTurn
      <3>4. \A s : OtherWay(s) = OtherWay(from) <=> s = from
        BY DEF OtherWay
      <3>5. \A s : OtherWay(s) = "no" <=> s = "no"
        BY DEF OtherWay
      <3>6. /\ Side(m[i - 1][osc], o) = OtherWay(from) <=> Side(r[i - 1][osc], n) = from
            /\ Side(m[i + 1][osc], o) = OtherWay(from) <=> Side(r[i + 1][osc], n) = from
            /\ Touched(m[i][osc], o) <=> Touched(r[i][osc], n)
            /\ Crossed(m[i - 1][osc], o, m[i][osc]) = "no" <=> Crossed(r[i - 1][osc], n, r[i][osc]) = "no"
        BY <2>2, <3>2, <3>3, <3>4, <3>5
      <3> HIDE DEF o, n
      <3> QED BY <2>3, <3>1, <3>6
    <2>4. CASE ~ \A j \in (i - 1)..(i + 1) : HasLevels(r[j], osc)
      BY <2>1, <2>4
    <2> QED BY <2>3, <2>4
  <1> HIDE DEF Fails, FailsM
  <1> QED BY <1>3, <1>4, <1>5

\* Rows that were all found, turned upside down: peaks for troughs.
LEMMA FurtherTurns ==
    ASSUME NEW rows \in Seq(0..Height), NEW rowsM \in Seq(0..Height), Len(rowsM) = Len(rows),
           \A i \in 1..Len(rows) : rowsM[i] = Height - rows[i], NEW kind \in {"low", "high"}
    PROVE  Further(rowsM, OtherKind(kind)) <=> Further(rows, kind)
  <1>1. Height \in Nat /\ Len(rows) \in Nat
    BY LinesAre
  <1>2. \A i, j \in 1..Len(rows) : /\ rowsM[i] <= rowsM[j] <=> rows[i] >= rows[j]
                                   /\ rowsM[i] >= rowsM[j] <=> rows[i] <= rows[j]
                                   /\ rowsM[i] < rowsM[j] <=> rows[i] > rows[j]
                                   /\ rowsM[i] > rowsM[j] <=> rows[i] < rows[j]
    <2> SUFFICES ASSUME NEW i \in 1..Len(rows), NEW j \in 1..Len(rows)
                 PROVE  /\ rowsM[i] <= rowsM[j] <=> rows[i] >= rows[j]
                        /\ rowsM[i] >= rowsM[j] <=> rows[i] <= rows[j]
                        /\ rowsM[i] < rowsM[j] <=> rows[i] > rows[j]
                        /\ rowsM[i] > rowsM[j] <=> rows[i] < rows[j]
      OBVIOUS
    <2>1. rows[i] \in Int /\ rows[j] \in Int /\ rowsM[i] = Height - rows[i] /\ rowsM[j] = Height - rows[j]
      BY <1>1
    <2> DEFINE x == rows[i]
               y == rows[j]
               u == rowsM[i]
               v == rowsM[j]
    <2>2. x \in Int /\ y \in Int /\ u = Height - x /\ v = Height - y /\ Height \in Int
      BY <1>1, <2>1
    <2> HIDE DEF x, y, u, v
    <2>3. (u <= v <=> x >= y) /\ (u >= v <=> x <= y) /\ (u < v <=> x > y) /\ (u > v <=> x < y)
      BY <2>2
    <2> QED BY <2>3 DEF x, y, u, v
  <1>3. /\ kind = "low" => OtherKind(kind) = "high"
        /\ kind = "high" => OtherKind(kind) = "low"
    BY DEF OtherKind
  <1>4. Pivots(rowsM, OtherKind(kind)) = Pivots(rows, kind)
    <2>1. \A i \in 2..(Len(rows) - 1) : i \in 1..Len(rows) /\ i - 1 \in 1..Len(rows) /\ i + 1 \in 1..Len(rows)
      BY <1>1
    <2>2. ASSUME NEW i \in 2..(Len(rows) - 1)
          PROVE (IF OtherKind(kind) = "low" THEN rowsM[i] <= rowsM[i - 1] /\ rowsM[i] <= rowsM[i + 1]
                 ELSE rowsM[i] >= rowsM[i - 1] /\ rowsM[i] >= rowsM[i + 1])
                <=> (IF kind = "low" THEN rows[i] <= rows[i - 1] /\ rows[i] <= rows[i + 1]
                     ELSE rows[i] >= rows[i - 1] /\ rows[i] >= rows[i + 1])
      <3>1. CASE kind = "low"
        BY <1>2, <1>3, <2>1, <3>1, Zenon
      <3>2. CASE kind = "high"
        BY <1>2, <1>3, <2>1, <3>2, Zenon
      <3> QED BY <3>1, <3>2
    <2> QED BY <2>2 DEF Pivots
  <1>5. Pivots(rows, kind) \subseteq 1..Len(rows)
    <2>1. 2..(Len(rows) - 1) \subseteq 1..Len(rows)
      BY <1>1
    <2>2. Pivots(rows, kind) \subseteq 2..(Len(rows) - 1)
      BY Zenon DEF Pivots
    <2> QED BY <2>1, <2>2
  <1>6. ASSUME NEW a \in Pivots(rows, kind), NEW b \in Pivots(rows, kind)
        PROVE (IF OtherKind(kind) = "low" THEN rowsM[b] < rowsM[a] ELSE rowsM[b] > rowsM[a])
              <=> (IF kind = "low" THEN rows[b] < rows[a] ELSE rows[b] > rows[a])
    <2>1. a \in 1..Len(rows) /\ b \in 1..Len(rows)
      BY <1>5
    <2>2. CASE kind = "low"
      BY <1>2, <1>3, <2>1, <2>2, Zenon
    <2>3. CASE kind = "high"
      BY <1>2, <1>3, <2>1, <2>3, Zenon
    <2> QED BY <2>2, <2>3
  <1> DEFINE P == Pivots(rows, kind)
             More(a, b) == IF kind = "low" THEN rows[b] < rows[a] ELSE rows[b] > rows[a]
             MoreM(a, b) == IF OtherKind(kind) = "low" THEN rowsM[b] < rowsM[a] ELSE rowsM[b] > rowsM[a]
  <1>7. /\ Further(rows, kind)
           <=> \E b \in P : /\ \A i \in P : i <= b
                            /\ \E a \in P : a < b /\ (\A i \in P : i <= a \/ i = b) /\ More(a, b)
        /\ Further(rowsM, OtherKind(kind))
           <=> \E b \in P : /\ \A i \in P : i <= b
                            /\ \E a \in P : a < b /\ (\A i \in P : i <= a \/ i = b) /\ MoreM(a, b)
    BY <1>4 DEF Further
  <1>8. \A a, b \in P : MoreM(a, b) <=> More(a, b)
    BY <1>6
  <1> HIDE DEF P, More, MoreM
  <1> QED BY <1>7, <1>8, Zenon

\* As many values were found.
LEMMA AllFoundTurns ==
    ASSUME NEW h \in Seq(ClearFrames)
    PROVE  AllFound(Mirrored(h)) <=> AllFound(h)
  <1> DEFINE r == Recent(h)
  <1>1. r \in Seq(ClearFrames) /\ Recent(Mirrored(h)) = Mirrored(r)
    BY RecentIs
  <1> HIDE DEF r
  <1>2. Len(Mirrored(r)) = Len(r) /\ DOMAIN r = 1..Len(r) /\ DOMAIN Mirrored(r) = 1..Len(r)
    BY <1>1, MirroredIs
  <1>3. ASSUME NEW i \in 1..Len(r)
        PROVE  /\ Mirrored(r)[i].rsi # NoRow <=> r[i].rsi # NoRow
               /\ Mirrored(r)[i].ma # NoRow <=> r[i].ma # NoRow
    <2>1. \A osc \in Oscillators : Mirrored(r)[i][osc] # NoRow <=> r[i][osc] # NoRow
      BY <1>1, <1>3, ValuesTurn
    <2> QED BY <2>1 DEF Oscillators
  <1>4. AllFound(h) <=> \A i \in 1..Len(r) : r[i].rsi # NoRow /\ r[i].ma # NoRow
    BY <1>2 DEF AllFound, r
  <1>5. AllFound(Mirrored(h)) <=> \A i \in 1..Len(r) : Mirrored(r)[i].rsi # NoRow /\ Mirrored(r)[i].ma # NoRow
    BY <1>1, <1>2 DEF AllFound
  <1> QED BY <1>3, <1>4, <1>5

\* A function on the first numbers is a sequence.
LEMMA RowsAreASeq ==
    ASSUME NEW S, NEW n \in Nat, NEW f \in [1..n -> S]
    PROVE  f \in Seq(S) /\ Len(f) = n
  OBVIOUS

\* The oscillators trend the other way.
LEMMA TrendTurns ==
    ASSUME NEW h \in Seq(ClearFrames), AllFound(h), NEW osc \in Oscillators, NEW kind \in {"low", "high"}
    PROVE  Further(RowsOf(Mirrored(h), osc), OtherKind(kind)) <=> Further(RowsOf(h, osc), kind)
  <1> DEFINE r == Recent(h)
             rows == RowsOf(h, osc)
             rowsM == RowsOf(Mirrored(h), osc)
  <1>1. r \in Seq(ClearFrames) /\ Recent(Mirrored(h)) = Mirrored(r)
    BY RecentIs
  <1>2. rows = [i \in DOMAIN r |-> r[i][osc]] /\ rowsM = [i \in DOMAIN Mirrored(r) |-> Mirrored(r)[i][osc]]
    BY <1>1 DEF RowsOf
  <1>3. \A i \in DOMAIN r : r[i].rsi # NoRow /\ r[i].ma # NoRow
    BY DEF AllFound
  <1> HIDE DEF r, rows, rowsM
  <1>4. Len(r) \in Nat /\ DOMAIN r = 1..Len(r) /\ DOMAIN Mirrored(r) = 1..Len(r)
    BY <1>1, MirroredIs
  <1>5. ASSUME NEW i \in 1..Len(r)
        PROVE  r[i][osc] \in 0..Height /\ Mirrored(r)[i][osc] = Height - r[i][osc]
               /\ Height - r[i][osc] \in 0..Height
    <2>1. r[i][osc] # NoRow
      BY <1>3, <1>4 DEF Oscillators
    <2>2. r[i][osc] \in 0..Height /\ Mirrored(r)[i][osc] = Height - r[i][osc]
      BY <1>1, <1>5, <2>1, ValuesTurn
    <2> QED BY <2>2, LinesAre
  <1>6. rows \in [1..Len(r) -> 0..Height] /\ rowsM \in [1..Len(r) -> 0..Height]
    BY <1>2, <1>4, <1>5
  <1>7. rows \in Seq(0..Height) /\ rowsM \in Seq(0..Height) /\ Len(rows) = Len(r) /\ Len(rowsM) = Len(r)
    BY <1>4, <1>6, RowsAreASeq, Zenon
  <1>8. \A i \in 1..Len(rows) : rowsM[i] = Height - rows[i]
    BY <1>2, <1>4, <1>5, <1>7
  <1>9. Further(rowsM, OtherKind(kind)) <=> Further(rows, kind)
    BY <1>7, <1>8, FurtherTurns
  <1> QED BY <1>9 DEF rows, rowsM

\* Turned twice, a chart is as it was.
LEMMA TurnedTwice ==
    ASSUME NEW h \in Seq(ClearFrames)
    PROVE  Mirrored(Mirrored(h)) = h
  <1> DEFINE m == Mirrored(h)
             t == Mirrored(m)
  <1>1. /\ m \in Seq(ClearFrames) /\ t \in Seq(ClearFrames)
        /\ Len(m) = Len(h) /\ Len(t) = Len(h) /\ Len(h) \in Nat
    BY MirroredIs
  <1>2. ASSUME NEW i \in 1..Len(h)
        PROVE  t[i] = h[i]
    <2>1. h[i] \in ChartFrames /\ t[i] \in ChartFrames
      BY <1>1, <1>2 DEF ClearFrames
    <2>2. /\ \A osc \in Oscillators : m[i][osc] = UpsideDown(h[i][osc])
          /\ m[i].up = Height - h[i].low /\ m[i].low = Height - h[i].up
          /\ m[i].band = h[i].band /\ m[i].price = h[i].price
      BY <1>2, MirroredIs
    <2>3. /\ \A osc \in Oscillators : t[i][osc] = UpsideDown(m[i][osc])
          /\ t[i].up = Height - m[i].low /\ t[i].low = Height - m[i].up
          /\ t[i].band = m[i].band /\ t[i].price = m[i].price
      BY <1>1, <1>2, MirroredIs
    <2>4. /\ \A osc \in Oscillators : h[i][osc] \in FoundRows
          /\ h[i].up \in 0..Height /\ h[i].low \in 0..Height
      BY FramesAre
    <2>5. \A r \in FoundRows : UpsideDown(UpsideDown(r)) = r
      BY LinesAre DEF UpsideDown, FoundRows, NoRow
    <2>6. \A r \in 0..Height : Height - (Height - r) = r
      BY LinesAre
    <2> HIDE DEF m, t
    <2>7. t[i].rsi = h[i].rsi /\ t[i].ma = h[i].ma
      BY <2>2, <2>3, <2>4, <2>5 DEF Oscillators
    <2>8. /\ t[i].up = h[i].up /\ t[i].low = h[i].low
          /\ t[i].band = h[i].band /\ t[i].price = h[i].price
      BY <2>2, <2>3, <2>4, <2>6
    <2> QED BY <2>1, <2>7, <2>8 DEF ChartFrames
  <1> HIDE DEF t
  <1>3. t = [i \in 1..Len(h) |-> t[i]] /\ h = [i \in 1..Len(h) |-> h[i]]
    BY <1>1
  <1>4. t = h
    BY <1>2, <1>3
  <1> QED BY <1>4 DEF t

\* The last two frames, on the chart and turned upside down.
LEMMA LastFramesTurn ==
    ASSUME NEW h \in Seq(ClearFrames), Len(h) >= 2, NEW f \in {"now", "before"}
    PROVE  LET u == IF f = "now" THEN Current(h) ELSE Previous(h)
               m == IF f = "now" THEN Current(Mirrored(h)) ELSE Previous(Mirrored(h))
           IN  /\ u.up \in 0..Height /\ u.low \in 0..Height
               /\ m.up = Height - u.low /\ m.low = Height - u.up
               /\ (m.band <=> u.band) /\ (m.price <=> u.price)
               /\ \A osc \in Oscillators :
                     /\ m[osc] # NoRow <=> u[osc] # NoRow
                     /\ u[osc] # NoRow => u[osc] \in 0..Height /\ m[osc] = Height - u[osc]
                                          /\ \A l \in Lines : u[osc] # Levels[l]
               /\ \A l \in Lines : u.up # Levels[l] /\ u.low # Levels[l]
  <1> DEFINE i == IF f = "now" THEN Len(h) ELSE Len(h) - 1
             u == IF f = "now" THEN Current(h) ELSE Previous(h)
             m == IF f = "now" THEN Current(Mirrored(h)) ELSE Previous(Mirrored(h))
  <1>1. i \in 1..Len(h) /\ Len(Mirrored(h)) = Len(h)
    BY MirroredIs
  <1>2. u = h[i] /\ m = Mirrored(h)[i]
    BY <1>1 DEF Current, Previous
  <1> HIDE DEF i, u, m
  <1>3. /\ u.up \in 0..Height /\ u.low \in 0..Height
        /\ \A l \in Lines : u.up # Levels[l] /\ u.low # Levels[l]
    BY <1>1, <1>2, FramesAre
  <1>4. /\ m.up = Height - u.low /\ m.low = Height - u.up
        /\ m.band = u.band /\ m.price = u.price
    BY <1>1, <1>2, MirroredIs
  <1>5. \A osc \in Oscillators :
           /\ m[osc] # NoRow <=> u[osc] # NoRow
           /\ u[osc] # NoRow => u[osc] \in 0..Height /\ m[osc] = Height - u[osc]
                                /\ \A l \in Lines : u[osc] # Levels[l]
    BY <1>1, <1>2, ValuesTurn
  <1> QED BY <1>3, <1>4, <1>5 DEF u, m

\* The frames looked at end with the current one.
LEMMA CurrentIsRecent ==
    ASSUME NEW h \in Seq(ClearFrames), Len(h) >= 2, AllFound(h)
    PROVE  Current(h).rsi # NoRow /\ Current(h).ma # NoRow
  <1>1. Lookback \in Nat /\ Lookback > 0 /\ Len(h) \in Nat
    BY LinesAre
  <1>2. CASE Len(h) > Lookback
    <2> DEFINE k == Len(h) - Lookback
    <2>1. Recent(h) = [i \in 1..Lookback |-> h[i + k]]
      BY <1>1, <1>2 DEF Recent
    <2>2. Lookback \in DOMAIN Recent(h) /\ Recent(h)[Lookback] = h[Len(h)]
      BY <1>1, <2>1
    <2> QED BY <2>2 DEF AllFound, Current
  <1>3. CASE ~(Len(h) > Lookback)
    <2>1. Recent(h) = h /\ Len(h) \in DOMAIN h
      BY <1>1, <1>3 DEF Recent
    <2> QED BY <2>1 DEF AllFound, Current
  <1> QED BY <1>2, <1>3

\* The names of lines and directions.
LEMMA NamesTurn ==
    /\ OtherLine("U") = "L" /\ OtherLine("L") = "U" /\ OtherLine("M") = "M"
    /\ OtherWay("above") = "below" /\ OtherWay("below") = "above" /\ OtherWay("no") = "no"
    /\ OtherKind("low") = "high"
    /\ "U" \in Lines /\ "M" \in Lines /\ "L" \in Lines
    /\ "rsi" \in Oscillators /\ "ma" \in Oscillators
  BY DEF OtherLine, OtherWay, OtherKind, Lines, Oscillators

\* A row against the lines, on the chart and turned upside down.
LEMMA SidesTurn ==
    ASSUME NEW r \in 0..Height, \A l \in Lines : r # Levels[l]
    PROVE  /\ Height - r > Levels["U"] <=> r < Levels["L"]
           /\ Height - r < Levels["L"] <=> r > Levels["U"]
           /\ Height - r > Levels["L"] <=> r < Levels["U"]
           /\ Height - r < Levels["U"] <=> r > Levels["L"]
           /\ Height - r > Levels["M"] <=> r < Levels["M"]
           /\ Height - r < Levels["M"] <=> r > Levels["M"]
  <1>1. \A l \in Lines : /\ Height - r > Levels[OtherLine(l)] <=> r < Levels[l]
                         /\ Height - r < Levels[OtherLine(l)] <=> r > Levels[l]
    BY RowsTurn
  <1> QED BY <1>1, NamesTurn

\* The middle line is crossed the other way.
LEMMA CrossingsTurn ==
    ASSUME NEW r \in 0..Height, NEW q \in 0..Height, \A l \in Lines : r # Levels[l] /\ q # Levels[l]
    PROVE  /\ Crossed(Height - r, Levels["M"], Height - q) = "below" <=> Crossed(r, Levels["M"], q) = "above"
           /\ Crossed(Height - r, Levels["M"], Height - q) = "above" <=> Crossed(r, Levels["M"], q) = "below"
  <1>1. Crossed(Height - r, Levels["M"], Height - q) = OtherWay(Crossed(r, Levels["M"], q))
    BY RowsTurn, NamesTurn
  <1>2. \A s : (OtherWay(s) = "below" <=> s = "above") /\ (OtherWay(s) = "above" <=> s = "below")
    BY DEF OtherWay
  <1> QED BY <1>1, <1>2

\* Each rule sells upside down when it buys.
LEMMA RuleATurns ==
    ASSUME NEW h \in Seq(ClearFrames), Len(h) >= 2
    PROVE  RuleASell(Mirrored(h)) <=> RuleABuy(h)
  <1> DEFINE m == Mirrored(h)
  <1>1. AllFound(m) <=> AllFound(h)
    BY AllFoundTurns
  <1>2. CASE AllFound(h)
    <2>1. Current(h).rsi # NoRow /\ Current(h).ma # NoRow
      BY <1>2, CurrentIsRecent
    <2>2. \A osc \in Oscillators : Current(h)[osc] # NoRow
             => Current(h)[osc] \in 0..Height /\ Current(m)[osc] = Height - Current(h)[osc]
                /\ \A l \in Lines : Current(h)[osc] # Levels[l]
      BY LastFramesTurn
    <2>3. /\ Current(h).rsi \in 0..Height /\ Current(m).rsi = Height - Current(h).rsi
          /\ Current(h).ma \in 0..Height /\ Current(m).ma = Height - Current(h).ma
          /\ \A l \in Lines : Current(h).rsi # Levels[l] /\ Current(h).ma # Levels[l]
      BY <2>1, <2>2 DEF Oscillators
    <2>4. /\ Current(m).rsi > Levels["U"] <=> Current(h).rsi < Levels["L"]
          /\ Current(m).ma < Levels["M"] <=> Current(h).ma > Levels["M"]
      BY <2>3, SidesTurn
    <2>5. /\ Further(RowsOf(m, "rsi"), "high") <=> Further(RowsOf(h, "rsi"), "low")
          /\ Further(RowsOf(m, "ma"), "high") <=> Further(RowsOf(h, "ma"), "low")
      BY <1>2, TrendTurns, NamesTurn
    <2>6. SequentialCross(m, "rsi", <<"U", "M", "L">>, "below")
          <=> SequentialCross(h, "rsi", <<"L", "M", "U">>, "above")
      <3>1. SequentialCross(m, "rsi", <<OtherLine("L"), OtherLine("M"), OtherLine("U")>>, OtherWay("above"))
            <=> SequentialCross(h, "rsi", <<"L", "M", "U">>, "above")
        BY SequentialCrossTurns, NamesTurn
      <3> QED BY <3>1, NamesTurn
    <2>7. RecentlyReached(m, "rsi", "M", "below") <=> RecentlyReached(h, "rsi", "M", "above")
      <3>1. RecentlyReached(m, "rsi", OtherLine("M"), OtherWay("above")) <=> RecentlyReached(h, "rsi", "M", "above")
        BY RecentlyReachedTurns, NamesTurn
      <3> QED BY <3>1, NamesTurn
    <2> HIDE DEF m
    <2> QED BY <1>1, <2>4, <2>5, <2>6, <2>7 DEF RuleABuy, RuleASell, m
  <1>3. CASE ~AllFound(h)
    BY <1>1, <1>3 DEF RuleABuy, RuleASell
  <1> QED BY <1>2, <1>3

LEMMA RuleBTurns ==
    ASSUME NEW h \in Seq(ClearFrames)
    PROVE  RuleB(Mirrored(h), "SELL") <=> RuleB(h, "BUY")
  <1>1. /\ TouchCount(Mirrored(h), "rsi", OtherLine("M")) = TouchCount(h, "rsi", "M")
        /\ TouchCount(Mirrored(h), "rsi", OtherLine("L")) = TouchCount(h, "rsi", "L")
    BY TouchCountTurns, NamesTurn
  <1>2. RecentlyReached(Mirrored(h), "ma", OtherLine("M"), OtherWay("above"))
        <=> RecentlyReached(h, "ma", "M", "above")
    BY RecentlyReachedTurns, NamesTurn
  <1> QED BY <1>1, <1>2, NamesTurn DEF RuleB

LEMMA RuleCTurns ==
    ASSUME NEW h \in Seq(ClearFrames), Len(h) >= 2
    PROVE  RuleC(Mirrored(h), "SELL") <=> RuleC(h, "BUY")
  <1> DEFINE m == Mirrored(h)
  <1>1. TouchCount(m, "rsi", OtherLine("L")) = TouchCount(h, "rsi", "L")
    BY TouchCountTurns, NamesTurn
  <1>2. /\ FailedCross(m, "rsi", OtherLine("M"), OtherWay("below")) <=> FailedCross(h, "rsi", "M", "below")
        /\ FailedCross(m, "ma", OtherLine("M"), OtherWay("below")) <=> FailedCross(h, "ma", "M", "below")
    BY FailedCrossTurns, NamesTurn
  <1>3. \A osc \in Oscillators :
           /\ Current(m)[osc] # NoRow <=> Current(h)[osc] # NoRow
           /\ Current(h)[osc] # NoRow => Current(h)[osc] \in 0..Height /\ Current(m)[osc] = Height - Current(h)[osc]
                                         /\ \A l \in Lines : Current(h)[osc] # Levels[l]
    BY LastFramesTurn
  <1>4. Current(m).rsi # NoRow <=> Current(h).rsi # NoRow
    BY <1>3 DEF Oscillators
  <1>5. Current(h).rsi # NoRow => (Current(m).rsi > Levels["U"] <=> Current(h).rsi < Levels["L"])
    BY <1>3, SidesTurn DEF Oscillators
  <1> HIDE DEF m
  <1>6. /\ FailedCross(m, "rsi", "M", "above") <=> FailedCross(h, "rsi", "M", "below")
        /\ FailedCross(m, "ma", "M", "above") <=> FailedCross(h, "ma", "M", "below")
        /\ TouchCount(m, "rsi", "U") = TouchCount(h, "rsi", "L")
    BY <1>1, <1>2, NamesTurn
  <1>7. RuleC(h, "BUY") <=> /\ Current(h).rsi # NoRow /\ Current(h).rsi < Levels["L"]
                            /\ FailedCross(h, "rsi", "M", "below") /\ FailedCross(h, "ma", "M", "below")
                            /\ TouchCount(h, "rsi", "L") >= 2
    BY DEF RuleC
  <1>8. RuleC(m, "SELL") <=> /\ Current(m).rsi # NoRow /\ Current(m).rsi > Levels["U"]
                             /\ FailedCross(m, "rsi", "M", "above") /\ FailedCross(m, "ma", "M", "above")
                             /\ TouchCount(m, "rsi", "U") >= 2
    BY DEF RuleC
  <1> QED BY <1>4, <1>5, <1>6, <1>7, <1>8 DEF m

LEMMA RuleFTurns ==
    ASSUME NEW h \in Seq(ClearFrames), Len(h) >= 2, ~Raises(h)
    PROVE  RuleFSell(Mirrored(h)) <=> RuleFBuy(h)
  <1> DEFINE c == Current(h)
             p == Previous(h)
             cm == Current(Mirrored(h))
             pm == Previous(Mirrored(h))
  <1>1. /\ c.up \in 0..Height /\ cm.low = Height - c.up /\ \A l \in Lines : c.up # Levels[l]
        /\ \A osc \in Oscillators : c[osc] # NoRow => c[osc] \in 0..Height /\ cm[osc] = Height - c[osc]
                                                /\ \A l \in Lines : c[osc] # Levels[l]
    BY LastFramesTurn
  <1>2. /\ p.up \in 0..Height /\ pm.low = Height - p.up /\ \A l \in Lines : p.up # Levels[l]
        /\ (pm.price <=> p.price)
        /\ \A osc \in Oscillators : p[osc] # NoRow => p[osc] \in 0..Height /\ pm[osc] = Height - p[osc]
                                                /\ \A l \in Lines : p[osc] # Levels[l]
    BY LastFramesTurn
  <1>3. CASE ~p.price
    BY <1>2, <1>3 DEF RuleFBuy, RuleFSell
  <1>4. CASE p.price
    <2>1. c.rsi # NoRow /\ p.rsi # NoRow
      BY <1>4 DEF Raises
    <2> HIDE DEF c, p, cm, pm
    <2>2. /\ c.rsi \in 0..Height /\ cm.rsi = Height - c.rsi /\ \A l \in Lines : c.rsi # Levels[l]
          /\ p.rsi \in 0..Height /\ pm.rsi = Height - p.rsi /\ \A l \in Lines : p.rsi # Levels[l]
      BY <1>1, <1>2, <2>1 DEF Oscillators
    <2>3. (cm.low > Levels["L"] <=> c.up < Levels["U"]) /\ (cm.low > Levels["M"] <=> c.up < Levels["M"])
      BY <1>1, SidesTurn
    <2>4. cm.rsi > Levels["U"] <=> c.rsi < Levels["L"]
      BY <2>2, SidesTurn
    <2>5. Crossed(pm.low, Levels["M"], cm.low) = "below" <=> Crossed(p.up, Levels["M"], c.up) = "above"
      BY <1>1, <1>2, CrossingsTurn
    <2>6. Crossed(pm.rsi, Levels["M"], cm.rsi) = "above" <=> Crossed(p.rsi, Levels["M"], c.rsi) = "below"
      BY <2>2, CrossingsTurn
    <2>7. RuleFBuy(h) <=> /\ p.price
                          /\ c.up < Levels["U"] /\ c.up < Levels["M"]
                          /\ Crossed(p.up, Levels["M"], c.up) = "above"
                          /\ Crossed(p.rsi, Levels["M"], c.rsi) = "below" \/ c.rsi < Levels["L"]
      BY DEF RuleFBuy, c, p
    <2>8. RuleFSell(Mirrored(h)) <=>
              /\ pm.price
              /\ cm.low > Levels["L"] /\ cm.low > Levels["M"]
              /\ Crossed(pm.low, Levels["M"], cm.low) = "below"
              /\ Crossed(pm.rsi, Levels["M"], cm.rsi) = "above" \/ cm.rsi > Levels["U"]
      BY DEF RuleFSell, cm, pm
    <2> QED BY <1>2, <2>3, <2>4, <2>5, <2>6, <2>7, <2>8
  <1> QED BY <1>3, <1>4

\* What the rules ask of the bands, and whether judging the frames raises.
LEMMA BandsTurn ==
    ASSUME NEW h \in Seq(ClearFrames), Len(h) >= 2
    PROVE  /\ Contraction(Current(Mirrored(h))) <=> Contraction(Current(h))
           /\ Expansion(Current(Mirrored(h))) <=> Expansion(Current(h))
           /\ Expands(Mirrored(h), "SELL") <=> Expands(h, "BUY")
           /\ Raises(Mirrored(h)) <=> Raises(h)
           /\ Detected(Current(Mirrored(h))) <=> Detected(Current(h))
  <1> DEFINE c == Current(h)
             cm == Current(Mirrored(h))
  <1>1. /\ c.up \in 0..Height /\ c.low \in 0..Height /\ cm.low = Height - c.up /\ cm.up = Height - c.low
        /\ (cm.band <=> c.band) /\ (cm.price <=> c.price)
        /\ \A l \in Lines : c.up # Levels[l] /\ c.low # Levels[l]
        /\ \A osc \in Oscillators : (cm[osc] # NoRow <=> c[osc] # NoRow)
                              /\ (c[osc] # NoRow => c[osc] \in 0..Height /\ cm[osc] = Height - c[osc]
                                                    /\ \A l \in Lines : c[osc] # Levels[l])
    BY LastFramesTurn
  <1>2. /\ Previous(Mirrored(h)).band <=> Previous(h).band
        /\ Previous(Mirrored(h)).price <=> Previous(h).price
        /\ \A osc \in Oscillators : Previous(Mirrored(h))[osc] # NoRow <=> Previous(h)[osc] # NoRow
    BY LastFramesTurn
  <1> HIDE DEF c, cm
  <1>3. /\ cm.up < Levels["U"] <=> c.low > Levels["L"]
        /\ cm.low > Levels["L"] <=> c.up < Levels["U"]
        /\ cm.up > Levels["U"] <=> c.low < Levels["L"]
        /\ cm.low < Levels["L"] <=> c.up > Levels["U"]
    BY <1>1, SidesTurn
  <1>4. \A osc \in Oscillators : (cm[osc] # NoRow /\ cm[osc] > Levels["U"]) <=> (c[osc] # NoRow /\ c[osc] < Levels["L"])
    BY <1>1, SidesTurn
  <1>5. Contraction(cm) <=> Contraction(c)
    BY <1>3 DEF Contraction
  <1>6. Expansion(cm) <=> Expansion(c)
    BY <1>3 DEF Expansion
  <1>7. Expands(Mirrored(h), "SELL") <=> Expands(h, "BUY")
    BY <1>4 DEF Expands, c, cm, Oscillators
  <1>8. Raises(Mirrored(h)) <=> Raises(h)
    BY <1>1, <1>2 DEF Raises, c, cm, Oscillators
  <1>9. Detected(cm) <=> Detected(c)
    BY <1>1 DEF Detected
  <1> QED BY <1>5, <1>6, <1>7, <1>8, <1>9 DEF c, cm

Rules == {"RULE_A", "RULE_B", "RULE_C", "RULE_F", "EXPANSION"}

\* The rules have an order.
LEMMA RuleNamesAre ==
    DOMAIN RuleNames = 1..5 /\ \A i \in 1..5 : RuleNames[i] \in Rules
  BY DEF RuleNames, Rules

\* Whichever rule it is, it sells upside down if it buys, and buys if it sells.
LEMMA SellFiresTurns ==
    ASSUME NEW h \in Seq(ClearFrames), Len(h) >= 2, ~Raises(h), NEW rule \in Rules
    PROVE  Fires(Mirrored(h), rule, "SELL") <=> Fires(h, rule, "BUY")
  <1>1. CASE rule = "RULE_A"
    BY <1>1, BandsTurn, RuleATurns DEF Fires
  <1>2. CASE rule = "RULE_B"
    BY <1>2, BandsTurn, RuleBTurns DEF Fires
  <1>3. CASE rule = "RULE_C"
    BY <1>3, BandsTurn, RuleCTurns DEF Fires
  <1>4. CASE rule = "RULE_F"
    BY <1>4, RuleFTurns DEF Fires
  <1>5. CASE rule = "EXPANSION"
    BY <1>5, BandsTurn DEF Fires
  <1> QED BY <1>1, <1>2, <1>3, <1>4, <1>5 DEF Rules

LEMMA BuyFiresTurns ==
    ASSUME NEW h \in Seq(ClearFrames), Len(h) >= 2, ~Raises(h), NEW rule \in Rules
    PROVE  Fires(Mirrored(h), rule, "BUY") <=> Fires(h, rule, "SELL")
  <1> DEFINE m == Mirrored(h)
  <1>1. m \in Seq(ClearFrames) /\ Len(m) >= 2 /\ ~Raises(m) /\ Mirrored(m) = h
    BY MirroredIs, BandsTurn, TurnedTwice
  <1> HIDE DEF m
  <1>2. Fires(Mirrored(m), rule, "SELL") <=> Fires(m, rule, "BUY")
    BY <1>1, SellFiresTurns
  <1> QED BY <1>1, <1>2 DEF m

\* The first rule of those that hold is determined by which of them hold.
LEMMA FirstIsSame ==
    ASSUME NEW h, NEW m, NEW side, NEW other, AnyFires(h, side),
           \A rule \in Rules : Fires(m, rule, other) <=> Fires(h, rule, side)
    PROVE  FirstOf(m, other) = FirstOf(h, side)
  <1> DEFINE First(g, s, i) == Fires(g, RuleNames[i], s) /\ \A j \in 1..(i - 1) : ~Fires(g, RuleNames[j], s)
  <1>1. \E i \in 1..5 : First(h, side, i)
    <2> DEFINE S == {i \in 1..5 : Fires(h, RuleNames[i], side)}
    <2>1. S \in SUBSET Nat /\ S # {}
      BY RuleNamesAre DEF AnyFires
    <2>2. PICK n \in S : \A j \in S : n <= j
      <3> HIDE DEF S
      <3> QED BY <2>1, LeastOf
    <2>3. \A j \in 1..(n - 1) : j \in 1..5 /\ ~(n <= j)
      BY <2>1
    <2>4. \A j \in 1..(n - 1) : ~Fires(h, RuleNames[j], side)
      BY <2>2, <2>3
    <2> QED BY <2>2, <2>4
  <1>2. ASSUME NEW i \in 1..5
        PROVE  First(m, other, i) <=> First(h, side, i)
    <2>1. \A j \in 1..(i - 1) : j \in 1..5
      OBVIOUS
    <2> QED BY <2>1, RuleNamesAre
  <1>3. ASSUME NEW i \in 1..5, NEW j \in 1..5, First(h, side, i), First(h, side, j)
        PROVE  i = j
    <2>1. i \notin 1..(j - 1) /\ j \notin 1..(i - 1)
      BY <1>3
    <2> QED BY <2>1
  <1>4. /\ FirstOf(h, side) = CHOOSE i \in 1..5 : First(h, side, i)
        /\ FirstOf(m, other) = CHOOSE i \in 1..5 : First(m, other, i)
    BY RuleNamesAre DEF FirstOf
  <1> HIDE DEF First
  <1>5. PICK k \in 1..5 : First(h, side, k)
    BY <1>1
  <1>6. FirstOf(h, side) = k
    BY <1>3, <1>4, <1>5
  <1>7. FirstOf(m, other) = k
    BY <1>2, <1>3, <1>4, <1>5
  <1> QED BY <1>6, <1>7

\* What is decided once there are two frames to judge.
LEMMA DecisionIs ==
    ASSUME NEW g \in Seq(ClearFrames), Len(g) > 1
    PROVE  Detected(Current(g)) /\ ~Raises(g) =>
             /\ AnyFires(g, "BUY") /\ AnyFires(g, "SELL") => Decision(g) = <<"HOLD", "conflicting_v3_rules">>
             /\ AnyFires(g, "BUY") /\ ~AnyFires(g, "SELL") => Decision(g) = <<"BUY", RuleNames[FirstOf(g, "BUY")]>>
             /\ ~AnyFires(g, "BUY") /\ AnyFires(g, "SELL") => Decision(g) = <<"SELL", RuleNames[FirstOf(g, "SELL")]>>
             /\ ~AnyFires(g, "BUY") /\ ~AnyFires(g, "SELL") => Decision(g) = <<"HOLD", "no_rule_matched">>
  <1>1. Len(g) # 0 /\ Len(g) # 1
    <2> DEFINE n == Len(g)
    <2>1. n \in Nat /\ n > 1
      OBVIOUS
    <2> HIDE DEF n
    <2>2. n # 0 /\ n # 1
      BY <2>1
    <2> QED BY <2>2, Zenon DEF n
  <1> QED BY <1>1, Zenon DEF Decision

\* The decision is the opposite one by the same rule.
LEMMA DecisionTurns ==
    ASSUME NEW h \in Seq(ClearFrames)
    PROVE  Decision(Mirrored(h)) = <<Opposite(Decision(h)[1]), Decision(h)[2]>>
  <1> DEFINE m == Mirrored(h)
  <1>1. m \in Seq(ClearFrames) /\ Len(m) = Len(h) /\ Len(h) \in Nat
    BY MirroredIs
  <1>2. CASE Len(h) = 0
    BY <1>1, <1>2 DEF Decision, Opposite
  <1>3. ASSUME Len(h) > 0
        PROVE  Detected(Current(m)) <=> Detected(Current(h))
    <2>1. Len(h) \in 1..Len(h)
      BY <1>1, <1>3
    <2> QED BY <1>1, <2>1, MirroredIs DEF Current, Detected
  <1>4. CASE Len(h) > 0 /\ ~Detected(Current(h))
    <2> HIDE DEF m
    <2>1. Decision(h) = <<"HOLD", "indicators_not_detected">>
      BY <1>1, <1>4 DEF Decision
    <2>2. Decision(m) = <<"HOLD", "indicators_not_detected">>
      BY <1>1, <1>3, <1>4 DEF Decision
    <2> QED BY <2>1, <2>2 DEF Opposite, m
  <1>5. CASE Len(h) = 1 /\ Detected(Current(h))
    <2> HIDE DEF m
    <2>1. Decision(h) = <<"HOLD", "warming_up">>
      BY <1>1, <1>5 DEF Decision
    <2>2. Decision(m) = <<"HOLD", "warming_up">>
      BY <1>1, <1>3, <1>5 DEF Decision
    <2> QED BY <2>1, <2>2 DEF Opposite, m
  <1>6. CASE Len(h) > 1 /\ Detected(Current(h)) /\ Raises(h)
    <2>1. Raises(m) /\ Detected(Current(m))
      BY <1>1, <1>6, BandsTurn
    <2> HIDE DEF m
    <2>2. Decision(h) = <<"raised", "none">>
      BY <1>1, <1>6 DEF Decision
    <2>3. Decision(m) = <<"raised", "none">>
      BY <1>1, <1>6, <2>1 DEF Decision
    <2> QED BY <2>2, <2>3 DEF Opposite, m
  <1>7. CASE Len(h) > 1 /\ Detected(Current(h)) /\ ~Raises(h)
    <2>1. ~Raises(m) /\ Detected(Current(m)) /\ Len(h) >= 2
      BY <1>1, <1>7, BandsTurn
    <2>2. \A rule \in Rules : Fires(m, rule, "SELL") <=> Fires(h, rule, "BUY")
      BY <1>7, <2>1, SellFiresTurns
    <2>3. \A rule \in Rules : Fires(m, rule, "BUY") <=> Fires(h, rule, "SELL")
      BY <1>7, <2>1, BuyFiresTurns
    <2> HIDE DEF m
    <2>4. /\ AnyFires(m, "SELL") <=> AnyFires(h, "BUY")
          /\ AnyFires(m, "BUY") <=> AnyFires(h, "SELL")
      BY <2>2, <2>3, RuleNamesAre DEF AnyFires
    <2>5. /\ AnyFires(h, "BUY") => FirstOf(m, "SELL") = FirstOf(h, "BUY")
          /\ AnyFires(h, "SELL") => FirstOf(m, "BUY") = FirstOf(h, "SELL")
      BY <2>2, <2>3, FirstIsSame
    <2>7. CASE AnyFires(h, "BUY") /\ AnyFires(h, "SELL")
      BY <1>1, <1>7, <2>1, <2>4, <2>7, DecisionIs DEF Opposite, m
    <2>8. CASE AnyFires(h, "BUY") /\ ~AnyFires(h, "SELL")
      BY <1>1, <1>7, <2>1, <2>4, <2>5, <2>8, DecisionIs DEF Opposite, m
    <2>9. CASE ~AnyFires(h, "BUY") /\ AnyFires(h, "SELL")
      BY <1>1, <1>7, <2>1, <2>4, <2>5, <2>9, DecisionIs DEF Opposite, m
    <2>10. CASE ~AnyFires(h, "BUY") /\ ~AnyFires(h, "SELL")
      BY <1>1, <1>7, <2>1, <2>4, <2>10, DecisionIs DEF Opposite, m
    <2> QED BY <2>7, <2>8, <2>9, <2>10
  <1> QED BY <1>1, <1>2, <1>4, <1>5, <1>6, <1>7

-----------------------------------------------------------------------------
\* The frames shown are those of the chart.
RuleInv == chart \in Charts /\ shown \in Seq(chart.frames)

\* The frames shown at the start and after each step.
LEMMA InitRule == RuleInit => RuleInv
  <1>1. (CHOOSE c \in Charts : TRUE) \in Charts
    BY ChartAssumption
  <1> QED BY <1>1 DEF RuleInit, RuleInv

LEMMA NextRule == RuleInv /\ (ShowFrame \/ UNCHANGED ruleVars) => RuleInv'
  <1> SUFFICES ASSUME RuleInv, ShowFrame \/ UNCHANGED ruleVars PROVE RuleInv'
    OBVIOUS
  <1>1. CASE ShowFrame
    BY <1>1 DEF ShowFrame, RuleInv
  <1>2. CASE UNCHANGED ruleVars
    BY <1>2 DEF ruleVars, RuleInv
  <1> QED BY <1>1, <1>2

\* Then the decision on them turns with them.
LEMMA RuleSafety == OffTheLines /\ RuleInv => SellingMirrorsBuying
  <1> SUFFICES ASSUME OffTheLines, RuleInv PROVE SellingMirrorsBuying
    OBVIOUS
  <1>1. chart.frames \subseteq ClearFrames
    BY ChartAssumption DEF RuleInv, OffTheLines, ClearFrames
  <1>2. shown \in Seq(ClearFrames)
    BY <1>1 DEF RuleInv
  <1> QED BY <1>2, DecisionTurns DEF SellingMirrorsBuying

-----------------------------------------------------------------------------
(* The engine that fails over.                                             *)

\* The last n evaluations of a record failed, or all of a full one.
InARow(rec, n) ==
    /\ n <= Len(rec) \/ Len(rec) = FailureThreshold
    /\ \A i \in 1..Len(rec) : Len(rec) - i < n => ~rec[i]

RecordIsKept(rec) == rec \in Seq(BOOLEAN) /\ Len(rec) <= FailureThreshold

EngineInv == failures \in Nat /\ RecordIsKept(record) /\ InARow(record, failures)

\* A new record of evaluations.
LEMMA EmptyRecord == ASSUME NEW rec, rec = << >> PROVE RecordIsKept(rec) /\ InARow(rec, 0)
  BY FailoverAssumption DEF RecordIsKept, InARow

\* The invariant holds at the start.
LEMMA InitEngine == EngineInit => EngineInv
  BY EmptyRecord DEF EngineInit, EngineInv

\* A record whose oldest evaluation may be forgotten.
Window(longer) == IF Len(longer) > FailureThreshold THEN Tail(longer) ELSE longer

\* A record that moves on ends with as many failures as are counted, or is full of them.
LEMMA WindowMoves ==
    ASSUME NEW rec, RecordIsKept(rec), NEW n \in Nat, InARow(rec, n), NEW worked \in BOOLEAN
    PROVE  /\ RecordIsKept(Window(Append(rec, worked)))
           /\ worked => InARow(Window(Append(rec, worked)), 0)
           /\ ~worked => InARow(Window(Append(rec, worked)), n + 1)
  <1> DEFINE longer == Append(rec, worked)
             new == Window(longer)
             len == Len(rec)
  <1>1. rec \in Seq(BOOLEAN) /\ len \in Nat /\ len <= FailureThreshold /\ FailureThreshold \in Nat
    BY FailoverAssumption DEF RecordIsKept
  <1>2. /\ longer \in Seq(BOOLEAN) /\ Len(longer) = len + 1 /\ longer[len + 1] = worked
        /\ \A i \in 1..len : longer[i] = rec[i]
    BY <1>1
  <1>3. /\ n <= len \/ len = FailureThreshold
        /\ \A i \in 1..len : len - i < n => ~rec[i]
    BY DEF InARow
  <1> HIDE DEF longer, len
  <1>4. CASE len < FailureThreshold
    <2>1. new = longer
      BY <1>1, <1>2, <1>4 DEF Window
    <2>2. RecordIsKept(new)
      BY <1>1, <1>2, <1>4, <2>1 DEF RecordIsKept
    <2>3. InARow(new, 0)
      BY <1>1, <1>2, <2>1 DEF InARow
    <2>4. ASSUME ~worked PROVE InARow(new, n + 1)
      <3>1. n + 1 <= Len(new)
        BY <1>1, <1>2, <1>3, <1>4, <2>1
      <3>2. ASSUME NEW i \in 1..Len(new), Len(new) - i < n + 1 PROVE ~new[i]
        <4>1. CASE i = len + 1
          BY <1>2, <2>1, <2>4, <4>1
        <4>2. CASE i # len + 1
          BY <1>1, <1>2, <1>3, <2>1, <3>2, <4>2
        <4> QED BY <4>1, <4>2
      <3> QED BY <3>1, <3>2 DEF InARow
    <2> QED BY <2>2, <2>3, <2>4 DEF longer
  <1>5. CASE len = FailureThreshold
    <2>0. new = Tail(longer) /\ longer # << >>
      BY <1>1, <1>2, <1>5 DEF Window
    <2>1. /\ Len(new) = len /\ new \in Seq(BOOLEAN)
          /\ \A i \in 1..len : new[i] = longer[i + 1]
      <3> HIDE DEF new
      <3>1. /\ Tail(longer) \in Seq(BOOLEAN) /\ Len(Tail(longer)) = Len(longer) - 1
            /\ \A i \in 1..Len(longer) - 1 : Tail(longer)[i] = longer[i + 1]
        BY <1>2, <2>0
      <3>2. Len(longer) - 1 = len
        BY <1>1, <1>2
      <3> QED BY <2>0, <3>1, <3>2
    <2>2. RecordIsKept(new)
      BY <1>1, <1>5, <2>1 DEF RecordIsKept
    <2>3. InARow(new, 0)
      BY <1>1, <2>1 DEF InARow
    <2>4. ASSUME ~worked PROVE InARow(new, n + 1)
      <3>1. ASSUME NEW i \in 1..len, len - i < n + 1 PROVE ~new[i]
        <4>1. new[i] = longer[i + 1]
          BY <2>1
        <4>2. CASE i = len
          BY <1>2, <2>4, <4>1, <4>2
        <4>3. CASE i # len
          <5>1. i + 1 \in 1..len /\ len - (i + 1) < n
            BY <1>1, <3>1, <4>3
          <5> QED BY <1>2, <1>3, <4>1, <5>1
        <4> QED BY <4>2, <4>3
      <3> QED BY <1>5, <2>1, <3>1 DEF InARow
    <2> QED BY <2>2, <2>3, <2>4 DEF longer
  <1> QED BY <1>1, <1>4, <1>5

\* An evaluation is recorded.
LEMMA EvaluationIsRecorded ==
    ASSUME EngineInv, failures' = FailuresAfter(PrimaryWorks), record' = Recorded(PrimaryWorks)
    PROVE  EngineInv'
  <1>1. PICK worked \in BOOLEAN : worked <=> PrimaryWorks
    BY DEF PrimaryWorks
  <1>2. record' = Window(Append(record, worked))
    <2>1. PrimaryWorks = worked
      BY <1>1 DEF PrimaryWorks
    <2> QED BY <2>1 DEF Recorded, Window
  <1>3. failures' = IF worked THEN 0 ELSE failures + 1
    BY <1>1 DEF FailuresAfter
  <1>4. failures \in Nat /\ RecordIsKept(record) /\ InARow(record, failures)
    BY DEF EngineInv
  <1>5. /\ RecordIsKept(record')
        /\ worked => InARow(record', 0)
        /\ ~worked => InARow(record', failures + 1)
    BY <1>2, <1>4, WindowMoves
  <1>6. failures' \in Nat
    BY <1>3, <1>4
  <1>7. InARow(record', failures')
    BY <1>3, <1>5
  <1> QED BY <1>5, <1>6, <1>7 DEF EngineInv

\* Every step keeps it.
LEMMA NextEngine == EngineInv /\ [EngineNext]_engineVars => EngineInv'
  <1> SUFFICES ASSUME EngineInv, [EngineNext]_engineVars PROVE EngineInv'
    OBVIOUS
  <1>1. ASSUME UNCHANGED <<failures, record>> PROVE EngineInv'
    BY <1>1 DEF EngineInv
  <1>2. CASE UNCHANGED engineVars
    BY <1>1, <1>2 DEF engineVars
  <1>3. ASSUME failures' = 0, record' = << >> PROVE EngineInv'
    BY <1>3, EmptyRecord DEF EngineInv
  <1>4. CASE StartEngines
    BY <1>3, <1>4 DEF StartEngines
  <1>5. ASSUME NEW chosen, ForceTier(chosen) PROVE EngineInv'
    BY <1>3, <1>5 DEF ForceTier
  <1>6. ASSUME NEW part, PartBreaks(part) \/ PartIsMended(part) PROVE EngineInv'
    BY <1>1, <1>6 DEF PartBreaks, PartIsMended
  <1>7. CASE EvaluateHistory
    BY <1>1, <1>7, EvaluationIsRecorded DEF EvaluateHistory
  <1> QED BY <1>2, <1>4, <1>5, <1>6, <1>7 DEF EngineNext

\* What TripsOnlyInARow says of a step.
EngineTrips == active = "primary" /\ active' = "fallback" /\ answer' # "none"
TripIsInARow == Len(record') = FailureThreshold /\ \A i \in DOMAIN record' : ~record'[i]

\* A failover has the record full of failures.
LEMMA TripsInARow ==
    ASSUME EngineInv, EngineInv', [EngineNext]_engineVars, EngineTrips
    PROVE  TripIsInARow
  <1>1. EvaluateHistory
    BY DEF EngineTrips, EngineNext, engineVars, StartEngines, ForceTier, PartBreaks, PartIsMended
  <1>2. Trips /\ failures' = FailuresAfter(PrimaryWorks)
    BY <1>1 DEF EvaluateHistory, EvaluateByPrimary, EngineTrips
  <1>3. FailureThreshold \in Nat /\ failures' \in Nat /\ failures' >= FailureThreshold
    BY <1>2, FailoverAssumption DEF Trips, FailuresAfter, EngineInv
  <1>4. record' \in Seq(BOOLEAN) /\ Len(record') <= FailureThreshold /\ InARow(record', failures')
    BY DEF EngineInv, RecordIsKept
  <1>5. Len(record') \in Nat /\ DOMAIN record' = 1..Len(record')
    BY <1>4
  <1>6. Len(record') = FailureThreshold
    <2>1. failures' <= Len(record') \/ Len(record') = FailureThreshold
      BY <1>4 DEF InARow
    <2>2. Len(record') <= FailureThreshold /\ Len(record') \in Nat
      BY <1>4, <1>5
    <2> QED BY ONLY <1>3, <2>1, <2>2
  <1>7. ASSUME NEW i \in DOMAIN record' PROVE ~record'[i]
    <2>1. i \in 1..Len(record') /\ Len(record') - i < failures'
      BY <1>3, <1>5, <1>6
    <2> QED BY <1>4, <2>1 DEF InARow
  <1> QED BY <1>6, <1>7 DEF TripIsInARow

-----------------------------------------------------------------------------
(* The live short position.                                                *)

PosRec == [open : BOOLEAN, stop : Int, even : BOOLEAN, held : Nat,
           reason : {"none", "STOP", "TIME", "DATA"}, exit : Int]

\* What a position may lose: its risk, or nothing when its stop was moved to the entry.
MostLost(risk, even) == IF even THEN 0 ELSE risk

\* An open position has bars left and a stop within what it may lose; a closed one has lost
\* no more.
WellRun(p, risk) ==
    /\ p.open => p.reason = "none" /\ p.held < MaxHold /\ p.stop <= MostLost(risk, p.even)
    /\ p.reason # "none" => p.exit <= MostLost(risk, p.even)

ShortInv ==
    /\ entered \in Nat
    /\ run \in [Runners -> PosRec]
    /\ \A x \in Runners : WellRun(run[x], Risk(entered))
    /\ LiveFollowsSimulation

\* The initial risk and the trail, in points.
LEMMA RiskIsNat == ASSUME NEW atr \in Nat PROVE Risk(atr) \in Nat /\ Trail(atr) \in Nat
  <1>1. atr \div 4 \in Nat
    OBVIOUS
  <1> QED BY <1>1 DEF Risk, Trail

\* The range of a bar.
LEMMA AtrIsNat == ASSUME NEW atr \in Atrs \cup {NoAtr} PROVE atr \in Nat
  BY PositionAssumption DEF NoAtr

\* No position has lost nothing.
LEMMA FlatIsWell == Flat \in PosRec /\ \A risk : WellRun(Flat, risk)
  BY DEF Flat, PosRec, WellRun

\* The invariant holds at the start.
LEMMA InitShort == ShortInit => ShortInv
  BY FlatIsWell DEF ShortInit, ShortInv, NoAtr, Runners, LiveFollowsSimulation

\* A position with its stop set is still a position.
LEMMA OpenedIs ==
    ASSUME NEW p \in PosRec, NEW o \in BOOLEAN, NEW s \in Int
    PROVE  LET q == [p EXCEPT !.open = o, !.stop = s]
           IN  /\ q \in PosRec /\ q.open = o /\ q.stop = s /\ q.reason = p.reason
               /\ q.held = p.held /\ q.even = p.even
  BY DEF PosRec

\* A position with its stop moved is still a position.
LEMMA MovedIs ==
    ASSUME NEW p \in PosRec, NEW e \in BOOLEAN, NEW s \in Int
    PROVE  LET q == [p EXCEPT !.stop = s, !.even = e]
           IN  q \in PosRec /\ q.even = e /\ q.stop = s
  BY DEF PosRec

\* A position is entered, alive and simulated.
LEMMA EnterKeeps == ASSUME ShortInv, EnterShort PROVE ShortInv'
  <1> DEFINE new == [Flat EXCEPT !.open = TRUE, !.stop = Risk(entered')]
  <1>1. entered' \in Nat /\ run' = [x \in Runners |-> new]
    BY AtrIsNat DEF EnterShort
  <1>2. Risk(entered') \in Nat /\ MaxHold \in Nat \ {0}
    BY <1>1, RiskIsNat, PositionAssumption
  <1>3. new \in PosRec /\ new.reason = "none" /\ new.held = 0 /\ new.even = FALSE
        /\ new.stop = Risk(entered')
    <2>1. Risk(entered') \in Int /\ TRUE \in BOOLEAN
      BY <1>2
    <2>2. Flat \in PosRec /\ Flat.reason = "none" /\ Flat.held = 0 /\ Flat.even = FALSE
      BY FlatIsWell DEF Flat
    <2>3. PICK open \in BOOLEAN : open = TRUE
      OBVIOUS
    <2>4. PICK risk \in Int : risk = Risk(entered')
      BY <2>1
    <2>5. new = [Flat EXCEPT !.open = open, !.stop = risk]
      BY <2>3, <2>4
    <2> HIDE DEF new
    <2>6. new \in PosRec /\ new.reason = "none" /\ new.held = 0 /\ new.even = FALSE /\ new.stop = risk
      BY ONLY <2>2, <2>5, open \in BOOLEAN, risk \in Int DEF PosRec
    <2> QED BY <2>4, <2>6
  <1> HIDE DEF new
  <1>4. WellRun(new, Risk(entered'))
    BY <1>2, <1>3 DEF WellRun, MostLost
  <1>5. LiveFollowsSimulation'
    BY <1>1 DEF LiveFollowsSimulation, Runners
  <1> QED BY <1>1, <1>3, <1>4, <1>5 DEF ShortInv

Bars == [high : Int, close : Int, atr : Nat, last : BOOLEAN]

\* Where the stop and the mark of a position are after a bar that did not hit its stop.
LEMMA StopMoves ==
    ASSUME entered \in Nat, NEW x, NEW p \in PosRec, NEW bar \in Bars, p.open,
           bar.close <= bar.high, bar.high < p.stop, WellRun(p, Risk(entered))
    PROVE  /\ EvenAfter(p, bar.close) \in BOOLEAN /\ StopAfter(x, p, bar) \in Int
           /\ StopAfter(x, p, bar) <= MostLost(Risk(entered), EvenAfter(p, bar.close))
           /\ bar.close <= MostLost(Risk(entered), EvenAfter(p, bar.close))
  <1> DEFINE risk == Risk(entered)
             even == EvenAfter(p, bar.close)
             old  == IF even /\ ~p.even THEN 0 ELSE p.stop
             atr  == TrailAtr(x, bar.atr)
             cand == bar.close + Trail(atr)
             stop == StopAfter(x, p, bar)
  <1>1. /\ bar.close \in Int /\ bar.high \in Int /\ bar.atr \in Nat /\ p.stop \in Int
        /\ p.even \in BOOLEAN
    BY DEF Bars, PosRec
  <1>2. risk \in Nat /\ atr \in Nat
    BY <1>1, RiskIsNat DEF TrailAtr
  <1>3. Trail(atr) \in Nat
    BY <1>2, RiskIsNat
  <1>4. cand \in Int
    BY <1>1, <1>3
  <1>5. even \in BOOLEAN /\ (even = (p.even \/ -bar.close >= risk))
    BY DEF EvenAfter
  <1>6. stop = IF even /\ atr # NoAtr THEN Tightened(old, cand) ELSE old
    BY DEF StopAfter
  <1>7. p.stop <= MostLost(risk, p.even)
    BY DEF WellRun
  <1> HIDE DEF risk, even, atr, cand, stop
  <1>8. old \in Int /\ old <= MostLost(risk, even) /\ bar.close <= MostLost(risk, even)
    <2>1. CASE p.even
      BY <1>1, <1>2, <1>5, <1>7, <2>1 DEF MostLost
    <2>2. CASE ~p.even /\ even
      BY <1>1, <1>2, <1>5, <1>7, <2>2 DEF MostLost
    <2>3. CASE ~p.even /\ ~even
      BY <1>1, <1>2, <1>5, <1>7, <2>3 DEF MostLost
    <2> QED BY <2>1, <2>2, <2>3
  <1>9. MostLost(risk, even) \in Int
    BY <1>2 DEF MostLost
  <1> HIDE DEF old
  <1>10. stop \in Int /\ stop <= old
    BY <1>4, <1>6, <1>8 DEF Tightened
  <1>11. stop <= MostLost(risk, even)
    BY <1>8, <1>9, <1>10
  <1> QED BY <1>5, <1>8, <1>10, <1>11 DEF risk, even, stop

\* A bar of a position, whoever runs it.
LEMMA BarIsWell ==
    ASSUME entered \in Nat, NEW x, NEW p \in PosRec, NEW bar \in Bars, p.open,
           bar.close <= bar.high, WellRun(p, Risk(entered))
    PROVE  LET q == SimulatedBar(x, p, bar) IN q \in PosRec /\ WellRun(q, Risk(entered))
  <1> DEFINE q == SimulatedBar(x, p, bar)
             risk == Risk(entered)
  <1>1. /\ bar.close \in Int /\ bar.high \in Int /\ p.stop \in Int /\ p.held \in Nat
        /\ p.even \in BOOLEAN
    BY DEF Bars, PosRec
  <1>2. p.stop <= MostLost(risk, p.even) /\ p.held < MaxHold /\ MaxHold \in Nat
    BY PositionAssumption DEF WellRun
  <1>3. CASE bar.high >= p.stop
    <2>1. q = [p EXCEPT !.open = FALSE, !.reason = "STOP", !.exit = p.stop]
      BY <1>1, <1>3 DEF SimulatedBar
    <2>2. q \in PosRec /\ q.open = FALSE /\ q.exit = p.stop /\ q.even = p.even
      BY <1>1, <2>1 DEF PosRec
    <2> HIDE DEF q
    <2> QED BY <1>2, <2>2 DEF WellRun, q
  <1>4. CASE bar.high < p.stop
    <2> DEFINE stop == StopAfter(x, p, bar)
               even == EvenAfter(p, bar.close)
               held == p.held + 1
               moved == [p EXCEPT !.stop = stop, !.even = even, !.held = held]
               reason == IF held = MaxHold THEN "TIME" ELSE "DATA"
    <2>1. /\ even \in BOOLEAN /\ stop \in Int /\ stop <= MostLost(risk, even)
          /\ bar.close <= MostLost(risk, even)
      BY <1>4, StopMoves
    <2>2. ~(bar.high >= p.stop)
      BY <1>1, <1>4
    <2>3. held \in Nat /\ held <= MaxHold
      BY <1>1, <1>2
    <2>4. reason \in {"none", "STOP", "TIME", "DATA"}
      OBVIOUS
    <2>5. /\ moved \in PosRec /\ moved.held = held /\ moved.stop = stop /\ moved.even = even
          /\ moved.reason = p.reason /\ moved.exit = p.exit
      <3> HIDE DEF stop, even, held
      <3> QED BY <2>1, <2>3 DEF PosRec
    <2>6. q = IF moved.held = MaxHold \/ bar.last
                THEN [moved EXCEPT !.open = FALSE, !.exit = bar.close,
                                   !.reason = IF moved.held = MaxHold THEN "TIME" ELSE "DATA"]
                ELSE moved
      BY <1>4, <2>2 DEF SimulatedBar
    <2> HIDE DEF stop, even, held, moved, q
    <2>7. CASE held = MaxHold \/ bar.last
      <3>1. q = [moved EXCEPT !.open = FALSE, !.exit = bar.close, !.reason = reason]
        BY <2>5, <2>6, <2>7
      <3> HIDE DEF reason
      <3>2. q \in PosRec /\ q.open = FALSE /\ q.exit = bar.close /\ q.even = even
        BY <1>1, <2>4, <2>5, <3>1 DEF PosRec
      <3> QED BY <2>1, <3>2 DEF WellRun, q
    <2>8. CASE ~(held = MaxHold \/ bar.last)
      <3>1. q = moved /\ held < MaxHold
        BY <1>2, <2>3, <2>5, <2>6, <2>8
      <3>2. p.reason = "none"
        BY DEF WellRun
      <3> QED BY <2>1, <2>5, <3>1, <3>2 DEF WellRun, q
    <2> QED BY <2>7, <2>8
  <1> QED BY <1>1, <1>3, <1>4

\* Up to the holding time the manager moves the stop as the simulator does.
LEMMA SameMoves ==
    ASSUME entered \in Nat, NEW p \in PosRec, NEW bar \in Bars
    PROVE  Trailed(MovedEven(p, bar), bar)
             = [p EXCEPT !.stop = StopAfter("simulated", p, bar), !.even = EvenAfter(p, bar.close)]
  <1> DEFINE behind == -bar.close >= Risk(entered)
             cand == bar.close + Trail(bar.atr)
             even == EvenAfter(p, bar.close)
             stop == StopAfter("simulated", p, bar)
             moved == MovedEven(p, bar)
  <1>1. p.even \in BOOLEAN /\ bar.atr \in Nat /\ bar.close \in Int /\ p.stop \in Int
    BY DEF PosRec, Bars
  <1>2. bar.atr > 0 <=> bar.atr # NoAtr
    BY <1>1 DEF NoAtr
  <1>3. /\ even = (p.even \/ behind) /\ even \in BOOLEAN
        /\ stop = LET old == IF even /\ ~p.even THEN 0 ELSE p.stop
                  IN  IF even /\ bar.atr # NoAtr THEN Tightened(old, cand) ELSE old
    BY DEF EvenAfter, StopAfter, TrailAtr
  <1>4. moved = IF behind /\ ~p.even THEN [p EXCEPT !.stop = 0, !.even = TRUE] ELSE p
    BY DEF MovedEven
  <1>5. moved \in PosRec /\ moved = [p EXCEPT !.stop = moved.stop, !.even = moved.even]
        /\ moved.stop = (IF even /\ ~p.even THEN 0 ELSE p.stop) /\ moved.even = even
    <2> HIDE DEF behind, even, stop, moved
    <2>1. CASE behind /\ ~p.even
      <3>1. even = TRUE /\ moved = [p EXCEPT !.stop = 0, !.even = TRUE]
        BY <1>3, <1>4, <2>1
      <3>2. 0 \in Int /\ TRUE \in BOOLEAN
        OBVIOUS
      <3>3. moved \in PosRec /\ moved.stop = 0 /\ moved.even = TRUE
        BY <3>1, <3>2, MovedIs
      <3>4. moved = [p EXCEPT !.stop = moved.stop, !.even = moved.even]
        BY <3>1, <3>3
      <3> QED BY <2>1, <3>1, <3>3, <3>4
    <2>2. CASE ~(behind /\ ~p.even)
      <3>1. even = p.even /\ moved = p
        BY <1>1, <1>3, <1>4, <2>2
      <3> QED BY <2>2, <3>1 DEF PosRec
    <2> QED BY <2>1, <2>2
  <1>6. Trailed(moved, bar) = IF moved.even /\ bar.atr > 0 /\ cand < moved.stop
                                THEN [moved EXCEPT !.stop = cand] ELSE moved
    BY DEF Trailed
  <1>7. stop = IF even /\ bar.atr > 0 /\ cand < moved.stop THEN cand ELSE moved.stop
    BY <1>2, <1>3, <1>5 DEF Tightened
  <1> HIDE DEF behind, even, stop, moved, cand
  <1>8. CASE even /\ bar.atr > 0 /\ cand < moved.stop
    <2>1. stop = cand /\ Trailed(moved, bar) = [moved EXCEPT !.stop = stop]
      BY <1>5, <1>6, <1>7, <1>8
    <2>2. [moved EXCEPT !.stop = stop] = [p EXCEPT !.stop = stop, !.even = even]
      BY <1>5 DEF PosRec
    <2> QED BY <2>1, <2>2 DEF moved, stop, even
  <1>9. CASE ~(even /\ bar.atr > 0 /\ cand < moved.stop)
    <2>1. stop = moved.stop /\ Trailed(moved, bar) = moved
      BY <1>5, <1>6, <1>7, <1>9
    <2>2. moved = [p EXCEPT !.stop = stop, !.even = even]
      BY <1>5, <2>1
    <2> QED BY <2>1, <2>2 DEF moved, stop, even
  <1> QED BY <1>8, <1>9

\* On every bar the live manager does what the simulator does, but at the end of data.
LEMMA LiveIsSimulated ==
    ASSUME entered \in Nat, NEW p \in PosRec, NEW bar \in Bars, p.held < MaxHold
    PROVE  \/ SimulatedBar("simulated", p, bar).reason = "DATA"
           \/ LiveBar(p, bar) = SimulatedBar("simulated", p, bar)
  <1> DEFINE moved == [p EXCEPT !.stop = StopAfter("simulated", p, bar),
                                !.even = EvenAfter(p, bar.close), !.held = p.held + 1]
             base == Trailed(MovedEven(p, bar), bar)
             q == SimulatedBar("simulated", p, bar)
             l == LiveBar(p, bar)
  <1>1. /\ bar.close \in Int /\ bar.high \in Int /\ p.stop \in Int /\ p.held \in Nat
        /\ MaxHold \in Nat
    BY PositionAssumption DEF Bars, PosRec
  <1>2. CASE bar.high >= p.stop
    BY <1>1, <1>2 DEF SimulatedBar, LiveBar, Broken
  <1>3. CASE bar.high < p.stop
    <2>1. ~(bar.high >= p.stop)
      BY <1>1, <1>3
    <2>2. base = [p EXCEPT !.stop = StopAfter("simulated", p, bar), !.even = EvenAfter(p, bar.close)]
      BY SameMoves
    <2>3. [base EXCEPT !.held = p.held + 1] = moved
      BY <2>2 DEF PosRec
    <2>4. moved.held = p.held + 1
      BY DEF PosRec
    <2>5. HoldingBars(p.held) >= MaxHold <=> p.held + 1 = MaxHold
      BY <1>1 DEF HoldingBars
    <2>6. l = IF HoldingBars(p.held) >= MaxHold
                THEN [moved EXCEPT !.open = FALSE, !.reason = "TIME", !.exit = bar.close]
                ELSE moved
      BY <2>1, <2>3 DEF LiveBar, Broken
    <2>7. q = IF moved.held = MaxHold \/ bar.last
                THEN [moved EXCEPT !.open = FALSE, !.exit = bar.close,
                                   !.reason = IF moved.held = MaxHold THEN "TIME" ELSE "DATA"]
                ELSE moved
      BY <1>3, <2>1 DEF SimulatedBar
    <2>8. "reason" \in DOMAIN moved
      BY DEF PosRec
    <2> HIDE DEF q, l, moved
    <2>9. CASE p.held + 1 = MaxHold
      BY <2>4, <2>5, <2>6, <2>7, <2>9 DEF q, l
    <2>10. CASE p.held + 1 # MaxHold
      <3>1. CASE bar.last
        <4>1. q = [moved EXCEPT !.open = FALSE, !.exit = bar.close, !.reason = "DATA"]
          BY <2>4, <2>7, <2>10, <3>1
        <4>2. q.reason = "DATA"
          BY <2>8, <4>1
        <4> QED BY <4>2 DEF q
      <3>2. CASE ~bar.last
        BY <2>4, <2>5, <2>6, <2>7, <2>10, <3>2 DEF q, l
      <3> QED BY <3>1, <3>2
    <2> QED BY <2>9, <2>10
  <1> QED BY <1>1, <1>2, <1>3

\* A bar of the manager is well run, too.
LEMMA LiveIsWell ==
    ASSUME entered \in Nat, NEW p \in PosRec, NEW bar \in Bars, p.open,
           bar.close <= bar.high, WellRun(p, Risk(entered))
    PROVE  LiveBar(p, bar) \in PosRec /\ WellRun(LiveBar(p, bar), Risk(entered))
  <1> DEFINE on == [bar EXCEPT !.last = FALSE]
             q == SimulatedBar("simulated", p, on)
  <1>1. /\ on \in Bars /\ on.close = bar.close /\ on.high = bar.high /\ on.atr = bar.atr
        /\ on.last = FALSE
    BY DEF Bars
  <1>2. p.held < MaxHold /\ MaxHold \in Nat /\ p.held \in Nat /\ p.reason = "none"
    BY PositionAssumption DEF WellRun, PosRec
  <1>3. LiveBar(p, on) = LiveBar(p, bar)
    BY <1>1 DEF LiveBar, Broken, Trailed, MovedEven
  <1>4. q \in PosRec /\ WellRun(q, Risk(entered))
    BY <1>1, BarIsWell
  <1>5. q.reason # "DATA"
    <2>1. CASE on.high >= p.stop
      <3>1. q = [p EXCEPT !.open = FALSE, !.reason = "STOP", !.exit = p.stop]
        BY <2>1 DEF SimulatedBar, PosRec, Bars
      <3> HIDE DEF q
      <3>2. q.reason = "STOP"
        BY <3>1 DEF PosRec
      <3> QED BY <3>2
    <2>2. CASE ~(on.high >= p.stop)
      <3> DEFINE moved == [p EXCEPT !.stop = StopAfter("simulated", p, on),
                                    !.even = EvenAfter(p, on.close), !.held = p.held + 1]
      <3>1. on.high < p.stop
        BY <1>1, <2>2 DEF Bars, PosRec
      <3>2. q = IF moved.held = MaxHold \/ on.last
                  THEN [moved EXCEPT !.open = FALSE, !.exit = on.close,
                                     !.reason = IF moved.held = MaxHold THEN "TIME" ELSE "DATA"]
                  ELSE moved
        BY <2>2, <3>1 DEF SimulatedBar
      <3>3. moved.reason = "none" /\ "reason" \in DOMAIN moved
        BY <1>2 DEF PosRec
      <3> HIDE DEF moved, q
      <3>4. CASE moved.held = MaxHold
        BY <3>2, <3>3, <3>4
      <3>5. CASE moved.held # MaxHold
        BY <1>1, <3>2, <3>3, <3>5
      <3> QED BY <3>4, <3>5
    <2> QED BY <2>1, <2>2
  <1>6. LiveBar(p, on) = q
    BY <1>1, <1>2, <1>5, LiveIsSimulated
  <1> QED BY <1>3, <1>4, <1>6

\* A bar closes.
LEMMA NextBarKeeps == ASSUME ShortInv, NextBar PROVE ShortInv'
  <1>1. PICK high \in Prices, close \in Prices, atr \in Atrs \cup {NoAtr}, last \in BOOLEAN :
          /\ close <= high
          /\ LET bar == [high |-> high, close |-> close, atr |-> atr, last |-> last]
             IN  run' = [x \in Runners |-> CASE ~run[x].open -> run[x]
                                            [] run[x].open /\ x = "live" -> LiveBar(run[x], bar)
                                            [] OTHER -> SimulatedBar(x, run[x], bar)]
    BY DEF NextBar
  <1> DEFINE bar == [high |-> high, close |-> close, atr |-> atr, last |-> last]
             next(x) == CASE ~run[x].open -> run[x]
                          [] run[x].open /\ x = "live" -> LiveBar(run[x], bar)
                          [] OTHER -> SimulatedBar(x, run[x], bar)
  <1>2. run' = [x \in Runners |-> next(x)] /\ entered' = entered
    BY <1>1 DEF NextBar
  <1>3. high \in Int /\ close \in Int /\ atr \in Nat
    BY PositionAssumption, AtrIsNat
  <1>4. bar \in Bars /\ bar.close <= bar.high
    BY <1>1, <1>3 DEF Bars
  <1> HIDE DEF bar
  <1>5. entered \in Nat /\ \A x \in Runners : run[x] \in PosRec /\ WellRun(run[x], Risk(entered))
    BY DEF ShortInv
  <1>6. ASSUME NEW x \in Runners
        PROVE  next(x) \in PosRec /\ WellRun(next(x), Risk(entered))
    <2>1. run[x] \in PosRec /\ WellRun(run[x], Risk(entered))
      BY <1>5
    <2>2. CASE ~run[x].open
      BY <2>1, <2>2
    <2>3. CASE run[x].open /\ x = "live"
      BY <1>4, <1>5, <2>1, <2>3, LiveIsWell
    <2>4. CASE run[x].open /\ x # "live"
      BY <1>4, <1>5, <2>1, <2>4, BarIsWell
    <2> QED BY <2>2, <2>3, <2>4
  <1>7. LiveFollowsSimulation'
    <2>1. "live" \in Runners /\ "simulated" \in Runners
      BY DEF Runners
    <2>2. run'["live"] = next("live") /\ run'["simulated"] = next("simulated")
      BY <1>2, <2>1
    <2> DEFINE p == run["simulated"]
    <2>3. p \in PosRec /\ WellRun(p, Risk(entered))
      BY <1>5, <2>1
    <2>4. CASE p.reason = "DATA"
      <3>1. ~p.open
        BY <2>3, <2>4 DEF WellRun
      <3> QED BY <2>2, <2>4, <3>1 DEF LiveFollowsSimulation
    <2>5. CASE p.reason # "DATA" /\ ~p.open
      <3>1. run["live"] = p
        BY <2>5 DEF ShortInv, LiveFollowsSimulation
      <3> QED BY <2>2, <2>5, <3>1 DEF LiveFollowsSimulation
    <2>6. CASE p.reason # "DATA" /\ p.open
      <3>1. run["live"] = p
        BY <2>6 DEF ShortInv, LiveFollowsSimulation
      <3>2. p.held < MaxHold
        BY <2>3, <2>6 DEF WellRun
      <3>3. next("live") = LiveBar(p, bar) /\ next("simulated") = SimulatedBar("simulated", p, bar)
        BY <2>6, <3>1
      <3> QED BY <1>4, <1>5, <2>2, <2>3, <3>2, <3>3, LiveIsSimulated DEF LiveFollowsSimulation
    <2> QED BY <2>4, <2>5, <2>6
  <1>8. run' \in [Runners -> PosRec] /\ \A x \in Runners : WellRun(run'[x], Risk(entered'))
    BY <1>2, <1>6
  <1> QED BY <1>2, <1>5, <1>7, <1>8 DEF ShortInv

\* Every step keeps it.
LEMMA NextShort == ShortInv /\ [ShortNext]_shortVars => ShortInv'
  <1>1. ShortInv /\ UNCHANGED shortVars => ShortInv'
    BY DEF ShortInv, shortVars, LiveFollowsSimulation
  <1> QED BY <1>1, EnterKeeps, NextBarKeeps DEF ShortNext

\* What is promised follows.
LEMMA ShortKept == ShortInv => LiveFollowsSimulation /\ LossesAreBounded
  BY DEF ShortInv, WellRun, MostLost, LossesAreBounded

-----------------------------------------------------------------------------
(* Orders at the terminal.                                                 *)

JobRec == [kind : JobKinds \cup {"none"}, ticket : Tickets \cup {0}, lots : Lots \cup {0},
           sent : Nat, deals : Nat, silent : Nat, open : BOOLEAN,
           told : {"nothing yet", "done", "rejected", "failed"}]

\* While a market order is tried, the broker has no more orders of it than attempts went without
\* any answer; every other job has one attempt.
OrderIsClear(kind, deals, silent, open, told) ==
    /\ deals <= silent + 1
    /\ told = "nothing yet" => deals <= silent
    /\ kind = "market_order" =>
          /\ told = "done" => deals >= 1
          /\ told # "done" /\ ~open => deals <= silent

TerminalInv ==
    /\ job \in JobRec
    /\ OrderIsClear(job.kind, job.deals, job.silent, job.open, job.told)

\* A worker without a job.
LEMMA NoJobIsClear ==
    /\ NoJob \in JobRec
    /\ OrderIsClear(NoJob.kind, NoJob.deals, NoJob.silent, NoJob.open, NoJob.told)
  BY DEF JobRec, NoJob, OrderIsClear

\* The invariant holds at the start.
LEMMA InitTerminal == TerminalInit => TerminalInv
  BY NoJobIsClear DEF TerminalInit, TerminalInv

\* The worker pushes what it has to tell.
LEMMA PushKeeps ==
    ASSUME TerminalInv, NEW result \in {"done", "failed"}, IsBusy, Pushed(result),
           result = "done" => job.kind # "market_order"
    PROVE  TerminalInv'
  <1>1. job \in JobRec /\ job' = [job EXCEPT !.told = result]
    BY DEF TerminalInv, Pushed
  <1>2. job' \in JobRec
    BY <1>1 DEF JobRec
  <1>3. /\ job'.kind = job.kind /\ job'.deals = job.deals /\ job'.silent = job.silent
        /\ job'.open = job.open /\ job'.told = result
    BY <1>1 DEF JobRec
  <1>4. OrderIsClear(job.kind, job.deals, job.silent, job.open, result)
    BY DEF TerminalInv, OrderIsClear, IsBusy
  <1> QED BY <1>2, <1>3, <1>4 DEF TerminalInv

\* Natural numbers go on.
LEMMA OneMoreIsNat == \A n \in Nat : n + 1 \in Nat
  OBVIOUS

\* The counts of a job after an attempt: one more order at most, and one more silence at most.
LEMMA CountsAre ==
    ASSUME NEW d \in Nat, NEW s \in Nat, d <= s, NEW executed \in {0, 1}, NEW quiet \in {0, 1}
    PROVE  /\ d + executed \in Nat /\ s + quiet \in Nat
           /\ d + executed <= s + quiet + 1
           /\ executed = 0 \/ quiet = 1 => d + executed <= s + quiet
           /\ executed = 1 => d + executed >= 1
  OBVIOUS

\* An attempt changes the counts of a job by one at most.
LEMMA AttemptCounts ==
    ASSUME TerminalInv, NEW reply, NEW outcome, IsBusy,
           NEW told \in {"nothing yet", "done", "rejected", "failed"},
           job' = Attempted(reply, outcome, told)
    PROVE  /\ job' \in JobRec
           /\ job'.kind = job.kind /\ job'.told = told
           /\ job'.deals <= job'.silent + 1
           /\ reply = "silence" \/ outcome = "nothing" => job'.deals <= job'.silent
           /\ outcome # "nothing" => job'.deals >= 1
           /\ reply = "unsettled" => job'.open
  <1> DEFINE executed == IF outcome = "nothing" THEN 0 ELSE 1
             quiet == IF reply = "silence" THEN 1 ELSE 0
             deals == job.deals + executed
             silent == job.silent + quiet
             open == job.open \/ reply = "unsettled"
             sent == job.sent + 1
  <1>1. job' = [job EXCEPT !.sent = sent, !.deals = deals, !.silent = silent, !.open = open,
                           !.told = told]
    BY DEF Attempted
  <1>2. job \in JobRec
    BY DEF TerminalInv
  <1>3. /\ job.deals \in Nat /\ job.sent \in Nat /\ job.silent \in Nat
        /\ job.deals <= job.silent
    BY <1>2 DEF JobRec, TerminalInv, OrderIsClear, IsBusy
  <1>4. /\ deals \in Nat /\ silent \in Nat /\ deals <= silent + 1
        /\ reply = "silence" \/ outcome = "nothing" => deals <= silent
        /\ outcome # "nothing" => deals >= 1
    <2>1. /\ executed \in {0, 1} /\ quiet \in {0, 1}
          /\ outcome = "nothing" => executed = 0
          /\ reply = "silence" => quiet = 1
          /\ outcome # "nothing" => executed = 1
      OBVIOUS
    <2> HIDE DEF executed, quiet
    <2> QED BY <1>3, <2>1, CountsAre
  <1>5. sent \in Nat
    BY <1>3, OneMoreIsNat, Zenon
  <1>6. open \in BOOLEAN
    BY <1>2, Zenon DEF JobRec
  <1>7. reply = "unsettled" => open
    OBVIOUS
  <1> HIDE DEF deals, silent, open, sent
  <1>8. job' \in JobRec
    BY <1>1, <1>2, <1>4, <1>5, <1>6 DEF JobRec
  <1>9. /\ job'.kind = job.kind /\ job'.told = told /\ job'.deals = deals
        /\ job'.silent = silent /\ job'.open = open
    BY <1>1, <1>2 DEF JobRec
  <1> QED BY <1>4, <1>7, <1>8, <1>9

\* An attempt at a market order: the next filling mode is tried only after a refusal, or when
\* there was no answer.
LEMMA MarketKeeps ==
    ASSUME TerminalInv, NEW reply \in SendReplies, NEW outcome, SendMarketOrder(reply, outcome)
    PROVE  TerminalInv'
  <1> DEFINE told == IF TriesOn(reply) /\ job.sent + 1 < Fillings THEN job.told
                     ELSE Verdict(reply)
  <1>1. IsBusy /\ job.told = "nothing yet" /\ Fits(reply, outcome)
    BY DEF SendMarketOrder, IsBusy
  <1>2. job' = Attempted(reply, outcome, told)
    BY DEF SendMarketOrder
  <1>3. told \in {"nothing yet", "done", "rejected", "failed"}
    BY <1>1 DEF Verdict
  <1>4. told = "nothing yet" => reply = "silence" \/ outcome = "nothing"
    BY <1>1 DEF Verdict, TriesOn, Fits
  <1>5. told = "done" => outcome # "nothing"
    BY <1>1 DEF Verdict, Fits
  <1>6. told # "done" => reply \in {"silence", "unsettled"} \/ outcome = "nothing"
    <2>1. reply \in {"done", "placed"} => told = "done"
      BY DEF Verdict, TriesOn
    <2>2. CASE reply \in {"invalid fill", "refused"}
      BY <1>1, <2>2 DEF Fits
    <2> QED BY <2>1, <2>2 DEF SendReplies
  <1> HIDE DEF told
  <1>7. /\ job' \in JobRec
        /\ job'.kind = job.kind /\ job'.told = told
        /\ job'.deals <= job'.silent + 1
        /\ reply = "silence" \/ outcome = "nothing" => job'.deals <= job'.silent
        /\ outcome # "nothing" => job'.deals >= 1
        /\ reply = "unsettled" => job'.open
    <2>1. PICK result \in {"nothing yet", "done", "rejected", "failed"} : result = told
      BY <1>3
    <2>2. job' = Attempted(reply, outcome, result)
      BY <1>2, <2>1
    <2>3. IsBusy
      BY <1>1
    <2> QED BY <2>1, <2>2, <2>3, AttemptCounts
  <1>8. OrderIsClear(job'.kind, job'.deals, job'.silent, job'.open, job'.told)
    BY <1>4, <1>5, <1>6, <1>7 DEF OrderIsClear
  <1> QED BY <1>7, <1>8 DEF TerminalInv

\* An attempt at something else.
LEMMA OtherKeeps ==
    ASSUME TerminalInv, NEW reply, NEW outcome, SendOther(reply, outcome)
    PROVE  TerminalInv'
  <1>1. IsBusy /\ job.kind # "market_order" /\ job' = Attempted(reply, outcome, "failed")
    BY DEF SendOther, ResultOfOther
  <1>2. /\ job' \in JobRec
        /\ job'.kind = job.kind /\ job'.told = "failed"
        /\ job'.deals <= job'.silent + 1
        /\ reply = "silence" \/ outcome = "nothing" => job'.deals <= job'.silent
        /\ outcome # "nothing" => job'.deals >= 1
    BY <1>1, AttemptCounts
  <1>3. OrderIsClear(job'.kind, job'.deals, job'.silent, job'.open, job'.told)
    BY <1>1, <1>2 DEF OrderIsClear
  <1> QED BY <1>2, <1>3 DEF TerminalInv

\* The worker takes a job.
LEMMA TakeJobKeeps ==
    ASSUME TerminalInv, NEW kind \in JobKinds, NEW ticket \in Tickets \cup {0},
           NEW lots \in Lots \cup {0}, TakeJob(kind, ticket, lots)
    PROVE  TerminalInv'
  <1>1. job' = [NoJob EXCEPT !.kind = kind, !.ticket = ticket, !.lots = lots]
    BY DEF TakeJob
  <1>2. job' \in JobRec /\ job'.deals = 0 /\ job'.told = "nothing yet" /\ job'.kind = kind
        /\ job'.silent = 0
    BY <1>1, NoJobIsClear DEF JobRec, NoJob
  <1>3. OrderIsClear(kind, 0, 0, job'.open, "nothing yet")
    BY DEF OrderIsClear
  <1> QED BY <1>2, <1>3 DEF TerminalInv

\* Every step keeps it.
LEMMA NextTerminal == TerminalInv /\ [TerminalNext]_terminalVars => TerminalInv'
  <1> SUFFICES ASSUME TerminalInv, [TerminalNext]_terminalVars PROVE TerminalInv'
    OBVIOUS
  <1>1. ASSUME job' = NoJob PROVE TerminalInv'
    BY <1>1, NoJobIsClear DEF TerminalInv
  <1>2. ASSUME UNCHANGED job PROVE TerminalInv'
    BY <1>2 DEF TerminalInv
  <1>3. CASE UNCHANGED terminalVars
    BY <1>2, <1>3 DEF terminalVars
  <1>4. ASSUME JobIsRefused PROVE TerminalInv'
    BY <1>4, PushKeeps DEF JobIsRefused
  <1>5. ASSUME AnswerQuery PROVE TerminalInv'
    BY <1>5, PushKeeps DEF AnswerQuery
  <1>6. ASSUME NEW named, NEW mode, ConnectTerminal(named, mode) PROVE TerminalInv'
    BY <1>2, <1>6 DEF ConnectTerminal
  <1>7. ASSUME NEW t, PositionEnds(t) \/ RestingOrderEnds(t) PROVE TerminalInv'
    BY <1>2, <1>7 DEF PositionEnds, RestingOrderEnds
  <1>8. ASSUME DisconnectTerminal PROVE TerminalInv'
    BY <1>1, <1>8 DEF DisconnectTerminal
  <1> QED BY <1>3, <1>4, <1>5, <1>6, <1>7, <1>8, TakeJobKeeps, MarketKeeps, OtherKeeps
          DEF TerminalNext

\* What is promised follows.
LEMMA TerminalKept == TerminalInv => OneOrderOneDeal
  BY DEF TerminalInv, OrderIsClear, OneOrderOneDeal

-----------------------------------------------------------------------------
(* Secrets of a broker.                                                    *)

\* The password that is stored came with the setting that is stored.
SessionsInv ==
    /\ vault = [password |-> vault.password, enabled |-> vault.enabled]
    /\ vault.password # 0 /\ vault.enabled => vault.password \in allowed
    /\ handedTo \subseteq allowed

\* The invariant holds at the start.
LEMMA InitSessions == SessionsInit => SessionsInv
  BY DEF SessionsInit, SessionsInv

\* Every step keeps it.
LEMMA NextSessions == SessionsInv /\ [SessionsNext]_sessionVars => SessionsInv'
  <1> SUFFICES ASSUME SessionsInv, [SessionsNext]_sessionVars PROVE SessionsInv'
    OBVIOUS
  <1>1. Handed \subseteq allowed
    BY DEF Handed, ShowsSecrets, SessionsInv
  <1>2. ASSUME UNCHANGED <<vault, allowed>>, handedTo' \in {handedTo, Handed} PROVE SessionsInv'
    BY <1>1, <1>2 DEF SessionsInv
  <1>3. ASSUME NEW r \in Requests, NEW enabled \in BOOLEAN, SaveCredentials(r, enabled) PROVE SessionsInv'
    <2>1. /\ vault' = [password |-> stored', enabled |-> enabled] /\ handedTo' = handedTo
          /\ allowed' = IF enabled THEN allowed \cup {stored'} ELSE allowed
      BY <1>3 DEF SaveCredentials
    <2> QED BY <2>1 DEF SessionsInv
  <1>4. ASSUME RotateCredentials PROVE SessionsInv'
    <2>1. /\ vault' = [vault EXCEPT !.password = stored'] /\ handedTo' = handedTo
          /\ allowed' = IF vault.enabled THEN allowed \cup {stored'} ELSE allowed
      BY <1>4 DEF RotateCredentials
    <2> QED BY <2>1 DEF SessionsInv
  <1>5. ASSUME DeleteCredentials PROVE SessionsInv'
    BY <1>5 DEF DeleteCredentials, SessionsInv
  <1>6. ASSUME NEW r \in Requests, PushCredentials(r) \/ ConnectAccount(r) \/ ConnectAgain(r) PROVE SessionsInv'
    BY <1>2, <1>6 DEF PushCredentials, ConnectAccount, ConnectAgain, BeginConnect
  <1>7. ASSUME NEW r \in Requests, NEW yes, NEW how,
               EndConnect(r, yes) \/ BeginDisconnect(r, how) \/ CloseAdapter(r, yes)
        PROVE  SessionsInv'
    BY <1>2, <1>7 DEF EndConnect, BeginDisconnect, CloseAdapter
  <1>8. CASE UNCHANGED sessionVars
    BY <1>2, <1>8 DEF sessionVars
  <1> QED BY <1>3, <1>4, <1>5, <1>6, <1>7, <1>8 DEF SessionsNext

\* What is promised follows.
LEMMA SessionsKept == SessionsInv => DisabledSecretsStay
  BY DEF SessionsInv, DisabledSecretsStay

-----------------------------------------------------------------------------
(* Positions mirrored in memory.                                           *)

\* The signals that are counted, and those whose release was noted without a record.
Counted == recorded \ released
Unrecorded == released \ recorded

MirrorOK ==
    /\ {priced, recorded, released, indexed, acked} \subseteq SUBSET MirrorSignals
    /\ recorded \subseteq priced /\ released \subseteq priced
    /\ priced \subseteq acked /\ indexed \subseteq acked
    /\ Counted = indexed \cap priced
    /\ tracked \in Nat

MirrorInv == MirrorOK /\ MirrorAddsUp

\* The risk of a signal.
LEMMA RiskOf == ASSUME NEW s \in MirrorSignals PROVE MirrorRisk[s] \in Nat
  BY MirrorAssumption

\* The risk of a set of signals.
LEMMA RiskType ==
    ASSUME NEW S, S \subseteq MirrorSignals PROVE IsFiniteSet(S) /\ RiskIn(S) \in Nat
  <1>1. IsFiniteSet(S)
    BY MirrorAssumption, FS_Subset
  <1>2. \A s \in S : MirrorRisk[s] \in Nat
    BY RiskOf
  <1>3. SumFunctionOnSet(MirrorRisk, S) \in Nat
    BY <1>1, <1>2, SumType
  <1> QED BY <1>1, <1>3 DEF RiskIn

\* One signal more adds its risk.
LEMMA RiskOfMore ==
    ASSUME NEW S, S \subseteq MirrorSignals, NEW s \in S
    PROVE  RiskIn(S) = MirrorRisk[s] + RiskIn(S \ {s})
  <1>1. IsFiniteSet(S)
    BY RiskType
  <1>2. \A x \in S : MirrorRisk[x] \in Int
    BY RiskOf
  <1>3. SumFunctionOnSet(MirrorRisk, S) = MirrorRisk[s] + SumFunctionOnSet(MirrorRisk, S \ {s})
    BY <1>1, <1>2, SumRemove
  <1> QED BY <1>3 DEF RiskIn

\* What is tracked and the two sums are numbers.
LEMMA RiskAddsUp ==
    ASSUME MirrorOK
    PROVE  /\ RiskIn(Counted) \in Nat /\ RiskIn(Unrecorded) \in Nat /\ tracked \in Nat
           /\ Counted \subseteq MirrorSignals /\ Unrecorded \subseteq MirrorSignals
  <1>1. Counted \subseteq MirrorSignals /\ Unrecorded \subseteq MirrorSignals /\ tracked \in Nat
    BY DEF MirrorOK, Counted, Unrecorded
  <1> QED BY <1>1, RiskType

\* The invariant holds at the start.
LEMMA InitMirror == MirrorInit => MirrorInv
  <1> SUFFICES ASSUME MirrorInit PROVE MirrorInv
    OBVIOUS
  <1>1. MirrorOK
    BY DEF MirrorInit, MirrorOK, Counted
  <1>2. recorded \ released = {} /\ released \ recorded = {} /\ tracked = 0
    BY DEF MirrorInit
  <1>3. RiskIn(recorded \ released) = 0 /\ RiskIn(released \ recorded) = 0
    BY <1>2, SumEmpty DEF RiskIn
  <1> QED BY <1>1, <1>2, <1>3 DEF MirrorInv, MirrorAddsUp

\* The books of the three sums: what is tracked T, counted C and released without a record U.
AddsUp(T, C, U) == T <= C /\ C - T <= U

\* A recorded position is tracked and counted.
LEMMA BothGrow ==
    ASSUME NEW T \in Nat, NEW C \in Nat, NEW U \in Nat, NEW x \in Nat, AddsUp(T, C, U)
    PROVE  AddsUp(T + x, x + C, U)
  BY DEF AddsUp

\* One that was counted is released.
LEMMA CountedGoes ==
    ASSUME NEW T \in Nat, NEW C \in Nat, NEW D \in Nat, NEW U \in Nat, NEW x \in Nat,
           C = x + D, AddsUp(T, C, U)
    PROVE  AddsUp(LessOrZero(T, x), D, U) /\ LessOrZero(T, x) \in Nat
  BY DEF AddsUp, LessOrZero

\* One that was not recorded is released.
LEMMA UnrecordedGoes ==
    ASSUME NEW T \in Nat, NEW C \in Nat, NEW U \in Nat, NEW x \in Nat, AddsUp(T, C, U)
    PROVE  AddsUp(LessOrZero(T, x), C, x + U) /\ LessOrZero(T, x) \in Nat
  BY DEF AddsUp, LessOrZero

\* What is promised, in numbers.
LEMMA AddsUpIs == MirrorAddsUp <=> AddsUp(tracked, RiskIn(Counted), RiskIn(Unrecorded))
  BY DEF MirrorAddsUp, AddsUp, Counted, Unrecorded

\* An acknowledgement gets here; it counts once, and with a ticket only.
LEMMA AckedKeeps ==
    ASSUME MirrorInv, NEW s \in MirrorSignals, NEW ticket \in BOOLEAN, NEW known \in BOOLEAN,
           MirrorAcked(s, ticket, known)
    PROVE  MirrorInv'
  <1>1. MirrorOK /\ AddsUp(tracked, RiskIn(Counted), RiskIn(Unrecorded))
    BY AddsUpIs DEF MirrorInv
  <1>2. s \notin priced /\ s \notin recorded /\ s \notin released /\ s \notin indexed /\ s \notin acked
    BY <1>1 DEF MirrorAcked, MirrorOK
  <1>3. /\ acked' = acked \cup {s} /\ released' = released
        /\ priced' = IF known THEN priced \cup {s} ELSE priced
        /\ indexed' = IF ticket THEN indexed \cup {s} ELSE indexed
    BY DEF MirrorAcked
  <1>4. CASE ticket /\ known
    <2>1. recorded' = recorded \cup {s} /\ tracked' = tracked + MirrorRisk[s]
      BY <1>4 DEF MirrorAcked
    <2>2. tracked' \in Nat
      BY <1>1, <2>1, RiskOf DEF MirrorOK
    <2>3. MirrorOK'
      BY <1>1, <1>2, <1>3, <1>4, <2>1, <2>2 DEF MirrorOK, Counted
    <2>4. Counted' = Counted \cup {s} /\ Unrecorded' = Unrecorded /\ s \in Counted'
          /\ Counted' \ {s} = Counted
      BY <1>2, <1>3, <2>1 DEF Counted, Unrecorded
    <2>5. Counted' \subseteq MirrorSignals
      BY <1>1, <2>4, RiskAddsUp
    <2>6. RiskIn(Counted') = MirrorRisk[s] + RiskIn(Counted)
      BY <2>4, <2>5, RiskOfMore
    <2>7. AddsUp(tracked + MirrorRisk[s], MirrorRisk[s] + RiskIn(Counted), RiskIn(Unrecorded))
      BY <1>1, BothGrow, RiskAddsUp, RiskOf
    <2> QED BY <2>1, <2>3, <2>4, <2>6, <2>7 DEF MirrorInv, MirrorAddsUp, AddsUp, Counted, Unrecorded
  <1>5. CASE ~(ticket /\ known)
    <2>1. recorded' = recorded /\ tracked' = tracked
      BY <1>5 DEF MirrorAcked
    <2>2. MirrorOK'
      BY <1>1, <1>2, <1>3, <1>5, <2>1 DEF MirrorOK, Counted
    <2> QED BY <1>3, <2>1, <2>2 DEF MirrorInv, MirrorAddsUp
  <1> QED BY <1>4, <1>5

\* A close gets here; it releases once.
LEMMA ClosedKeeps ==
    ASSUME MirrorInv, NEW s \in MirrorSignals, NEW named \in BOOLEAN, MirrorClosed(s, named)
    PROVE  MirrorInv'
  <1>1. MirrorOK /\ AddsUp(tracked, RiskIn(Counted), RiskIn(Unrecorded))
    BY AddsUpIs DEF MirrorInv
  <1>2. /\ s \notin released /\ s \in priced /\ released' = released \cup {s}
        /\ indexed' = indexed \ {s} /\ tracked' = LessOrZero(tracked, MirrorRisk[s])
        /\ UNCHANGED <<priced, recorded, acked>>
    BY DEF MirrorClosed
  <1>3. /\ RiskIn(Counted) \in Nat /\ RiskIn(Unrecorded) \in Nat /\ tracked \in Nat
        /\ MirrorRisk[s] \in Nat
        /\ Counted \subseteq MirrorSignals /\ Unrecorded \subseteq MirrorSignals
    BY <1>1, RiskAddsUp, RiskOf
  <1>4. CASE s \in recorded
    <2>1. /\ s \in Counted /\ Counted' = Counted \ {s} /\ Unrecorded' = Unrecorded
      BY <1>2, <1>4 DEF Counted, Unrecorded
    <2>2. RiskIn(Counted) = MirrorRisk[s] + RiskIn(Counted \ {s})
      BY <1>3, <2>1, RiskOfMore
    <2>3. RiskIn(Counted \ {s}) \in Nat
      BY <1>3, RiskType
    <2>4. /\ AddsUp(LessOrZero(tracked, MirrorRisk[s]), RiskIn(Counted \ {s}), RiskIn(Unrecorded))
          /\ LessOrZero(tracked, MirrorRisk[s]) \in Nat
      BY <1>1, <1>3, <2>2, <2>3, CountedGoes
    <2>5. MirrorOK'
      BY <1>1, <1>2, <2>4 DEF MirrorOK, Counted
    <2> QED BY <1>2, <2>1, <2>4, <2>5 DEF MirrorInv, MirrorAddsUp, AddsUp, Counted, Unrecorded
  <1>5. CASE s \notin recorded
    <2>1. /\ Counted' = Counted /\ s \in Unrecorded' /\ Unrecorded' \ {s} = Unrecorded
          /\ Unrecorded' \subseteq MirrorSignals
      BY <1>2, <1>3, <1>5 DEF Counted, Unrecorded
    <2>2. RiskIn(Unrecorded') = MirrorRisk[s] + RiskIn(Unrecorded)
      BY <2>1, RiskOfMore
    <2>3. /\ AddsUp(LessOrZero(tracked, MirrorRisk[s]), RiskIn(Counted),
                    MirrorRisk[s] + RiskIn(Unrecorded))
          /\ LessOrZero(tracked, MirrorRisk[s]) \in Nat
      BY <1>1, <1>3, UnrecordedGoes
    <2>4. MirrorOK'
      BY <1>1, <1>2, <2>1, <2>3 DEF MirrorOK, Counted
    <2> QED BY <1>2, <2>1, <2>2, <2>3, <2>4 DEF MirrorInv, MirrorAddsUp, AddsUp, Counted, Unrecorded
  <1> QED BY <1>4, <1>5

\* Positions are reconciled, with those that a poll listed.
LEMMA ReconciledKeeps ==
    ASSUME MirrorInv, NEW positions \in SUBSET MirrorSignals, MirrorReconciled(positions)
    PROVE  MirrorInv'
  <1>1. MirrorOK
    BY DEF MirrorInv
  <1>2. /\ released' = released \cup ReleasedBy(positions)
        /\ indexed' = indexed \ Stale(positions)
        /\ tracked' = RiskIn(indexed \cap positions \cap priced)
        /\ UNCHANGED <<priced, recorded, acked>>
    BY DEF MirrorReconciled
  <1>3. Counted' = indexed \cap positions \cap priced /\ Counted' = indexed' \cap priced'
    BY <1>1, <1>2 DEF MirrorOK, Counted, ReleasedBy, Stale
  <1>4. Counted' \subseteq MirrorSignals /\ Unrecorded' \subseteq MirrorSignals
    BY <1>1, <1>2 DEF MirrorOK, Counted, Unrecorded, ReleasedBy, Stale
  <1>5. RiskIn(Counted') \in Nat /\ RiskIn(Unrecorded') \in Nat
    BY <1>4, RiskType
  <1>6. tracked' = RiskIn(Counted')
    BY <1>2, <1>3
  <1>7. /\ {priced', recorded', released', indexed', acked'} \subseteq SUBSET MirrorSignals
        /\ recorded' \subseteq priced' /\ released' \subseteq priced'
        /\ priced' \subseteq acked' /\ indexed' \subseteq acked'
    BY <1>1, <1>2 DEF MirrorOK, ReleasedBy, Stale
  <1>8. MirrorOK'
    BY <1>3, <1>5, <1>6, <1>7 DEF MirrorOK
  <1>9. AddsUp(RiskIn(Counted'), RiskIn(Counted'), RiskIn(Unrecorded'))
    BY <1>5 DEF AddsUp
  <1> QED BY <1>6, <1>8, <1>9 DEF MirrorInv, MirrorAddsUp, AddsUp, Counted, Unrecorded

\* The server starts anew, with nothing tracked.
LEMMA LostKeeps == ASSUME MirrorInv, MirrorIsLost PROVE MirrorInv'
  <1>1. /\ priced' = {} /\ recorded' = {} /\ released' = {} /\ indexed' = {}
        /\ tracked' = 0 /\ acked' = acked
    BY DEF MirrorIsLost
  <1>2. MirrorOK'
    BY <1>1 DEF MirrorInv, MirrorOK, Counted
  <1>3. RiskIn(recorded' \ released') = 0 /\ RiskIn(released' \ recorded') = 0
    BY <1>1, SumEmpty DEF RiskIn
  <1> QED BY <1>1, <1>2, <1>3 DEF MirrorInv, MirrorAddsUp

\* Every step keeps it.
LEMMA NextMirror == MirrorInv /\ [MirrorNext]_mirrorVars => MirrorInv'
  <1> SUFFICES ASSUME MirrorInv, [MirrorNext]_mirrorVars PROVE MirrorInv'
    OBVIOUS
  <1>1. ASSUME UNCHANGED <<priced, recorded, released, indexed, tracked, acked>> PROVE MirrorInv'
    BY <1>1 DEF MirrorInv, MirrorOK, MirrorAddsUp, Counted
  <1>2. CASE UNCHANGED mirrorVars
    BY <1>1, <1>2 DEF mirrorVars
  <1>3. ASSUME NEW s, PositionMoves(s) PROVE MirrorInv'
    BY <1>1, <1>3 DEF PositionMoves
  <1> QED BY <1>2, <1>3, AckedKeeps, ClosedKeeps, ReconciledKeeps, LostKeeps DEF MirrorNext

-----------------------------------------------------------------------------
(* Slaves of the copier.                                                   *)

\* Requests that have counted the slaves and not inserted theirs.
AddingOne == { r \in Requests : copying[r].at = "add" }

CopierOK ==
    /\ tier \in Nat /\ widest \in Nat /\ tier <= widest
    /\ adding \in Nat
    /\ slave \in [SlaveIds -> SlaveRow]
    /\ DOMAIN copying = Requests /\ copying = [r \in Requests |-> copying[r]]
    /\ IsFiniteSet(Slaves)
    /\ IsFiniteSet(AddingOne) /\ Cardinality(AddingOne) <= adding

\* What the tier allowed, and what requests that overlapped may add to it.
Allowed == widest + AtLeast(adding, 1) - 1

SlavesHaveRoom == Cardinality(Slaves) + Cardinality(AddingOne) <= Allowed

CopierInv == CopierOK /\ SlavesHaveRoom

\* Slaves and requests are finitely many.
LEMMA CopierCounts ==
    ASSUME CopierOK
    PROVE  /\ Cardinality(Slaves) \in Nat /\ Cardinality(AddingOne) \in Nat
           /\ adding \in Nat /\ widest \in Nat
  BY FS_CardinalityType DEF CopierOK

\* The invariant holds at the start.
LEMMA InitCopier == CopierInit => CopierInv
  <1> SUFFICES ASSUME CopierInit PROVE CopierInv
    OBVIOUS
  <1>1. Slaves = {} /\ AddingOne = {}
    BY DEF Slaves, AddingOne, CopierInit, NotCopying
  <1>2. /\ IsFiniteSet(Slaves) /\ IsFiniteSet(AddingOne)
        /\ Cardinality(Slaves) = 0 /\ Cardinality(AddingOne) = 0
    BY <1>1, FS_EmptySet
  <1>3. CopierOK
    BY <1>2 DEF CopierOK, CopierInit, SlaveRow
  <1>4. Allowed = 0
    BY DEF Allowed, AtLeast, CopierInit
  <1> QED BY <1>2, <1>3, <1>4 DEF CopierInv, SlavesHaveRoom

\* Nobody counts or inserts: no slave more, no request more.
LEMMA FewerSlavesKeep ==
    ASSUME CopierInv, Slaves' \subseteq Slaves, AddingOne' \subseteq AddingOne,
           slave' \in [SlaveIds -> SlaveRow], DOMAIN copying' = Requests,
           copying' = [r \in Requests |-> copying'[r]],
           tier' \in Nat, widest' \in Nat, tier' <= widest', widest <= widest', adding' = adding
    PROVE  CopierInv'
  <1>1. CopierOK
    BY DEF CopierInv
  <1>2. /\ IsFiniteSet(Slaves) /\ IsFiniteSet(AddingOne)
        /\ Cardinality(AddingOne) <= adding /\ adding \in Nat /\ widest \in Nat
    BY <1>1 DEF CopierOK
  <1>3. IsFiniteSet(Slaves') /\ Cardinality(Slaves') <= Cardinality(Slaves)
    BY <1>2, FS_Subset
  <1>4. IsFiniteSet(AddingOne') /\ Cardinality(AddingOne') <= Cardinality(AddingOne)
    BY <1>2, FS_Subset
  <1>5. /\ Cardinality(Slaves) \in Nat /\ Cardinality(Slaves') \in Nat
        /\ Cardinality(AddingOne) \in Nat /\ Cardinality(AddingOne') \in Nat
    BY <1>2, <1>3, <1>4, FS_CardinalityType
  <1>6. Cardinality(AddingOne') <= adding'
    BY <1>2, <1>4, <1>5
  <1>7. CopierOK'
    BY <1>2, <1>3, <1>4, <1>6 DEF CopierOK
  <1>8. Allowed \in Int /\ Allowed' \in Int /\ Allowed <= Allowed'
    BY <1>2 DEF Allowed, AtLeast
  <1>9. Cardinality(Slaves) + Cardinality(AddingOne) <= Allowed
    BY DEF CopierInv, SlavesHaveRoom
  <1>10. SlavesHaveRoom'
    BY <1>3, <1>4, <1>5, <1>8, <1>9 DEF SlavesHaveRoom
  <1> QED BY <1>7, <1>10 DEF CopierInv

\* Where a request of the copier is.
LEMMA CopierIsAt ==
    ASSUME CopierInv, NEW r \in Requests, NEW at, NEW left, CopierIs(r, at, left)
    PROVE  /\ DOMAIN copying' = Requests /\ copying' = [q \in Requests |-> copying'[q]]
           /\ \A q \in Requests : copying'[q].at = IF q = r THEN at ELSE copying[q].at
  BY DEF CopierIs, CopierInv, CopierOK

\* Counting: what one request adds is within what overlapping ones may.
LEMMA AddedRoom ==
    ASSUME NEW a \in Int, NEW b \in Int, NEW w \in Int, NEW d \in Int, NEW m \in Int,
           a <= w - 1, b <= d, w + d - 1 <= m
    PROVE  a + b <= m
  OBVIOUS

\* A request counts the slaves and finds room.
LEMMA CountKeeps ==
    ASSUME CopierInv, NEW r \in Requests, CountSlaves(r) PROVE CopierInv'
  <1>1. /\ copying[r].at = "idle" /\ tier > 0 /\ Cardinality(Slaves) < tier
        /\ CopierIs(r, "add", << >>)
        /\ adding' = AtLeast(Cardinality({ q \in Requests : copying'[q].at = "add" }), adding)
        /\ UNCHANGED <<tier, slave, widest>>
    BY DEF CountSlaves, HasRoom
  <1>2. /\ DOMAIN copying' = Requests /\ copying' = [q \in Requests |-> copying'[q]]
        /\ \A q \in Requests : copying'[q].at = IF q = r THEN "add" ELSE copying[q].at
    BY <1>1, CopierIsAt
  <1>3. AddingOne' = AddingOne \cup {r} /\ { q \in Requests : copying'[q].at = "add" } = AddingOne'
    BY <1>2 DEF AddingOne
  <1>4. CopierOK
    BY DEF CopierInv
  <1>5. IsFiniteSet(AddingOne \cup {r})
    BY <1>4, FS_AddElement DEF CopierOK
  <1>6. IsFiniteSet(AddingOne') /\ Cardinality(AddingOne') \in Nat
    BY <1>3, <1>5, FS_CardinalityType
  <1>7. adding' = AtLeast(Cardinality(AddingOne'), adding) /\ adding \in Nat
    BY <1>1, <1>3, <1>4 DEF CopierOK
  <1>8. adding' \in Nat /\ Cardinality(AddingOne') <= adding'
    BY <1>6, <1>7 DEF AtLeast
  <1>9. Slaves' = Slaves
    BY <1>1 DEF Slaves
  <1>10. CopierOK'
    BY <1>1, <1>2, <1>4, <1>6, <1>8, <1>9 DEF CopierOK
  <1>11. Cardinality(Slaves) \in Nat /\ tier \in Nat /\ widest \in Nat /\ tier <= widest
    BY <1>4, CopierCounts DEF CopierOK
  <1>12. Cardinality(Slaves) <= widest - 1
    BY <1>1, <1>11
  <1>13. Allowed' \in Int /\ widest + adding' - 1 <= Allowed'
    BY <1>1, <1>8, <1>11 DEF Allowed, AtLeast
  <1>14. Cardinality(Slaves') = Cardinality(Slaves)
    BY <1>9
  <1> DEFINE one == Cardinality(Slaves')
             two == Cardinality(AddingOne')
             most == Allowed'
  <1>15. /\ one <= widest - 1 /\ two <= adding' /\ widest + adding' - 1 <= most
         /\ one \in Nat /\ two \in Nat /\ most \in Int /\ adding' \in Nat /\ widest \in Nat
    BY <1>6, <1>8, <1>11, <1>12, <1>13, <1>14
  <1>16. SlavesHaveRoom' = (one + two <= most)
    BY DEF SlavesHaveRoom
  <1> HIDE DEF one, two, most
  <1>17. one + two <= most
    <2>1. /\ one \in Int /\ two \in Int /\ widest \in Int /\ adding' \in Int /\ most \in Int
      BY <1>15
    <2>2. one <= widest - 1 /\ two <= adding' /\ widest + adding' - 1 <= most
      BY <1>15
    <2> QED BY ONLY <2>1, <2>2, AddedRoom
  <1> QED BY <1>10, <1>16, <1>17 DEF CopierInv

\* A request inserts its slave.
LEMMA InsertSlaveKeeps ==
    ASSUME CopierInv, NEW r \in Requests, InsertSlave(r) PROVE CopierInv'
  <1>0. PICK s \in SlaveIds : slave[s] = "unused" /\ slave' = [slave EXCEPT ![s] = "enabled"]
    BY DEF InsertSlave
  <1>1. /\ copying[r].at = "add" /\ CopierIs(r, "idle", << >>)
        /\ UNCHANGED <<tier, widest, adding>>
    BY DEF InsertSlave
  <1>2. /\ DOMAIN copying' = Requests /\ copying' = [q \in Requests |-> copying'[q]]
        /\ \A q \in Requests : copying'[q].at = IF q = r THEN "idle" ELSE copying[q].at
    BY <1>1, CopierIsAt
  <1>3. AddingOne' = AddingOne \ {r} /\ r \in AddingOne
    BY <1>1, <1>2 DEF AddingOne
  <1>4. CopierOK
    BY DEF CopierInv
  <1>5. slave' \in [SlaveIds -> SlaveRow] /\ Slaves' = Slaves \cup {s} /\ s \notin Slaves
    BY <1>0, <1>4 DEF CopierOK, Slaves, SlaveRow
  <1>6. IsFiniteSet(Slaves \cup {s}) /\ Cardinality(Slaves \cup {s}) = Cardinality(Slaves) + 1
    BY <1>4, <1>5, FS_AddElement DEF CopierOK
  <1>7. /\ IsFiniteSet(AddingOne \ {r})
        /\ Cardinality(AddingOne \ {r}) = Cardinality(AddingOne) - 1
    BY <1>3, <1>4, FS_RemoveElement DEF CopierOK
  <1>8. Cardinality(Slaves) \in Nat /\ Cardinality(AddingOne) \in Nat
    BY <1>4, CopierCounts
  <1>9. /\ IsFiniteSet(Slaves') /\ Cardinality(Slaves') = Cardinality(Slaves) + 1
        /\ IsFiniteSet(AddingOne') /\ Cardinality(AddingOne') = Cardinality(AddingOne) - 1
    BY <1>3, <1>5, <1>6, <1>7
  <1>10. Cardinality(AddingOne) <= adding /\ adding \in Nat
    BY <1>4 DEF CopierOK
  <1>11. Cardinality(AddingOne') <= adding'
    BY <1>1, <1>8, <1>9, <1>10
  <1>12. CopierOK'
    BY <1>1, <1>2, <1>4, <1>5, <1>9, <1>11 DEF CopierOK
  <1>13. Allowed' = Allowed /\ Allowed \in Int
    BY <1>1, <1>4 DEF Allowed, AtLeast, CopierOK
  <1>14. Cardinality(Slaves) + Cardinality(AddingOne) <= Allowed
    BY DEF CopierInv, SlavesHaveRoom
  <1>15. SlavesHaveRoom'
    BY <1>8, <1>9, <1>13, <1>14 DEF SlavesHaveRoom
  <1> QED BY <1>12, <1>15 DEF CopierInv

\* Every step keeps it.
LEMMA NextCopier == CopierInv /\ [CopierNext]_copierVars => CopierInv'
  <1> SUFFICES ASSUME CopierInv, [CopierNext]_copierVars PROVE CopierInv'
    OBVIOUS
  <1>0. /\ slave \in [SlaveIds -> SlaveRow] /\ DOMAIN copying = Requests
        /\ copying = [r \in Requests |-> copying[r]]
        /\ tier \in Nat /\ widest \in Nat /\ tier <= widest
    BY DEF CopierInv, CopierOK
  <1>1. ASSUME NEW max \in SlaveTiers, ActivateCopier(max) PROVE CopierInv'
    <2>1. max \in Nat /\ tier' = max /\ widest' = AtLeast(max, widest) /\ UNCHANGED <<slave, copying, adding>>
      BY <1>1, CopierAssumption DEF ActivateCopier
    <2>2. Slaves' = Slaves /\ AddingOne' = AddingOne
      BY <2>1 DEF Slaves, AddingOne
    <2>3. widest' \in Nat /\ tier' <= widest' /\ widest <= widest'
      BY <1>0, <2>1 DEF AtLeast
    <2> QED BY <1>0, <2>1, <2>2, <2>3, FewerSlavesKeep
  <1>2. ASSUME NEW s \in SlaveIds, NEW row \in {"enabled", "disabled", "removed"}, s \in Slaves,
               slave' = [slave EXCEPT ![s] = row], UNCHANGED <<tier, copying, widest, adding>>
        PROVE  CopierInv'
    <2>1. Slaves' \subseteq Slaves /\ slave' \in [SlaveIds -> SlaveRow] /\ AddingOne' = AddingOne
      BY <1>0, <1>2 DEF Slaves, SlaveRow, AddingOne
    <2> QED BY <1>0, <1>2, <2>1, FewerSlavesKeep
  <1>3. ASSUME NEW s \in SlaveIds, NEW enabled \in BOOLEAN, RemoveSlave(s) \/ ToggleSlave(s, enabled)
        PROVE  CopierInv'
    BY <1>2, <1>3 DEF RemoveSlave, ToggleSlave
  <1>4. ASSUME NEW r \in Requests, NEW at, NEW left, at # "add", CopierIs(r, at, left),
               UNCHANGED <<tier, slave, widest, adding>>
        PROVE  CopierInv'
    <2>1. /\ DOMAIN copying' = Requests /\ copying' = [q \in Requests |-> copying'[q]]
          /\ \A q \in Requests : copying'[q].at = IF q = r THEN at ELSE copying[q].at
      BY <1>4, CopierIsAt
    <2>2. Slaves' = Slaves /\ AddingOne' \subseteq AddingOne
      BY <1>4, <2>1 DEF Slaves, AddingOne
    <2> QED BY <1>0, <1>4, <2>1, <2>2, FewerSlavesKeep
  <1>5. ASSUME NEW r \in Requests, BeginMirror(r) \/ CopyReturns(r) \/ EndMirror(r) PROVE CopierInv'
    BY <1>4, <1>5 DEF BeginMirror, CopyReturns, EndMirror
  <1>6. ASSUME NEW r \in Requests, NEW running \in BOOLEAN, LookForWorker(r, running) PROVE CopierInv'
    BY <1>4, <1>6 DEF LookForWorker
  <1>7. CASE UNCHANGED copierVars
    <2>1. Slaves' = Slaves /\ AddingOne' = AddingOne
      BY <1>7 DEF Slaves, AddingOne, copierVars
    <2> QED BY <1>0, <1>7, <2>1, FewerSlavesKeep DEF copierVars
  <1> QED BY <1>1, <1>3, <1>5, <1>6, <1>7, CountKeeps, InsertSlaveKeeps DEF CopierNext

\* What is promised follows.
LEMMA CopierKept == CopierInv => SlavesStayWithinTier
  <1> SUFFICES ASSUME CopierInv PROVE SlavesStayWithinTier
    OBVIOUS
  <1>1. Cardinality(Slaves) \in Nat /\ Cardinality(AddingOne) \in Nat /\ Allowed \in Int
    BY CopierCounts DEF CopierInv, Allowed, AtLeast
  <1>2. Cardinality(Slaves) + Cardinality(AddingOne) <= Allowed
    BY DEF CopierInv, SlavesHaveRoom
  <1>3. Cardinality(Slaves) <= Allowed
    BY <1>1, <1>2
  <1> QED BY <1>3 DEF SlavesStayWithinTier, Allowed

-----------------------------------------------------------------------------
(* What holds of every behaviour of the services.                          *)

\* The services keep what they promise side by side; each is untouched by the others.
PlatformInv == /\ IdentityInv /\ KeysInv /\ DemoInv /\ RoutingInv /\ ChatInv /\ NoticesInv
               /\ ScreenInv /\ RuleInv /\ EngineInv /\ ShortInv
               /\ TerminalInv /\ SessionsInv /\ MirrorInv /\ CopierInv

\* It holds at the start, whichever service is followed.
LEMMA InitPlatform == PlatformInit => PlatformInv
  BY InitIdentity, InitKeys, InitDemo, InitRouting, InitChat, InitNotices, InitScreen, InitRule,
     InitEngine, InitShort, InitTerminal, InitSessions, InitMirror, InitCopier DEF PlatformInit, PlatformInv

\* A step of the platform is one of some service and leaves the others alone.
LEMMA StepOfAService ==
    ASSUME [PlatformNext]_platformVars
    PROVE  /\ [IdentityNext]_userVars /\ [KeysNext]_keyVars /\ [DemoNext]_demoVars
           /\ [RoutingNext]_routingVars /\ [ChatNext]_chatVars /\ [NoticesNext]_noticeVars
           /\ [ScreenNext]_screenVars /\ [ShowFrame]_ruleVars /\ [EngineNext]_engineVars
           /\ [ShortNext]_shortVars
           /\ [TerminalNext]_terminalVars /\ [SessionsNext]_sessionVars /\ [MirrorNext]_mirrorVars
           /\ [CopierNext]_copierVars
  <1>1. CASE UsersAreServed
    BY ONLY <1>1 DEF UsersAreServed
  <1>2. CASE WordsAreServed
    BY ONLY <1>2 DEF WordsAreServed
  <1>3. CASE ChartsAreServed
    BY ONLY <1>3 DEF ChartsAreServed
  <1>4. CASE PairsAreServed
    BY ONLY <1>4 DEF PairsAreServed
  <1>5. CASE TradesAreServed
    BY ONLY <1>5 DEF TradesAreServed
  <1>6. CASE UNCHANGED platformVars
    BY ONLY <1>6 DEF platformVars
  <1> QED BY <1>1, <1>2, <1>3, <1>4, <1>5, <1>6 DEF PlatformNext

\* Every step of a service keeps its part of the invariant.
LEMMA NextPlatform == PlatformInv /\ [PlatformNext]_platformVars => PlatformInv'
  BY StepOfAService, NextIdentity, NextKeys, NextDemo, NextRouting, NextChat, NextNotices, NextScreen,
     NextRule, NextEngine, NextShort, NextTerminal, NextSessions, NextMirror, NextCopier DEF PlatformInv

\* The inductive invariant holds whatever service a behaviour follows.
THEOREM PlatformInvariant == PlatformSpec => []PlatformInv
  BY InitPlatform, NextPlatform, PTL DEF PlatformSpec

\* A new password ends the sessions of the old one: as many remain at most as logins
\* overlapped the change, however logins, resets and log-outs are interleaved.
THEOREM OldPasswordsAreEnded == PlatformSpec => []OldPasswordsEnd
  <1>1. PlatformInv => OldPasswordsEnd
    BY IdentityKept DEF PlatformInv
  <1> QED BY <1>1, PlatformInvariant, PTL

\* The second factor is asked for only with a secret whose code the user has given, unless
\* two requests about it overlapped.
THEOREM FactorsAreConfirmed == PlatformSpec => []FactorIsConfirmed
  <1>1. PlatformInv => FactorIsConfirmed
    BY IdentityKept DEF PlatformInv
  <1> QED BY <1>1, PlatformInvariant, PTL

\* A key that a rotation revoked has a replacement that was issued after it, wherever the
\* rotation stopped, and as many keys of the portal work at most as requests overlapped.
THEOREM RotatedKeysAreReplaced == PlatformSpec => []KeysAreReplaced
  <1>1. PlatformInv => KeysAreReplaced
    BY KeysKept DEF PlatformInv
  <1> QED BY <1>1, PlatformInvariant, PTL

\* A demo that is signed up for does not take a plan away that was paid for meanwhile.
THEOREM PaidPlansAreKept == PlatformSpec => []PaidPlansStay
  <1>1. PlatformInv => PaidPlansStay
    BY DEF PlatformInv, DemoInv
  <1> QED BY <1>1, PlatformInvariant, PTL

\* With any instrument table, a pair whose signal an executor got is one that the router sends
\* an analysis on for, or refuses for want of a rulebook and for nothing else.
THEOREM ExecutorsGetRoutedPairs == PlatformSpec => []HandedPairsAreRouted
  <1>1. PlatformInv => HandedPairsAreRouted
    BY HandedIsRouted DEF PlatformInv
  <1> QED BY <1>1, PlatformInvariant, PTL

\* A client that pages on from the last message it has misses none but those that committed
\* after a later one, however posts, roll-backs and removals are interleaved with its pages.
THEOREM PagesMissNothing == PlatformSpec => []ReadersMissNothing
  <1>1. PlatformInv => ReadersMissNothing
    BY ChatKept DEF PlatformInv
  <1> QED BY <1>1, PlatformInvariant, PTL

\* Two accounts have one thread whoever opens it, and no two have the same display name,
\* however the requests that look before they write overlap.
THEOREM PeersShareOneThread == PlatformSpec => []ThreadsAreShared
  <1>1. PlatformInv => ThreadsAreShared
    BY ChatKept DEF PlatformInv
  <1> QED BY <1>1, PlatformInvariant, PTL

\* A reminder that a period is about to end is announced once, and again only as often as
\* a scan or a mark was lost; and what is marked as sent is in the inbox.
THEOREM RemindersAreCounted == PlatformSpec => []RemindersAreKept
  <1>1. PlatformInv => RemindersAreKept
    BY RemindersCount DEF PlatformInv
  <1> QED BY <1>1, PlatformInvariant, PTL

\* The history of a screen has its newest frames, whatever order they arrive and are added in.
THEOREM HistoryHasTheNewest == PlatformSpec => []NewestFramesAreKept
  <1>1. PlatformInv => NewestFramesAreKept
    BY ScreenKept DEF PlatformInv
  <1> QED BY <1>1, PlatformInvariant, PTL

\* A screen is a candidate only as a complete capture, with bars from the terminal's stream.
THEOREM CandidatesHaveAllFrames == PlatformSpec => []CandidatesAreSynchronized
  <1>1. PlatformInv => CandidatesAreSynchronized
    BY ScreenKept DEF PlatformInv
  <1> QED BY <1>1, PlatformInvariant, PTL

\* On charts where no value lies exactly on a line, the rules that sell are those that buy on
\* the chart turned upside down, the one that is named and the conflicts included.
THEOREM SellingIsBuyingTurned == OffTheLines => (PlatformSpec => []SellingMirrorsBuying)
  <1> SUFFICES ASSUME OffTheLines PROVE PlatformSpec => []SellingMirrorsBuying
    OBVIOUS
  <1>1. PlatformInv => SellingMirrorsBuying
    BY RuleSafety DEF PlatformInv
  <1> QED BY <1>1, PlatformInvariant, PTL

\* Bar by bar, until its data end, the live position does what the frozen simulator did.
THEOREM LiveShortIsSimulated == PlatformSpec => []LiveFollowsSimulation
  <1>1. PlatformInv => LiveFollowsSimulation
    BY ShortKept DEF PlatformInv
  <1> QED BY <1>1, PlatformInvariant, PTL

\* However a short position ends, it has lost its initial risk at most, and nothing once a
\* close was a whole risk ahead.
THEOREM StopsBoundTheLoss == PlatformSpec => []LossesAreBounded
  <1>1. PlatformInv => LossesAreBounded
    BY ShortKept DEF PlatformInv
  <1> QED BY <1>1, PlatformInvariant, PTL

\* An evaluation hands over to the fallback engine only after FailureThreshold failures in a
\* row, with no success between them.
THEOREM EnginesTripInARow == PlatformSpec => TripsOnlyInARow
  <1>1. PlatformInv /\ PlatformInv' /\ [PlatformNext]_platformVars =>
          [active = "primary" /\ active' = "fallback" /\ answer' # "none" =>
              /\ Len(record') = FailureThreshold
              /\ \A i \in DOMAIN record' : ~record'[i]]_engineVars
    BY StepOfAService, TripsInARow DEF PlatformInv, EngineTrips, TripIsInARow
  <1> QED BY <1>1, PlatformInvariant, PTL DEF PlatformSpec, TripsOnlyInARow

\* However many filling modes are tried, the broker gets one order more than attempts went
\* without any answer, at most, and what the client is told is true unless an attempt had no
\* answer or one that leaves its outcome open.
THEOREM OrdersAreDealtOnce == PlatformSpec => []OneOrderOneDeal
  <1>1. PlatformInv => OneOrderOneDeal
    BY TerminalKept DEF PlatformInv
  <1> QED BY <1>1, PlatformInvariant, PTL

\* A password that was stored with execution disabled goes to no worker and no adapter,
\* whatever requests store, rotate or delete in between.
THEOREM DisabledSecretsAreUnused == PlatformSpec => []DisabledSecretsStay
  <1>1. PlatformInv => DisabledSecretsStay
    BY SessionsKept DEF PlatformInv
  <1> QED BY <1>1, PlatformInvariant, PTL

\* The risk that the mirror tracks is that of the signals recorded and not released, and is
\* short of it by no more than the risk of positions that were released unrecorded.
THEOREM MirroredRiskAddsUp == PlatformSpec => []MirrorAddsUp
  <1>1. PlatformInv => MirrorAddsUp
    BY DEF PlatformInv, MirrorInv
  <1> QED BY <1>1, PlatformInvariant, PTL

\* A customer has no more slaves than the widest tier they had allows, up to the requests
\* that overlapped.
THEOREM SlavesFitTheTier == PlatformSpec => []SlavesStayWithinTier
  <1>1. PlatformInv => SlavesStayWithinTier
    BY CopierKept DEF PlatformInv
  <1> QED BY <1>1, PlatformInvariant, PTL
=============================================================================
