------------------------ MODULE Subscription_proofs ------------------------
(***************************************************************************)
(* Proofs about Subscription, for any webhooks and any number of           *)
(* deliveries and browsers.  Most transactions change one part of the      *)
(* state, so a step is first described by what the credentials, the row    *)
(* and the revocations of an account see of it.                            *)
(***************************************************************************)
EXTENDS Subscription, TLAPS

-----------------------------------------------------------------------------
(* The inductive invariants. *)

Revoked(r) == r.status \in {"suspended", "canceled"}

\* Who still has to stop the worker after he has written the row.
Cutting == admin \in {"look", "stop"} \/ \E d \in Deliveries : dlv[d].at \in {"look", "ask", "stop"}

\* The sweep writes the row last, when there is no worker any more.
CutOffInv ==
    /\ IsRunning /\ Revoked(row) => slipped \/ Cutting
    /\ sweep = "mark" /\ IsRunning => slipped

\* Where the credentials of a first activation can be.
Shown(d) == \/ dlv[d].at \in {"issue", "record", "stash"}
            \/ pending = d
            \/ \E b \in Browsers : browser[b].got = d

\* Unless first activations overlapped, whoever has read the row has read the
\* token of the credentials that are shown, or has read it before there was one.
RevealInv ==
    /\ \A d \in Deliveries : Exists(dlv[d].seen) => Exists(row)
    /\ ~raced => \A d \in Deliveries : Shown(d) =>
          /\ Exists(row) /\ row.token = d
          /\ \A e \in Deliveries : Exists(dlv[e].seen) => dlv[e].seen.token = d

SubscriptionInv == TypeOK /\ CutOffInv /\ RevealInv

-----------------------------------------------------------------------------
(* Rows. *)

\* The columns of the empty row.
LEMMA NoRowFields == NoRow \in Row /\ ~Exists(NoRow) /\ ~Revoked(NoRow)
  BY DEF NoRow, Row, Tokens, Exists, Revoked

\* What an event that is no first activation makes of the row: it exists as before
\* or because it did when it was read, a payment makes it active, and its token is
\* the one it has or the one that was read.
LEMMA AppliedRow ==
    ASSUME NEW d \in Deliveries, row \in Row, dlv[d].seen \in Row, ~IsFirstActivation(d)
    PROVE  /\ Applied(d) \in Row
           /\ Exists(row) => Exists(Applied(d))
           /\ TypeOf(d) \notin {"FAILED", "CANCELED"} /\ ~Revoked(row) => ~Revoked(Applied(d))
           /\ \/ Applied(d).token = row.token
              \/ Exists(dlv[d].seen) /\ Applied(d).token = dlv[d].seen.token
              \/ Exists(dlv[d].seen) /\ dlv[d].seen.token = None
  <1> DEFINE seen == dlv[d].seen
             A == Applied(d)
  <1>1. CASE TypeOf(d) = "SUCCEEDED"
    <2>1. A = [status |-> "active", grace |-> "none",
               token |-> IF seen.token # None THEN seen.token ELSE d, billed |-> TRUE]
      BY <1>1 DEF Applied
    <2>2. Exists(seen)
      BY <1>1 DEF IsFirstActivation
    <2>3. A \in Row /\ A.status = "active" /\ A.token = IF seen.token # None THEN seen.token ELSE d
      BY <2>1 DEF Row, Tokens
    <2> HIDE DEF A
    <2> QED BY <1>1, <2>2, <2>3 DEF A, Exists, Revoked
  <1>2. CASE TypeOf(d) = "FAILED" /\ Exists(seen)
    <2>1. A = [row EXCEPT !.status = Written(seen.status, @, "past_due"), !.grace = "running"]
      BY <1>2 DEF Applied
    <2>2. A \in Row /\ A.token = row.token /\ A.status \in {row.status, "past_due"}
      BY <2>1 DEF Row, Written
    <2> HIDE DEF A
    <2> QED BY <1>2, <2>2 DEF A, Exists
  <1>3. CASE TypeOf(d) = "CANCELED" /\ Exists(seen)
    <2>1. A = [row EXCEPT !.status = Written(seen.status, @, "canceled")]
      BY <1>3 DEF Applied
    <2>2. A \in Row /\ A.token = row.token /\ A.status \in {row.status, "canceled"}
      BY <2>1 DEF Row, Written
    <2> HIDE DEF A
    <2> QED BY <1>3, <2>2 DEF A, Exists
  <1>4. CASE ~(TypeOf(d) = "SUCCEEDED") /\ ~(TypeOf(d) = "FAILED" /\ Exists(seen))
             /\ ~(TypeOf(d) = "CANCELED" /\ Exists(seen))
    <2>1. A = row
      BY <1>4 DEF Applied
    <2> QED BY <2>1
  <1> QED BY <1>1, <1>2, <1>3, <1>4

-----------------------------------------------------------------------------
(* Steps. *)

Delivery == [at : {"idle", "fresh", "read", "issue", "record", "stash",
                   "look", "ask", "stop", "done"}, seen : Row]

\* A webhook goes to another place and forgets what it has read.
LEMMA GotoStep ==
    ASSUME TypeOK, NEW d \in Deliveries, NEW place \in {"idle", "fresh", "read", "issue", "record",
             "stash", "look", "ask", "stop", "done"}, Goto(d, place)
    PROVE  /\ dlv' \in [Deliveries -> Delivery]
           /\ dlv'[d].at = place /\ dlv'[d].seen = NoRow
           /\ \A e \in Deliveries : e # d => dlv'[e] = dlv[e]
  <1>1. dlv \in [Deliveries -> Delivery]
    BY DEF TypeOK, Delivery
  <1> DEFINE new == [at |-> place, seen |-> NoRow]
  <1>2. new \in Delivery /\ new.at = place /\ new.seen = NoRow
    BY NoRowFields DEF Delivery
  <1>3. dlv' = [dlv EXCEPT ![d] = new]
    BY DEF Goto
  <1> HIDE DEF new
  <1> QED BY <1>1, <1>2, <1>3

\* Rows do not vanish, and as long as credentials are shown the row keeps its token:
\* such a step keeps RevealInv, if nobody shows credentials that were not shown
\* before and whoever reads the row reads it as it is.
LEMMA RevealKept ==
    ASSUME RevealInv, None \notin Deliveries,
           Exists(row) => Exists(row'), raced' = raced,
           ~raced /\ (\E d \in Deliveries : Shown(d)) => row'.token = row.token,
           \A d \in Deliveries : dlv'[d].seen \in {dlv[d].seen, NoRow, row},
           \A d \in Deliveries : Shown(d)' => Shown(d)
    PROVE  RevealInv'
  <1>1. ASSUME NEW d \in Deliveries, Exists(dlv'[d].seen)
        PROVE  Exists(row')
    <2>1. CASE dlv'[d].seen = dlv[d].seen
      BY <1>1, <2>1 DEF RevealInv
    <2>2. CASE dlv'[d].seen = NoRow
      BY <1>1, <2>2, NoRowFields
    <2>3. CASE dlv'[d].seen = row
      BY <1>1, <2>3
    <2> QED BY <2>1, <2>2, <2>3
  <1>2. ASSUME ~raced, NEW d \in Deliveries, Shown(d)'
        PROVE  /\ Exists(row') /\ row'.token = d
               /\ \A e \in Deliveries : Exists(dlv'[e].seen) => dlv'[e].seen.token = d
    <2>1. /\ Exists(row) /\ row.token = d
          /\ \A e \in Deliveries : Exists(dlv[e].seen) => dlv[e].seen.token = d
      BY <1>2 DEF RevealInv
    <2>2. row'.token = row.token
      BY <1>2
    <2>3. ASSUME NEW e \in Deliveries, Exists(dlv'[e].seen)
          PROVE  dlv'[e].seen.token = d
      <3>1. CASE dlv'[e].seen = dlv[e].seen
        BY <2>1, <2>3, <3>1
      <3>2. CASE dlv'[e].seen = NoRow
        BY <2>3, <3>2, NoRowFields
      <3>3. CASE dlv'[e].seen = row
        BY <2>1, <3>3
      <3> QED BY <3>1, <3>2, <3>3
    <2> QED BY <2>1, <2>2, <2>3
  <1>3. (~raced)' = ~raced
    OBVIOUS
  <1> QED BY <1>1, <1>2, <1>3 DEF RevealInv, Exists

\* The same when the row, the credentials and the browsers do not change.
LEMMA RevealQuiet ==
    ASSUME RevealInv, None \notin Deliveries, row' = row, raced' = raced,
           pending' = pending, browser' = browser,
           \A d \in Deliveries : dlv'[d].seen \in {dlv[d].seen, NoRow, row},
           \A d \in Deliveries : dlv'[d].at \in {"issue", "record", "stash"}
                                    => dlv[d].at \in {"issue", "record", "stash"}
    PROVE  RevealInv'
  <1>1. \A d \in Deliveries : Shown(d)' => Shown(d)
    BY DEF Shown
  <1> QED BY <1>1, RevealKept

\* A request goes on that is not revoking anything, neither before nor after.
LEMMA CutOffKept ==
    ASSUME CutOffInv, slipped => slipped', IsRunning' => IsRunning,
           IsRunning' /\ Revoked(row') /\ ~slipped' => Revoked(row),
           IsRunning' /\ sweep' = "mark" => sweep = "mark" \/ slipped',
           IsRunning' /\ Revoked(row') /\ Cutting => slipped' \/ Cutting'
    PROVE  CutOffInv'
  BY DEF CutOffInv, IsRunning, Revoked

\* A webhook that neither changes the row nor the credentials, nor is revoking or
\* begins to.
LEMMA WebhookGoesOn ==
    ASSUME SubscriptionInv, None \notin Deliveries, NEW d \in Deliveries,
           UNCHANGED <<constVars, row, revealVars, cutVars, raced>>,
           recorded' \subseteq Events,
           NEW place \in {"idle", "fresh", "record", "stash", "done"}, Goto(d, place),
           dlv[d].at \notin {"look", "ask", "stop"} \/ ~IsRunning \/ ~Revoked(row),
           place \in {"record", "stash"} => dlv[d].at \in {"issue", "record"}
    PROVE  SubscriptionInv'
  <1> USE DEF SubscriptionInv
  <1>1. /\ dlv' \in [Deliveries -> Delivery]
        /\ dlv'[d].at = place /\ dlv'[d].seen = NoRow
        /\ \A e \in Deliveries : e # d => dlv'[e] = dlv[e]
    BY GotoStep
  <1>2. TypeOK'
    BY <1>1 DEF TypeOK, Delivery, constVars, revealVars, cutVars
  <1>3. RevealInv'
    BY <1>1, RevealQuiet DEF revealVars
  <1>4. IsRunning /\ Revoked(row) /\ Cutting => Cutting'
    <2>1. ASSUME IsRunning, Revoked(row), Cutting PROVE Cutting'
      <3>1. CASE admin \in {"look", "stop"}
        BY <3>1 DEF Cutting, cutVars
      <3>2. CASE \E e \in Deliveries : dlv[e].at \in {"look", "ask", "stop"}
        <4>1. PICK e \in Deliveries : dlv[e].at \in {"look", "ask", "stop"}
          BY <3>2
        <4>2. e # d
          BY <2>1, <4>1
        <4> QED BY <1>1, <4>1, <4>2 DEF Cutting
      <3> QED BY <2>1, <3>1, <3>2 DEF Cutting
    <2> QED BY <2>1
  <1>5. CutOffInv'
    BY <1>4, CutOffKept DEF IsRunning, cutVars
  <1> QED BY <1>2, <1>3, <1>5

\* The first steps of a webhook, and those after a first activation.
LEMMA ReceiveKeeps ==
    ASSUME SubscriptionInv, None \notin Deliveries, NEW d \in Deliveries, Receive(d)
    PROVE  SubscriptionInv'
  <1>1. Goto(d, "fresh") \/ Goto(d, "done")
    BY DEF Receive
  <1>2. recorded' \subseteq Events
    BY DEF Receive, rowVars, SubscriptionInv, TypeOK
  <1> QED BY <1>1, <1>2, WebhookGoesOn DEF Receive, rowVars

\* The key of a first activation is issued.
LEMMA IssueKeeps ==
    ASSUME SubscriptionInv, None \notin Deliveries, NEW d \in Deliveries, IssueKey(d)
    PROVE  SubscriptionInv'
  <1>1. recorded' \subseteq Events
    BY DEF IssueKey, rowVars, SubscriptionInv, TypeOK
  <1> QED BY <1>1, WebhookGoesOn DEF IssueKey, rowVars

\* Only ids of events are recorded.
LEMMA RecordedType ==
    ASSUME recorded \subseteq Events, NEW d \in Deliveries
    PROVE  Recorded(d) \subseteq Events
  BY SubscriptionAssumption DEF Recorded

\* The insertion of an event's id, which may fail.
LEMMA RecordKeeps ==
    ASSUME SubscriptionInv, None \notin Deliveries, NEW d \in Deliveries, RecordEvent(d)
    PROVE  SubscriptionInv'
  <1>1. recorded \subseteq Events
    BY DEF SubscriptionInv, TypeOK
  <1>2. recorded' \subseteq Events
    BY <1>1, RecordedType DEF RecordEvent
  <1>3. Goto(d, "stash") \/ Goto(d, "idle")
    BY DEF RecordEvent, Fails
  <1> QED BY <1>2, <1>3, WebhookGoesOn DEF RecordEvent

\* A webhook that gives up, if it was not revoking anything; and one that finds
\* nothing to stop.
LEMMA LookKeeps ==
    ASSUME SubscriptionInv, None \notin Deliveries, NEW d \in Deliveries,
           LookForWorker(d) \/ AskIfActive(d)
    PROVE  SubscriptionInv'
  <1> USE DEF SubscriptionInv
  <1>1. recorded' \subseteq Events
    BY DEF LookForWorker, AskIfActive, rowVars, TypeOK
  <1>2. UNCHANGED <<constVars, row, revealVars, cutVars, raced>>
    BY DEF LookForWorker, AskIfActive, rowVars
  <1>3. CASE Goto(d, "done")
    <2>1. ~IsRunning \/ ~Revoked(row)
      <3>1. CASE LookForWorker(d) /\ IsRunning
        <4>1. Goto(d, "ask")
          BY <3>1 DEF LookForWorker
        <4>2. dlv'[d].at = "ask" /\ dlv'[d].at = "done"
          BY <1>3, <4>1, GotoStep
        <4> QED BY <4>2
      <3>2. CASE AskIfActive(d) /\ ~IsActive
        <4>1. Goto(d, "stop")
          BY <3>2 DEF AskIfActive
        <4>2. dlv'[d].at = "stop" /\ dlv'[d].at = "done"
          BY <1>3, <4>1, GotoStep
        <4> QED BY <4>2
      <3>3. CASE AskIfActive(d) /\ IsActive
        BY <3>3 DEF IsActive, Revoked
      <3> QED BY <3>1, <3>2, <3>3
    <2> QED BY <1>1, <1>2, <1>3, <2>1, WebhookGoesOn
  <1>4. CASE Goto(d, "ask") \/ Goto(d, "stop")
    <2>1. PICK place \in {"ask", "stop"} : Goto(d, place)
      BY <1>4
    <2>2. /\ dlv' \in [Deliveries -> Delivery]
          /\ dlv'[d].at = place /\ dlv'[d].seen = NoRow
          /\ \A e \in Deliveries : e # d => dlv'[e] = dlv[e]
      BY <2>1, GotoStep
    <2>3. TypeOK'
      BY <1>1, <1>2, <2>2 DEF TypeOK, Delivery, constVars, revealVars, cutVars
    <2>4. RevealInv'
      BY <1>2, <2>2, RevealQuiet DEF revealVars
    <2>5. Cutting'
      BY <2>2 DEF Cutting
    <2>6. CutOffInv'
      BY <1>2, <2>5, CutOffKept DEF IsRunning, cutVars
    <2> QED BY <2>3, <2>4, <2>6
  <1> QED BY <1>3, <1>4 DEF LookForWorker, AskIfActive

\* No worker that is_running knows of is left when one was stopped.
LEMMA StopEnds == worker \subseteq Workers /\ Stop => worker' \subseteq Workers /\ ~IsRunning'
  BY DEF Stop, Unlisted, IsRunning, Workers

\* The webhook stops the worker of the account it has revoked.
LEMMA CutOffKeeps ==
    ASSUME SubscriptionInv, None \notin Deliveries, NEW d \in Deliveries, CutOff(d)
    PROVE  SubscriptionInv'
  <1> USE DEF SubscriptionInv
  <1>1. /\ dlv' \in [Deliveries -> Delivery]
        /\ dlv'[d].at = "done" /\ dlv'[d].seen = NoRow
        /\ \A e \in Deliveries : e # d => dlv'[e] = dlv[e]
    BY GotoStep DEF CutOff
  <1>2. TypeOK'
    BY <1>1, StopEnds DEF CutOff, TypeOK, Delivery, constVars, revealVars, rowVars
  <1>3. RevealInv'
    BY <1>1, RevealQuiet DEF CutOff, revealVars, rowVars
  <1>4. CutOffInv'
    BY StopEnds DEF CutOff, CutOffInv, TypeOK
  <1> QED BY <1>2, <1>3, <1>4

\* A webhook dies between two of its steps; whoever is still to be stopped has slipped.
LEMMA DeathKeeps ==
    ASSUME SubscriptionInv, None \notin Deliveries, NEW d \in Deliveries, WebhookDies(d)
    PROVE  SubscriptionInv'
  <1> USE DEF SubscriptionInv
  <1>1. /\ dlv' \in [Deliveries -> Delivery]
        /\ dlv'[d].at = "idle" /\ dlv'[d].seen = NoRow
        /\ \A e \in Deliveries : e # d => dlv'[e] = dlv[e]
    BY GotoStep DEF WebhookDies, Fails
  <1>2. slipped' \in BOOLEAN
    BY DEF WebhookDies
  <1>3. TypeOK'
    BY <1>1, <1>2 DEF WebhookDies, TypeOK, Delivery, constVars, revealVars, rowVars
  <1>4. RevealInv'
    BY <1>1, RevealQuiet DEF WebhookDies, revealVars, rowVars
  <1>5. Cutting => slipped' \/ Cutting'
    BY <1>1 DEF WebhookDies, Cutting
  <1>6. slipped => slipped'
    BY DEF WebhookDies
  <1>7. CutOffInv'
    BY <1>5, <1>6, CutOffKept DEF IsRunning, WebhookDies, rowVars
  <1> QED BY <1>3, <1>4, <1>7

\* The row is read.
LEMMA ReadKeeps ==
    ASSUME SubscriptionInv, None \notin Deliveries, NEW d \in Deliveries, ReadRow(d)
    PROVE  SubscriptionInv'
  <1> USE DEF SubscriptionInv
  <1> DEFINE new == [at |-> "read", seen |-> row]
  <1>1. dlv \in [Deliveries -> Delivery] /\ row \in Row
    BY DEF TypeOK, Delivery
  <1>2. new \in Delivery /\ new.at = "read" /\ new.seen = row
    BY <1>1 DEF Delivery
  <1>3. dlv' = [dlv EXCEPT ![d] = new]
    BY DEF ReadRow
  <1> HIDE DEF new
  <1>4. /\ dlv' \in [Deliveries -> Delivery]
        /\ dlv'[d].at = "read" /\ dlv'[d].seen = row
        /\ \A e \in Deliveries : e # d => dlv'[e] = dlv[e]
    BY <1>1, <1>2, <1>3
  <1>5. TypeOK'
    BY <1>4 DEF ReadRow, TypeOK, Delivery, constVars, revealVars, rowVars, cutVars
  <1>6. RevealInv'
    BY <1>4, RevealQuiet DEF ReadRow, revealVars, rowVars
  <1>7. Cutting => Cutting'
    BY <1>4 DEF ReadRow, Cutting, cutVars
  <1>8. CutOffInv'
    BY <1>7, CutOffKept DEF IsRunning, ReadRow, rowVars, cutVars
  <1> QED BY <1>5, <1>6, <1>8

\* A first activation.  Unless it races with another row, nobody has read one.
LEMMA ActivationKeeps ==
    ASSUME SubscriptionInv, None \notin Deliveries, NEW d \in Deliveries, FirstActivation(d)
    PROVE  SubscriptionInv'
  <1> USE DEF SubscriptionInv
  <1>1. /\ dlv' \in [Deliveries -> Delivery]
        /\ dlv'[d].at = "issue" /\ dlv'[d].seen = NoRow
        /\ \A e \in Deliveries : e # d => dlv'[e] = dlv[e]
    BY GotoStep DEF FirstActivation
  <1>2. row' \in Row /\ row'.status = "active" /\ row'.token = d
    <2> DEFINE new == [status |-> "active", grace |-> "none", token |-> d, billed |-> TRUE]
    <2>1. row' = new
      BY DEF FirstActivation
    <2>2. new \in Row /\ new.status = "active" /\ new.token = d
      BY DEF Row, Tokens
    <2> HIDE DEF new
    <2> QED BY <2>1, <2>2
  <1>3. raced' \in BOOLEAN
    BY DEF FirstActivation
  <1>4. TypeOK'
    BY <1>1, <1>2, <1>3 DEF FirstActivation, TypeOK, Delivery, constVars, revealVars, cutVars
  <1>5. CutOffInv'
    BY <1>2 DEF FirstActivation, cutVars, CutOffInv, IsRunning, Revoked
  <1>6. ASSUME ~raced', NEW e \in Deliveries, Shown(e)'
        PROVE  /\ Exists(row') /\ row'.token = e
               /\ \A c \in Deliveries : Exists(dlv'[c].seen) => dlv'[c].seen.token = e
    <2>1. ~raced /\ ~Exists(row)
      BY <1>6 DEF FirstActivation
    <2>2. \A c \in Deliveries : ~Shown(c) /\ ~Exists(dlv[c].seen)
      BY <2>1 DEF RevealInv
    <2>3. e = d
      <3>1. CASE e # d
        <4>1. Shown(e)
          BY <1>1, <1>6, <3>1 DEF Shown, FirstActivation, revealVars
        <4> QED BY <2>2, <4>1
      <3> QED BY <3>1
    <2>4. \A c \in Deliveries : ~Exists(dlv'[c].seen)
      BY <1>1, <2>2, NoRowFields
    <2> QED BY <1>2, <2>3, <2>4 DEF Exists
  <1>7. Exists(row')
    BY <1>2 DEF Exists
  <1>8. (\A c \in Deliveries : Exists(dlv[c].seen) => Exists(row))'
    BY <1>7 DEF Exists
  <1>9. RevealInv'
    BY <1>6, <1>8 DEF RevealInv, Exists
  <1> QED BY <1>4, <1>5, <1>9

\* The credentials are stashed for the page that reveals them.
LEMMA StashKeeps ==
    ASSUME SubscriptionInv, None \notin Deliveries, NEW d \in Deliveries, StashCredentials(d)
    PROVE  SubscriptionInv'
  <1> USE DEF SubscriptionInv
  <1>1. /\ dlv' \in [Deliveries -> Delivery]
        /\ dlv'[d].at = "done" /\ dlv'[d].seen = NoRow
        /\ \A e \in Deliveries : e # d => dlv'[e] = dlv[e]
    BY GotoStep DEF StashCredentials
  <1>2. TypeOK'
    BY <1>1 DEF StashCredentials, TypeOK, Delivery, constVars, rowVars, cutVars
  <1>3. \A e \in Deliveries : Shown(e)' => Shown(e)
    <2>1. Shown(d)
      BY DEF Shown, StashCredentials
    <2>2. ASSUME NEW e \in Deliveries, e # d, Shown(e)' PROVE Shown(e)
      BY <1>1, <2>2 DEF Shown, StashCredentials
    <2> QED BY <2>1, <2>2
  <1>4. RevealInv'
    BY <1>1, <1>3, RevealKept DEF StashCredentials, rowVars
  <1>5. Cutting => Cutting'
    BY <1>1 DEF StashCredentials, Cutting, cutVars
  <1>6. CutOffInv'
    BY <1>5, CutOffKept DEF IsRunning, StashCredentials, rowVars, cutVars
  <1> QED BY <1>2, <1>4, <1>6

\* Every other event: the row is changed and the event recorded, or neither.
LEMMA CommitKeeps ==
    ASSUME SubscriptionInv, None \notin Deliveries, NEW d \in Deliveries, Commit(d)
    PROVE  SubscriptionInv'
  <1> USE DEF SubscriptionInv
  <1>1. dlv[d].at = "read" /\ ~IsFirstActivation(d) /\ recorded \subseteq Events
        /\ row \in Row /\ dlv[d].seen \in Row
    BY DEF Commit, TypeOK
  <1>2. CASE ~IsNew(d)
    <2>1. Goto(d, "idle") /\ UNCHANGED <<constVars, row, revealVars, cutVars, raced>>
          /\ recorded' = recorded
      BY <1>2 DEF Commit, Fails, rowVars
    <2> QED BY <1>1, <2>1, WebhookGoesOn
  <1>3. CASE IsNew(d)
    <2>1. PICK place \in {"look", "done"} : Goto(d, place)
             /\ (TypeOf(d) \in {"FAILED", "CANCELED"} => place = "look")
      BY <1>3 DEF Commit
    <2>2. /\ dlv' \in [Deliveries -> Delivery]
          /\ dlv'[d].at = place /\ dlv'[d].seen = NoRow
          /\ \A e \in Deliveries : e # d => dlv'[e] = dlv[e]
      BY <2>1, GotoStep
    <2>3. row' = Applied(d) /\ recorded' = Recorded(d)
          /\ UNCHANGED <<constVars, revealVars, cutVars, raced>>
      BY <1>3 DEF Commit
    <2>4. /\ row' \in Row
          /\ Exists(row) => Exists(row')
          /\ TypeOf(d) \notin {"FAILED", "CANCELED"} /\ ~Revoked(row) => ~Revoked(row')
          /\ \/ row'.token = row.token
             \/ Exists(dlv[d].seen) /\ row'.token = dlv[d].seen.token
             \/ Exists(dlv[d].seen) /\ dlv[d].seen.token = None
      BY <1>1, <2>3, AppliedRow
    <2>5. recorded' \subseteq Events
      BY <1>1, <2>3, RecordedType
    <2>6. TypeOK'
      BY <2>2, <2>3, <2>4, <2>5 DEF TypeOK, Delivery, constVars, revealVars, cutVars
    <2>7. \A e \in Deliveries : Shown(e)' => Shown(e)
      BY <2>2, <2>3 DEF Shown, revealVars
    <2>8. ASSUME ~raced, NEW e \in Deliveries, Shown(e) PROVE row'.token = row.token
      <3>1. row.token = e /\ (Exists(dlv[d].seen) => dlv[d].seen.token = e)
        BY <2>8 DEF RevealInv
      <3> QED BY <2>4, <3>1
    <2>9. RevealInv'
      BY <2>2, <2>3, <2>4, <2>7, <2>8, RevealKept
    <2>10. Cutting => Cutting'
      BY <1>1, <2>2, <2>3 DEF Cutting, cutVars
    <2>11. place = "look" => Cutting'
      BY <2>2 DEF Cutting
    <2>12. CutOffInv'
      BY <2>1, <2>3, <2>4, <2>10, <2>11 DEF CutOffInv, IsRunning, cutVars, Revoked
    <2> QED BY <2>6, <2>9, <2>12
  <1> QED BY <1>2, <1>3

-----------------------------------------------------------------------------
(* The sweep, cancellations, connections and whoever else writes the row. *)

\* A step that leaves the row, the webhooks and the credentials alone.
LEMMA RevealAside ==
    ASSUME RevealInv, UNCHANGED <<row, dlv, revealVars, raced>>
    PROVE  RevealInv'
  BY DEF RevealInv, Shown, Exists, revealVars

\* The sweep up to its row: it finds the account lapsed, and stops its worker.
LEMMA SweepKeeps ==
    ASSUME SubscriptionInv, SweepLists \/ SweepLooks \/ SweepStops \/ SweepFails
    PROVE  SubscriptionInv'
  <1> USE DEF SubscriptionInv
  <1>1. TypeOK'
    BY StopEnds DEF TypeOK, SweepLists, SweepLooks, SweepStops, SweepFails, constVars, rowVars, revealVars
  <1>2. RevealInv'
    BY RevealAside DEF SweepLists, SweepLooks, SweepStops, SweepFails, rowVars
  <1>3. CutOffInv'
    <2>1. CASE SweepLists \/ SweepLooks \/ SweepFails
      BY <2>1 DEF CutOffInv, IsRunning, Cutting, SweepLists, SweepLooks, SweepFails, rowVars
    <2>2. CASE SweepStops
      BY <2>2, StopEnds DEF CutOffInv, SweepStops, TypeOK
    <2> QED BY <2>1, <2>2
  <1> QED BY <1>1, <1>2, <1>3

\* A step that changes the row's status or grace, but neither makes nor renames it,
\* and leaves the webhooks and the credentials alone.
LEMMA RevealRow ==
    ASSUME RevealInv, None \notin Deliveries, UNCHANGED <<dlv, revealVars, raced>>,
           Exists(row) => Exists(row'), Exists(row) => row'.token = row.token
    PROVE  RevealInv'
  <1>1. \A d \in Deliveries : Shown(d)' => Shown(d)
    BY DEF Shown, revealVars
  <1>2. ~raced /\ (\E d \in Deliveries : Shown(d)) => Exists(row)
    BY DEF RevealInv
  <1> QED BY <1>1, <1>2, RevealKept

\* The sweep marks the account; its worker is gone, or came up since.
LEMMA MarkKeeps ==
    ASSUME SubscriptionInv, None \notin Deliveries, SweepMarks
    PROVE  SubscriptionInv'
  <1> USE DEF SubscriptionInv
  <1>1. /\ row' \in Row
        /\ Exists(row) => Exists(row') /\ row'.token = row.token
        /\ ~IsRunning \/ slipped
    BY DEF SweepMarks, MarkSuspended, TypeOK, Row, Exists, CutOffInv, IsRunning
  <1>2. TypeOK'
    BY <1>1 DEF TypeOK, SweepMarks, constVars, revealVars
  <1>3. RevealInv'
    BY <1>1, RevealRow DEF SweepMarks
  <1>4. CutOffInv'
    BY <1>1 DEF CutOffInv, IsRunning, SweepMarks
  <1> QED BY <1>2, <1>3, <1>4

\* The steps of a cancellation before and after its row.
LEMMA CancelKeeps ==
    ASSUME SubscriptionInv, CancelBegins \/ ProviderCancels \/ CancelLooks \/ CancelStops \/ CancelFails
    PROVE  SubscriptionInv'
  <1> USE DEF SubscriptionInv
  <1>1. slipped' \in BOOLEAN
    BY DEF TypeOK, CancelBegins, ProviderCancels, CancelLooks, CancelStops, CancelFails
  <1>2. TypeOK'
    BY <1>1, StopEnds DEF TypeOK, CancelBegins, ProviderCancels, CancelLooks, CancelStops, CancelFails, constVars,
              rowVars, revealVars
  <1>3. RevealInv'
    BY RevealAside DEF CancelBegins, ProviderCancels, CancelLooks, CancelStops, CancelFails, rowVars
  <1>4. CutOffInv'
    <2>1. CASE CancelBegins \/ ProviderCancels
      BY <2>1 DEF CutOffInv, IsRunning, Cutting, CancelBegins, ProviderCancels, rowVars
    <2>2. CASE CancelLooks
      BY <2>2 DEF CutOffInv, IsRunning, Cutting, CancelLooks, rowVars
    <2>3. CASE CancelStops
      BY <2>3, StopEnds DEF CutOffInv, CancelStops, TypeOK
    <2>4. CASE CancelFails
      BY <2>4 DEF CutOffInv, IsRunning, Cutting, CancelFails, rowVars
    <2> QED BY <2>1, <2>2, <2>3, <2>4
  <1> QED BY <1>2, <1>3, <1>4

\* The row is marked as canceled; who did it looks for the worker next.
LEMMA MarkCanceledKeeps ==
    ASSUME SubscriptionInv, None \notin Deliveries, MarkCanceled
    PROVE  SubscriptionInv'
  <1> USE DEF SubscriptionInv
  <1>1. row' \in Row /\ Exists(row') /\ row'.token = row.token
    BY DEF MarkCanceled, TypeOK, Row, Exists
  <1>2. TypeOK'
    BY <1>1 DEF TypeOK, MarkCanceled, constVars, revealVars
  <1>3. RevealInv'
    BY <1>1, RevealRow DEF MarkCanceled
  <1>4. CutOffInv'
    BY DEF CutOffInv, IsRunning, Cutting, MarkCanceled
  <1> QED BY <1>2, <1>3, <1>4

\* Modes, presets and the end of the grace period take nobody's token away.
LEMMA ModeKeeps ==
    ASSUME SubscriptionInv, None \notin Deliveries, SetMode \/ SetRiskPreset \/ GraceEnds
    PROVE  SubscriptionInv'
  <1> USE DEF SubscriptionInv
  <1>1. row \in Row
    BY DEF TypeOK
  <1>2. /\ row' \in Row
        /\ Exists(row) => Exists(row') /\ row'.token = row.token
        /\ Revoked(row') => Revoked(row)
    <2>1. CASE SetMode /\ Exists(row)
      BY <1>1, <2>1 DEF SetMode, Row, Exists, Revoked
    <2>2. CASE SetMode /\ ~Exists(row)
      BY <1>1, <2>2, NoRowFields DEF SetMode, Row, Exists, Revoked, Tokens
    <2>3. CASE SetRiskPreset
      BY <1>1, <2>3, NoRowFields DEF SetRiskPreset, Row, Exists, Revoked
    <2>4. CASE GraceEnds
      BY <1>1, <2>4 DEF GraceEnds, Row, Exists, Revoked
    <2> QED BY <2>1, <2>2, <2>3, <2>4
  <1>3. UNCHANGED <<constVars, recorded, dlv, revealVars, cutVars, raced>>
    BY DEF SetMode, SetRiskPreset, GraceEnds
  <1>4. TypeOK'
    BY <1>2, <1>3 DEF TypeOK, constVars, revealVars, cutVars
  <1>5. RevealInv'
    BY <1>2, <1>3, RevealRow
  <1>6. CutOffInv'
    BY <1>2, <1>3 DEF CutOffInv, IsRunning, Cutting, cutVars
  <1> QED BY <1>4, <1>5, <1>6

\* A worker that comes up while an account is revoked makes it slip; a worker that ends,
\* or loses its handle or its entry, is no worse than before.
LEMMA ConnectKeeps ==
    ASSUME SubscriptionInv,
           CheckPlan \/ StartWorker \/ ConnectFails \/ WorkerEnds \/ ServerRestarts \/ EntryIsLost
    PROVE  SubscriptionInv'
  <1> USE DEF SubscriptionInv
  <1>0. worker \subseteq Workers /\ Unlisted \subseteq Workers
    BY DEF TypeOK, Unlisted, Workers
  <1>1. slipped' \in BOOLEAN /\ worker' \subseteq Workers
    BY <1>0 DEF TypeOK, CheckPlan, StartWorker, ConnectFails, WorkerEnds, ServerRestarts, EntryIsLost,
              Workers
  <1>2. TypeOK'
    BY <1>1 DEF TypeOK, CheckPlan, StartWorker, ConnectFails, WorkerEnds, ServerRestarts, EntryIsLost,
              constVars, rowVars, revealVars
  <1>3. RevealInv'
    BY RevealAside DEF CheckPlan, StartWorker, ConnectFails, WorkerEnds, ServerRestarts, EntryIsLost,
              rowVars
  <1>4. CutOffInv'
    <2>1. CASE StartWorker
      BY <2>1 DEF StartWorker, CutOffInv, AllowsBrain, Revoked, Revoking, rowVars
    <2>2. CASE CheckPlan \/ ConnectFails \/ WorkerEnds \/ ServerRestarts \/ EntryIsLost
      <3>1. IsRunning' => IsRunning
        BY <2>2 DEF CheckPlan, ConnectFails, WorkerEnds, ServerRestarts, EntryIsLost, IsRunning
      <3> QED BY <2>2, <3>1 DEF CheckPlan, ConnectFails, WorkerEnds, ServerRestarts, EntryIsLost,
              CutOffInv, Cutting, rowVars
    <2> QED BY <2>1, <2>2
  <1> QED BY <1>2, <1>3, <1>4

-----------------------------------------------------------------------------
(* The reveal. *)

\* What a browser gets is what was pending; nobody else comes to show credentials.
LEMMA RevealKeeps ==
    ASSUME SubscriptionInv, None \notin Deliveries, NEW b \in Browsers, RevealStep(b) \/ RevealDies(b)
    PROVE  SubscriptionInv'
  <1> USE DEF SubscriptionInv, RevealStep
  <1> DEFINE View == [at : {"idle", "matched"}, got : {None}]
                        \cup [at : {"got", "half", "done"}, got : Deliveries]
  <1>1. browser \in [Browsers -> View] /\ pending \in Deliveries \cup {None}
    BY DEF TypeOK
  <1>2. UNCHANGED <<constVars, rowVars, dlv, cutVars, raced>>
    BY DEF MatchToken, ReadPending, DeleteToken, DeletePending, RevealDies
  <1>3. /\ browser' \in [Browsers -> View]
        /\ browser'[b].got \in {browser[b].got, pending, None}
        /\ \A c \in Browsers : c # b => browser'[c] = browser[c]
    <2>1. CASE MatchToken(b)
      <3>1. browser[b] \in View /\ browser[b].at = "idle" /\ browser' = [browser EXCEPT ![b].at = "matched"]
        BY <1>1, <2>1 DEF MatchToken
      <3>2. [browser[b] EXCEPT !.at = "matched"] \in View
        BY <3>1
      <3> QED BY <1>1, <3>1, <3>2
    <2>2. CASE ReadPending(b) /\ pending = None
      <3>1. browser' = [browser EXCEPT ![b] = [at |-> "idle", got |-> None]]
        BY <2>2 DEF ReadPending
      <3> QED BY <1>1, <3>1
    <2>3. CASE ReadPending(b) /\ pending # None
      <3>1. browser' = [browser EXCEPT ![b] = [at |-> "got", got |-> pending]]
        BY <2>3 DEF ReadPending
      <3>2. pending \in Deliveries
        BY <1>1, <2>3
      <3> QED BY <1>1, <3>1, <3>2
    <2>4. CASE DeleteToken(b)
      <3>1. browser[b] \in View /\ browser[b].at = "got" /\ browser' = [browser EXCEPT ![b].at = "half"]
        BY <1>1, <2>4 DEF DeleteToken
      <3>2. [browser[b] EXCEPT !.at = "half"] \in View
        BY <3>1
      <3> QED BY <1>1, <3>1, <3>2
    <2>5. CASE DeletePending(b)
      <3>1. browser[b] \in View /\ browser[b].at = "half" /\ browser' = [browser EXCEPT ![b].at = "done"]
        BY <1>1, <2>5 DEF DeletePending
      <3>2. [browser[b] EXCEPT !.at = "done"] \in View
        BY <3>1
      <3> QED BY <1>1, <3>1, <3>2
    <2>6. CASE RevealDies(b)
      <3>1. browser' = [browser EXCEPT ![b] = [at |-> "idle", got |-> None]]
        BY <2>6 DEF RevealDies
      <3> QED BY <1>1, <3>1
    <2> QED BY <2>1, <2>2, <2>3, <2>4, <2>5, <2>6
  <1>4. pending' \in {pending, None} /\ urlToken' \in BOOLEAN
    BY DEF MatchToken, ReadPending, DeleteToken, DeletePending, RevealDies, TypeOK
  <1>5. TypeOK'
    BY <1>1, <1>2, <1>3, <1>4 DEF TypeOK, constVars, rowVars, cutVars
  <1>6. \A d \in Deliveries : Shown(d)' => Shown(d)
    BY <1>2, <1>3, <1>4 DEF Shown
  <1>7. RevealInv'
    BY <1>2, <1>6, RevealKept DEF rowVars
  <1>8. CutOffInv'
    BY <1>2 DEF CutOffInv, IsRunning, Cutting, cutVars, rowVars
  <1> QED BY <1>5, <1>7, <1>8

\* What was stashed, or the token in the link, expires.
LEMMA ExpiryKeeps ==
    ASSUME SubscriptionInv, None \notin Deliveries, PendingExpires \/ UrlTokenExpires
    PROVE  SubscriptionInv'
  <1> USE DEF SubscriptionInv
  <1>1. TypeOK'
    BY DEF PendingExpires, UrlTokenExpires, TypeOK, constVars, rowVars, cutVars
  <1>2. \A d \in Deliveries : Shown(d)' => Shown(d)
    BY DEF PendingExpires, UrlTokenExpires, Shown
  <1>3. RevealInv'
    BY <1>2, RevealKept DEF PendingExpires, UrlTokenExpires, rowVars
  <1>4. CutOffInv'
    BY DEF PendingExpires, UrlTokenExpires, CutOffInv, IsRunning, Cutting, cutVars, rowVars
  <1> QED BY <1>1, <1>3, <1>4

-----------------------------------------------------------------------------
(* The theorems. *)

\* At first nothing was revoked, shown or applied.
LEMMA InitHolds == Init => SubscriptionInv
  <1> SUFFICES ASSUME Init PROVE SubscriptionInv
    OBVIOUS
  <1>1. None \notin Deliveries
    BY SubscriptionAssumption
  <1>2. dlv = [d \in Deliveries |-> [at |-> "idle", seen |-> NoRow]] /\ row = NoRow
    BY DEF Init
  <1>3. TypeOK
    BY NoRowFields DEF Init, TypeOK
  <1>4. CutOffInv
    BY <1>2, NoRowFields DEF Init, CutOffInv, IsRunning
  <1>5. \A d \in Deliveries : ~Shown(d) /\ ~Exists(dlv[d].seen)
    BY <1>1, <1>2, NoRowFields DEF Init, Shown
  <1>6. RevealInv
    BY <1>5 DEF RevealInv
  <1> QED BY <1>3, <1>4, <1>6 DEF SubscriptionInv

\* Every step keeps the invariant.
LEMMA StepKeeps == SubscriptionInv /\ [Next]_vars => SubscriptionInv'
  <1> SUFFICES ASSUME SubscriptionInv, [Next]_vars PROVE SubscriptionInv'
    OBVIOUS
  <1>1. None \notin Deliveries
    BY SubscriptionAssumption
  <1>2. CASE UNCHANGED vars
    BY <1>2 DEF vars, constVars, rowVars, revealVars, cutVars, SubscriptionInv, TypeOK, RevealInv,
                CutOffInv, IsRunning, Cutting, Shown, Exists, Revoked
  <1>3. ASSUME NEW d \in Deliveries, WebhookStep(d) \/ WebhookDies(d)
        PROVE  SubscriptionInv'
    BY <1>1, <1>3, ReceiveKeeps, ReadKeeps, ActivationKeeps, IssueKeeps, RecordKeeps, StashKeeps,
       CommitKeeps, LookKeeps, CutOffKeeps, DeathKeeps DEF WebhookStep
  <1>4. CASE SweepStep \/ SweepFails \/ GraceEnds
    BY <1>1, <1>4, SweepKeeps, MarkKeeps, ModeKeeps DEF SweepStep
  <1>5. CASE CancelStep \/ CancelFails \/ SetMode
    BY <1>1, <1>5, CancelKeeps, MarkCanceledKeeps, ModeKeeps DEF CancelStep
  <1>6. CASE CheckPlan \/ StartWorker \/ ConnectFails \/ WorkerEnds \/ ServerRestarts \/ EntryIsLost
    BY <1>6, ConnectKeeps
  <1>7. ASSUME NEW b \in Browsers, RevealStep(b) \/ RevealDies(b)
        PROVE  SubscriptionInv'
    BY <1>1, <1>7, RevealKeeps
  <1>8. CASE SetRiskPreset \/ PendingExpires \/ UrlTokenExpires
    BY <1>1, <1>8, ModeKeeps, ExpiryKeeps
  <1> QED BY <1>2, <1>3, <1>4, <1>5, <1>6, <1>7, <1>8 DEF Next

\* The inductive invariant, and with it the types of everything in the module.
THEOREM SubscriptionInvariant == Spec => []SubscriptionInv
  BY InitHolds, StepKeeps, PTL DEF Spec

\* No worker that the server knows of outlives the access of its account:
\* RevokedIsCutOff, for any webhooks in any order, and whatever restarts, aging and
\* failures make the registry forget.
THEOREM RevokedAccountsAreCutOff == Spec => []RevokedIsCutOff
  <1>1. SubscriptionInv => RevokedIsCutOff
    BY DEF SubscriptionInv, CutOffInv, IsRunning, RevokedIsCutOff, Cutting, Revoking, Revoked
  <1> QED BY <1>1, SubscriptionInvariant, PTL

\* The credentials a subscriber took are those of the account: RevealedTokenIsCurrent,
\* for any number of deliveries and browsers.
THEOREM ShownTokensStayValid == Spec => []RevealedTokenIsCurrent
  <1>1. SubscriptionInv => RevealedTokenIsCurrent
    <2> SUFFICES ASSUME SubscriptionInv, NEW b \in Browsers, browser[b].at = "done", ~raced
                 PROVE  browser[b].got = row.token
      BY DEF RevealedTokenIsCurrent
    <2>1. browser[b].got \in Deliveries
      BY DEF SubscriptionInv, TypeOK
    <2>2. Shown(browser[b].got)
      BY DEF Shown
    <2> QED BY <2>1, <2>2 DEF SubscriptionInv, RevealInv
  <1> QED BY <1>1, SubscriptionInvariant, PTL

\* A delivery of an event that is recorded already changes nothing, except that a first
\* activation under way writes its row, which it does before it records the event:
\* AppliedOnce, from the guards of the two transactions that change the row.
THEOREM EventsAreAppliedOnce == Spec => AppliedOnce
  <1>1. TypeOK /\ [Next]_vars =>
          [\A d \in Deliveries : (~IsNew(d) /\ dlv'[d] # dlv[d] /\ row' # row) => IsFirstActivation(d)]_vars
    <2> SUFFICES ASSUME TypeOK, Next, NEW d \in Deliveries, ~IsNew(d), dlv'[d] # dlv[d], row' # row
                 PROVE  IsFirstActivation(d)
      OBVIOUS
    <2>1. PICK e \in Deliveries : FirstActivation(e) \/ Commit(e)
      BY DEF Next, WebhookStep, SweepStep, CancelStep, RevealStep, Receive, ReadRow, IssueKey, RecordEvent,
             StashCredentials, LookForWorker, AskIfActive, CutOff, WebhookDies, SweepLists, SweepLooks,
             SweepStops, SweepMarks, SweepFails, GraceEnds, CancelBegins, ProviderCancels, MarkCanceled,
             CancelLooks, CancelStops, CancelFails, SetMode, SetRiskPreset, CheckPlan, StartWorker,
             ConnectFails, WorkerEnds, ServerRestarts, EntryIsLost, MatchToken, ReadPending, DeleteToken, DeletePending, RevealDies,
             PendingExpires, UrlTokenExpires, rowVars
    <2>2. \E place \in {"issue", "look", "done", "idle"} : Goto(e, place)
      BY <2>1 DEF FirstActivation, Commit, Fails
    <2>3. \A c \in Deliveries : c # e => dlv'[c] = dlv[c]
      BY <2>2, GotoStep
    <2>4. e = d
      BY <2>3
    <2>5. ~Commit(d)
      BY DEF Commit, rowVars
    <2> QED BY <2>1, <2>4, <2>5 DEF FirstActivation
  <1>2. SubscriptionInv => TypeOK
    BY DEF SubscriptionInv
  <1> QED BY <1>1, <1>2, SubscriptionInvariant, PTL DEF Spec, AppliedOnce
=============================================================================
