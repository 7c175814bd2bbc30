---------------------------- MODULE Notifications ---------------------------
(***************************************************************************)
(* One subscriber's inbox and the reminders about the subscription         *)
(* (notification_service.py, notification_router.py, alert_service.py,     *)
(* billing_reminder_service.py and its loop in startup.py).                *)
(*                                                                         *)
(* A notice is inserted, sent out and updated in three steps.  The loop    *)
(* asks Redis whether a reminder was sent, creates its notice and then     *)
(* marks it as sent; Redis may fail, and the server may die in between.    *)
(* A day begins at the hour at which the subscription's periods end.       *)
(***************************************************************************)
EXTENDS ServerRequests, Sequences

CONSTANTS DaysBefore, \* BILLING_REMINDER_DAYS_BEFORE
          MaxDay, MaxNotices, MaxLapses \* bounds

ASSUME NoticesAssumption == /\ DaysBefore \subseteq Nat
                            /\ {MaxDay, MaxNotices, MaxLapses} \subseteq Nat

Days == 0..MaxDay
Milestones == {"past_due", "suspended", "expired", "expiring"}
NoticeTypes == Milestones \cup {"signal", "analysis", "execution"}
Statuses == {"pending", "inbox_only", "delivered", "attempted", "failed"}
Confidences == 0..2 \* confidence: below 0.55, below 0.70, at least 0.70

VARIABLES inbox,     \* the rows of notifications, by id
          prefs,     \* the row of notification_preferences
          plan,      \* the subscription: status, end of the period or of the grace period
          today,
          marks,     \* the keys of sent reminders, and the day on which each expires
          scan,      \* the reminder loop
          sending,   \* the notices that requests are sending out
          lapses     \* how often Redis, the server or the database failed the loop

noticeVars == <<inbox, prefs, plan, today, marks, scan, sending, lapses>>

\* What a reminder is about: its kind and the period it belongs to.
Reminder == [kind : Milestones, before : DaysBefore \cup {0}, anchor : Days]
NoReminder == [kind |-> "expired", before |-> 0, anchor |-> 0]
NoScan == [at |-> "idle", seen |-> [status |-> "canceled", ends |-> 0], about |-> NoReminder]

Plan == [status : {"active", "past_due", "suspended", "canceled"}, ends : Days]
Preferences == [signals : BOOLEAN, least : 1..2]

NoticesTypeOK ==
    /\ \A n \in DOMAIN inbox :
          /\ inbox[n].type \in NoticeTypes /\ inbox[n].status \in Statuses
          /\ inbox[n].about \in Reminder /\ inbox[n].read \in BOOLEAN /\ inbox[n].acked \in BOOLEAN
          /\ inbox[n].acked => inbox[n].read
    /\ prefs \in Preferences
    /\ plan \in Plan
    /\ today \in Days
    /\ \A k \in marks : k.about \in Reminder /\ k.until \in 0..MaxDay + 2
    /\ scan.at \in {"idle", "decide", "create", "send", "mark"} /\ scan.about \in Reminder
    /\ sending \subseteq [id : 1..MaxNotices, hold : BOOLEAN, level : Confidences]
    /\ lapses \in 0..MaxLapses

NoticesInit ==
    /\ inbox = <<>>
    /\ prefs = [signals |-> TRUE, least |-> 1]
    /\ plan \in { p \in Plan : p.status = "active" /\ p.ends # 0 }
    /\ today = 0
    /\ marks = {}
    /\ scan = NoScan
    /\ sending = {}
    /\ lapses = 0

-----------------------------------------------------------------------------
(* create().                                                               *)

Notice(type, about) ==
    [type |-> type, about |-> about, status |-> "pending", read |-> FALSE, acked |-> FALSE]

Insert(type, about) == Len(inbox) < MaxNotices /\ inbox' = Append(inbox, Notice(type, about))

\* deliver_external is given: the preferences are not read.
IsForced(type) == type \in Milestones \cup {"execution"}

\* What is recorded of the attempt to send a notice out.  The preferences that were not
\* read are used all the same, which raises: "failed" is what a forced notice ends as.
\* The alert service itself raises nothing and reports what each channel did.
Outcomes(type, wanted) ==
    IF IsForced(type) THEN {"failed"}
    ELSE IF wanted THEN {"delivered", "attempted"} ELSE {"inbox_only"}

SetStatus(n, wanted) ==
    \E outcome \in Outcomes(inbox[n].type, wanted) :
        inbox' = [inbox EXCEPT ![n].status = outcome]

\* A signal of some confidence, a signal that is analysis only, a HOLD that is sure
\* enough to be of interest, an acknowledged order.
Emit(type, hold, level) ==
    /\ Arrives("emit")
    /\ hold => level = 2 /\ type # "execution"
    /\ Insert(type, NoReminder)
    /\ sending' = sending \cup {[id |-> Len(inbox) + 1, hold |-> hold, level |-> level]}
    /\ UNCHANGED <<prefs, plan, today, marks, scan, lapses>>

\* A signal goes out if it is a BUY or a SELL, the preferences allow it and it is sure
\* enough; an analysis if it is sure enough.
IsWanted(s) ==
    s.level >= prefs.least /\ (inbox[s.id].type = "signal" => prefs.signals /\ ~s.hold)

SendOut(s) ==
    /\ SetStatus(s.id, IsWanted(s))
    /\ sending' = sending \ {s}
    /\ UNCHANGED <<prefs, plan, today, marks, scan, lapses>>

-----------------------------------------------------------------------------
(* The inbox.                                                              *)

Reading(ns, acks) ==
    /\ Arrives("inbox")
    /\ inbox' = [n \in DOMAIN inbox |->
                    IF n \in ns THEN [inbox[n] EXCEPT !.read = TRUE, !.acked = @ \/ acks]
                                ELSE inbox[n]]
    /\ UNCHANGED <<prefs, plan, today, marks, scan, sending, lapses>>

ReadNotice(n) == n \in DOMAIN inbox /\ Reading({n}, FALSE)
Acknowledge(n) == n \in DOMAIN inbox /\ Reading({n}, TRUE)
ReadAll == Reading(DOMAIN inbox, FALSE)

SetPreferences(p) ==
    /\ Arrives("prefs")
    /\ prefs' = p
    /\ UNCHANGED <<inbox, plan, today, marks, scan, sending, lapses>>

-----------------------------------------------------------------------------
(* The reminder loop.                                                      *)

DayPasses ==
    /\ Arrives("day") /\ today < MaxDay
    /\ today' = today + 1
    /\ marks' = { k \in marks : k.until >= today' }
    /\ UNCHANGED <<inbox, prefs, plan, scan, sending, lapses>>

\* A key expires at the hour of its last day at which it was set.
MarkExpires(k) ==
    /\ k.until = today
    /\ marks' = marks \ {k}
    /\ UNCHANGED <<inbox, prefs, plan, today, scan, sending, lapses>>

\* Payments and the sweep move the subscription on; a period never ends earlier than before.
PlanMoves(p) ==
    /\ Arrives("plan") /\ p # plan /\ p.ends >= plan.ends
    /\ plan' = p
    /\ UNCHANGED <<inbox, prefs, today, marks, scan, sending, lapses>>

ListSubscriptions ==
    /\ Arrives("day") /\ scan.at = "idle"
    /\ scan' = [scan EXCEPT !.at = "decide", !.seen = plan]
    /\ UNCHANGED <<inbox, prefs, plan, today, marks, sending, lapses>>

\* The reminders that are due for a subscription on a day: one or none.
Due(p, day) ==
    { m \in Reminder :
        /\ m.anchor = p.ends
        /\ \/ p.status \in {"past_due", "suspended"} /\ m.kind = p.status /\ m.before = 0
           \/ p.status = "active" /\ p.ends < day /\ m.kind = "expired" /\ m.before = 0
           \/ p.status = "active" /\ m.kind = "expiring" /\ m.before \in DaysBefore
                                  /\ p.ends = day + m.before }

IsMarked(m) == \E k \in marks : k.about = m

\* One more failure of the loop.
Lapse == lapses < MaxLapses /\ lapses' = lapses + 1

\* Redis is asked for the key; if that fails the reminder counts as not sent.
Decide(redis) ==
    LET due == Due(scan.seen, today) IN
    /\ scan.at = "decide"
    /\ scan' = IF due = {} \/ (redis /\ \E m \in due : IsMarked(m)) THEN NoScan
               ELSE [NoScan EXCEPT !.at = "create", !.about = CHOOSE m \in due : TRUE]
    /\ IF redis THEN UNCHANGED lapses ELSE Lapse
    /\ UNCHANGED <<inbox, prefs, plan, today, marks, sending>>

RemindInbox ==
    /\ scan.at = "create"
    /\ Insert(scan.about.kind, scan.about)
    /\ scan' = [scan EXCEPT !.at = "send"]
    /\ UNCHANGED <<prefs, plan, today, marks, sending, lapses>>

SendReminder ==
    /\ scan.at = "send"
    /\ SetStatus(CHOOSE n \in DOMAIN inbox : /\ inbox[n].about = scan.about
                                             /\ inbox[n].type \in Milestones
                                             /\ \A o \in n + 1..Len(inbox) :
                                                   inbox[o].about # scan.about, TRUE)
    /\ scan' = [scan EXCEPT !.at = "mark"]
    /\ UNCHANGED <<prefs, plan, today, marks, sending, lapses>>

\* Mutation: a reminder is marked as sent before its notice is created.
MayMarkEarly == scan.at = "create"

MayMark == scan.at = "mark"

\* The key lives for 48 hours.
MarkSent(redis) ==
    /\ MayMark
    /\ marks' = IF redis THEN marks \cup {[about |-> scan.about, until |-> today + 2]} ELSE marks
    /\ IF redis THEN UNCHANGED lapses ELSE Lapse
    /\ scan' = NoScan
    /\ UNCHANGED <<inbox, prefs, plan, today, sending>>

\* The database refuses a step of the loop, or the server dies.
ScanFails ==
    /\ scan.at # "idle"
    /\ scan' = NoScan
    /\ Lapse
    /\ UNCHANGED <<inbox, prefs, plan, today, marks, sending>>

NoticesNext ==
    \/ \E type \in {"signal", "analysis", "execution"}, hold \in BOOLEAN, level \in Confidences :
          Emit(type, hold, level)
    \/ \E s \in sending : SendOut(s)
    \/ \E n \in 1..MaxNotices : ReadNotice(n) \/ Acknowledge(n)
    \/ ReadAll
    \/ \E p \in Preferences : SetPreferences(p)
    \/ DayPasses \/ ListSubscriptions \/ RemindInbox \/ SendReminder \/ ScanFails
    \/ \E redis \in BOOLEAN : Decide(redis) \/ MarkSent(redis)
    \/ \E k \in marks : MarkExpires(k)
    \/ \E p \in Plan : PlanMoves(p)

-----------------------------------------------------------------------------
Announcing(m) == { n \in DOMAIN inbox : inbox[n].type \in Milestones /\ inbox[n].about = m }

\* A reminder that a period is about to end comes once, and again only as often as
\* something failed; and what is marked as sent is in the inbox.
RemindersAreKept ==
    /\ \A m \in Reminder : m.kind = "expiring" => Cardinality(Announcing(m)) <= 1 + lapses
    /\ \A k \in marks : Announcing(k.about) # {}
=============================================================================
