----------------------------- MODULE Notifications -----------------------------
(***************************************************************************)
(* The notification log (notification_service.py, notification_store.py,   *)
(* notification_retention.py, device_token_store.py, fcm_service.py, the   *)
(* /notifications routes of routes.py).                                    *)
(*                                                                         *)
(* Every event is first inserted into the log, then offered to the open    *)
(* app sessions, then pushed to the phone if the registered preference     *)
(* wants its severity; the last two are awaited and may fail, so that      *)
(* several events are under way together.  A task deletes expired rows     *)
(* once a day.  The phone lists rows and marks them read by their id.      *)
(* SQLite gives a new row the highest id in the table plus one.            *)
(***************************************************************************)
EXTENDS Integers, FiniteSets, FiniteSetsExt

CONSTANTS
    LastDay,      \* bound on the days that pass
    Retention,    \* notification_retention_days
    MaxRecorded,  \* bound on the notifications recorded
    Severities,   \* SEVERITIES
    Wants         \* _PUSH_SEVERITIES: the severities each push preference wants

ASSUME NotificationAssumption ==
    /\ LastDay \in Nat /\ Retention \in Nat /\ MaxRecorded \in Nat
    /\ \A p \in DOMAIN Wants : Wants[p] \subseteq Severities

VARIABLES
    today,       \* the UTC day
    recorded,    \* history: every notification, by its serial number
    rows,        \* the table: id, notification, whether it was read
    delivering,  \* notifications whose record() call is awaiting something
    device,      \* DeviceTokenStore: a phone is registered, and its preference
    pushed,      \* history: notifications pushed, with the preference that was read
    cleaned,     \* the day the retention task last cleaned for, in memory
    listed,      \* the rows the phone shows
    emptied      \* history: the retention task once deleted the newest row

notificationVars == <<today, recorded, rows, delivering, device, pushed, cleaned, listed, emptied>>

Serials == 1..MaxRecorded
Row == [id : Nat \ {0}, serial : Serials, read : BOOLEAN]

NotificationTypeOK ==
    /\ today \in 0..LastDay /\ cleaned \in -1..LastDay
    /\ DOMAIN recorded \in {1..k : k \in 0..MaxRecorded}
    /\ rows \subseteq Row /\ listed \subseteq [id : Nat \ {0}, serial : Serials]
    /\ \A r, s \in rows : r.id = s.id => r = s
    /\ \A d \in delivering : d.step \in {"dispatching", "pushing"} /\ d.serial \in Serials
    /\ device.preference \in DOMAIN Wants

NotificationInit ==
    /\ today = 0 /\ recorded = <<>> /\ rows = {} /\ delivering = {} /\ pushed = {}
    /\ device \in [registered : {FALSE}, preference : DOMAIN Wants]
    /\ cleaned = -1 /\ listed = {} /\ emptied = FALSE

\* INTEGER PRIMARY KEY without AUTOINCREMENT.
BrokenNextId(table) == Cardinality(table) + 1
NextId(table) == IF table = {} THEN 1 ELSE Max({r.id : r \in table}) + 1

\* NotificationStore.record, then the dispatch is awaited.
RecordNotification(severity) ==
    LET serial == Cardinality(DOMAIN recorded) + 1 IN
    /\ serial <= MaxRecorded
    /\ recorded' = [n \in 1..serial |-> IF n = serial THEN [severity |-> severity, day |-> today]
                                        ELSE recorded[n]]
    /\ rows' = rows \cup {[id |-> NextId(rows), serial |-> serial, read |-> FALSE]}
    /\ delivering' = delivering \cup {[serial |-> serial, step |-> "dispatching"]}
    /\ UNCHANGED <<today, device, pushed, cleaned, listed, emptied>>

\* The stream took it or not; the preference is read now, not when it was recorded.
Wanted(severity) == device.registered /\ severity \in Wants[device.preference]

Dispatched(d) ==
    /\ d \in delivering /\ d.step = "dispatching"
    /\ delivering' = (delivering \ {d}) \cup
            IF Wanted(recorded[d.serial].severity)
            THEN {[serial |-> d.serial, step |-> "pushing"]} ELSE {}
    /\ pushed' = IF Wanted(recorded[d.serial].severity)
                 THEN pushed \cup {[serial |-> d.serial, under |-> device.preference]} ELSE pushed
    /\ UNCHANGED <<today, recorded, rows, device, cleaned, listed, emptied>>

\* Firebase answers or fails: both end the call.
Pushed(d) ==
    /\ d \in delivering /\ d.step = "pushing"
    /\ delivering' = delivering \ {d}
    /\ UNCHANGED <<today, recorded, rows, device, pushed, cleaned, listed, emptied>>

\* POST /notifications/register-device.
RegisterDevice(p) ==
    /\ device' = [registered |-> TRUE, preference |-> p]
    /\ UNCHANGED <<today, recorded, rows, delivering, pushed, cleaned, listed, emptied>>

\* GET /notifications.
ListRows ==
    /\ listed' = {[id |-> r.id, serial |-> r.serial] : r \in rows}
    /\ UNCHANGED <<today, recorded, rows, delivering, device, pushed, cleaned, emptied>>

\* POST /notifications/<id>/read of a row the phone shows, and read-all.
MarkRead(ids) ==
    /\ rows' = {[r EXCEPT !.read = @ \/ r.id \in ids] : r \in rows}
    /\ UNCHANGED <<today, recorded, delivering, device, pushed, cleaned, listed, emptied>>

\* delete_expired_before: rows of days before the cutoff.
Expired(r) == recorded[r.serial].day < today - Retention

DueClean == cleaned # today

CleanUp ==
    /\ DueClean
    /\ rows' = {r \in rows : ~Expired(r)}
    /\ cleaned' = today
    /\ emptied' = (emptied \/ (rows # {} /\ rows' = {}))
    /\ UNCHANGED <<today, recorded, delivering, device, pushed, listed>>

NextDay ==
    /\ today < LastDay /\ cleaned = today   \* the task runs every hour
    /\ today' = today + 1
    /\ UNCHANGED <<recorded, rows, delivering, device, pushed, cleaned, listed, emptied>>

\* A restart drops the deliveries under way and the task's memory, not the log.
RestartNotifications ==
    /\ delivering' = {} /\ cleaned' = -1
    /\ UNCHANGED <<today, recorded, rows, device, pushed, listed, emptied>>

NotificationNext ==
    \/ \E s \in Severities : RecordNotification(s)
    \/ \E d \in delivering : Dispatched(d) \/ Pushed(d)
    \/ \E p \in DOMAIN Wants : RegisterDevice(p)
    \/ ListRows
    \/ \E r \in listed : MarkRead({r.id})
    \/ MarkRead({r.id : r \in rows})
    \/ CleanUp \/ NextDay \/ RestartNotifications

NotificationSpec == NotificationInit /\ [][NotificationNext]_notificationVars

-----------------------------------------------------------------------------
\* What the phone shows under an id is what a mark-read of that id marks, as
\* long as the log was never emptied (notification_store.py:42-53, 156-166):
\* ids are reused only after their highest one is gone.
ShownIdsStayTrue ==
    ~emptied => \A l \in listed, r \in rows : l.id = r.id => l.serial = r.serial

\* Once the retention task has run today, the log is exactly the notifications
\* of the retention window (notification_retention.py:26-34).
LogIsTheWindow ==
    cleaned = today =>
        {r.serial : r \in rows} =
            {n \in DOMAIN recorded : recorded[n].day >= today - Retention}

\* A push was wanted by the preference in force when the dispatch ended, and a
\* restart never repeats one (notification_service.py:63-93).
PushesAreWanted ==
    /\ \A p \in pushed : recorded[p.serial].severity \in Wants[p.under]
    /\ \A p, q \in pushed : p.serial = q.serial => p = q

\* What the phone was shown, what the log keeps and what was pushed agree with what
\* was recorded (the three above).
LogStaysTrue == ShownIdsStayTrue /\ LogIsTheWindow /\ PushesAreWanted
=============================================================================
