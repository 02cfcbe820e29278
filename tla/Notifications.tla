--------------------------- MODULE Notifications ---------------------------
(***************************************************************************)
(* Notices to one member of one organization.  Queueing a notice walks the *)
(* channels: for each one it asks the preference, the recipient and the    *)
(* suppression list, then inserts a delivery; the status of the notice is  *)
(* saved last.  Nothing holds these statements together, and dispatching   *)
(* never looks at the suppression list again.                              *)
(***************************************************************************)
EXTENDS Requests, Sequences, FiniteSets

CONSTANTS
    Channels,           \* email, push, ...
    PushChannel,        \* the one whose recipient is the newest device token
    Reasons,            \* NotificationSuppression.Reason
    NoticeKeys,         \* idempotency keys, "" for none
    DeliveryModes       \* NOTIFICATION_DELIVERY_MODE: log, disabled

VARIABLES
    notices,            \* the NotificationEvent rows
    deliveries,         \* the NotificationDelivery rows
    preferences,        \* NotificationPreference by channel and scope
    suppressions,       \* the NotificationSuppression row of each channel and reason
    pushToken,          \* the DevicePushToken row
    mode,               \* the mode the process was started with
    late                \* deliveries inserted since their channel was suppressed, and the
                        \* number the workers had cleared by then

noticeVars == <<notices, deliveries, preferences, suppressions, pushToken, mode, late>>

Scopes == {"organization", "user"}
Notice == [key: NoticeKeys, status: {"received", "queued", "skipped"}]
Delivery == [notice: Nat, channel: Channels, status: {"pending", "sent", "skipped"},
             attempts: Nat]

NotificationPreference == {"unset", "on", "off"}         \* no row, or its enabled column
NotificationSuppression == {"none", "active", "lapsed"}  \* no row, or by expires_at
DevicePushToken == {"none", "active", "revoked"}         \* no row, or its status

NoticeTypes ==
    /\ notices \in Seq(Notice)
    /\ deliveries \in Seq(Delivery)
    /\ preferences \in [Channels -> [Scopes -> NotificationPreference]]
    /\ suppressions \in [Channels -> [Reasons -> NotificationSuppression]]
    /\ pushToken \in DevicePushToken
    /\ mode \in DeliveryModes
    /\ late \in [Channels -> [made: Nat, cleared: 0 .. Cardinality(Workers)]]

NoticeInit ==
    /\ notices = <<>> /\ deliveries = <<>> /\ mode \in DeliveryModes
    /\ preferences = [c \in Channels |-> [s \in Scopes |-> "unset"]]
    /\ suppressions = [c \in Channels |-> [r \in Reasons |-> "none"]]
    /\ pushToken = "none"
    /\ late = [c \in Channels |-> [made |-> 0, cleared |-> 0]]

(* The preference of the organization decides, then the user's own.        *)
IsChannelEnabled(c) ==
    \/ preferences[c]["organization"] = "on"
    \/ preferences[c]["organization"] = "unset" /\ preferences[c]["user"] # "off"

HasRecipient(c) == c # PushChannel \/ pushToken = "active"
IsSuppressed(c) == \E r \in Reasons : suppressions[c][r] = "active"
NotAsked(c) == IsChannelEnabled(c) /\ HasRecipient(c)

MayDeliver(c) == IsChannelEnabled(c) /\ HasRecipient(c) /\ ~IsSuppressed(c)

NoticesOf(key) == {n \in DOMAIN notices : key # "" /\ notices[n].key = key}

(* A known key gives the notice back, and it is queued again.              *)
CreateNotice(w, key, channels) ==
    /\ IF NoticesOf(key) = {}
       THEN /\ notices' = Append(notices, [key |-> key, status |-> "received"])
            /\ Begin(w, [op |-> "enqueue", notice |-> Len(notices) + 1, todo |-> channels,
                         created |-> 0])
       ELSE \E n \in NoticesOf(key) :
               /\ Begin(w, [op |-> "enqueue", notice |-> n, todo |-> channels, created |-> 0])
               /\ UNCHANGED notices
    /\ UNCHANGED <<deliveries, preferences, suppressions, pushToken, mode, late>>

(* The dispatch view, or the task, for a notice that is already there.     *)
EnqueueAgain(w, n, channels) ==
    /\ Begin(w, [op |-> "enqueue", notice |-> n, todo |-> channels, created |-> 0])
    /\ UNCHANGED noticeVars

CheckChannel(w, c) ==
    /\ Holds(w, "enqueue")
    /\ c \in request[w].todo
    /\ LET rest == [request[w] EXCEPT !.todo = @ \ {c}]
       IN  IF MayDeliver(c)
           THEN Proceed(w, [op |-> "deliver", channel |-> c, then |-> rest])
           ELSE Proceed(w, rest)
    /\ UNCHANGED noticeVars

(* The template and the provider are looked up and the delivery inserted.  *)
CreateDelivery(w) ==
    /\ Holds(w, "deliver")
    /\ LET c == request[w].channel
           r == request[w].then
       IN /\ deliveries' = Append(deliveries, [notice |-> r.notice, channel |-> c,
                                               status |-> "pending", attempts |-> 0])
          /\ late' = IF IsSuppressed(c) THEN [late EXCEPT ![c].made = @ + 1] ELSE late
          /\ Proceed(w, [r EXCEPT !.created = @ + 1])
    /\ UNCHANGED <<notices, preferences, suppressions, pushToken, mode>>

SaveNoticeStatus(w) ==
    /\ Holds(w, "enqueue")
    /\ request[w].todo = {}
    /\ notices' = [notices EXCEPT ![request[w].notice].status =
                      IF request[w].created > 0 THEN "queued" ELSE "skipped"]
    /\ End(w)
    /\ UNCHANGED <<deliveries, preferences, suppressions, pushToken, mode, late>>

-----------------------------------------------------------------------------
(* dispatch_due_notifications reads the pending rows and sends them one by *)
(* one; the view sends a row of any status.                                *)
Pending == {n \in DOMAIN deliveries : deliveries[n].status = "pending"}

Held(rows) == [op |-> "dispatch", rows |-> [n \in rows |-> deliveries[n]]]

DispatchDue(w) ==
    /\ Pending # {}
    /\ TakeUp(w, Held(Pending))
    /\ UNCHANGED noticeVars

OpenDelivery(w, n) ==
    /\ Begin(w, Held({n}))
    /\ UNCHANGED noticeVars

(* mark_delivery_attempt saves the whole row it has read; the placeholder  *)
(* provider never fails.                                                   *)
MarkDeliveryAttempt(row) == [row EXCEPT !.status = "sent", !.attempts = @ + 1]

DispatchDelivery(w, n) ==
    /\ Holds(w, "dispatch")
    /\ n \in DOMAIN request[w].rows
    /\ deliveries' = IF mode = "disabled"
                     THEN [deliveries EXCEPT ![n].status = "skipped"]
                     ELSE [deliveries EXCEPT ![n] = MarkDeliveryAttempt(request[w].rows[n])]
    /\ LET rest == DOMAIN request[w].rows \ {n}
       IN  IF rest = {} THEN End(w)
           ELSE Proceed(w, [request[w] EXCEPT !.rows = [m \in rest |-> @[m]]])
    /\ UNCHANGED <<notices, preferences, suppressions, pushToken, mode, late>>

-----------------------------------------------------------------------------
(* The member's preferences and devices, and the suppression list.         *)
SetPreference(c, scope, to) ==
    /\ Serve
    /\ preferences' = [preferences EXCEPT ![c][scope] = to]
    /\ UNCHANGED <<notices, deliveries, suppressions, pushToken, mode, late>>

(* The workers that have asked for this channel and not yet inserted.      *)
Cleared(c) == {w \in Workers : Holds(w, "deliver") /\ request[w].channel = c}

(* One row per channel, recipient and reason: a lapsed row stands in the   *)
(* way of a new one.                                                       *)
Suppress(c, reason) ==
    /\ Serve
    /\ suppressions[c][reason] = "none"
    /\ suppressions' = [suppressions EXCEPT ![c][reason] = "active"]
    /\ late' = IF IsSuppressed(c) THEN late
               ELSE [late EXCEPT ![c] = [made |-> 0, cleared |-> Cardinality(Cleared(c))]]
    /\ UNCHANGED <<notices, deliveries, preferences, pushToken, mode>>

SuppressionLapses(c, reason) ==
    /\ suppressions[c][reason] = "active"
    /\ suppressions' = [suppressions EXCEPT ![c][reason] = "lapsed"]
    /\ UNCHANGED <<notices, deliveries, preferences, pushToken, mode, late, requestVars>>

(* update_or_create brings a revoked token back.                           *)
RegisterPushToken ==
    /\ Serve
    /\ pushToken' = "active"
    /\ UNCHANGED <<notices, deliveries, preferences, suppressions, mode, late>>

RevokePushToken ==
    /\ Serve
    /\ pushToken = "active"
    /\ pushToken' = "revoked"
    /\ UNCHANGED <<notices, deliveries, preferences, suppressions, mode, late>>

NoticeNext ==
    \/ \E w \in Workers, k \in NoticeKeys : CreateNotice(w, k, Channels)
    \/ \E w \in Workers, n \in DOMAIN notices : EnqueueAgain(w, n, Channels)
    \/ \E w \in Workers, c \in Channels : CheckChannel(w, c)
    \/ \E w \in Workers : CreateDelivery(w) \/ SaveNoticeStatus(w) \/ DispatchDue(w)
    \/ \E w \in Workers, n \in DOMAIN deliveries :
         OpenDelivery(w, n) \/ DispatchDelivery(w, n)
    \/ \E c \in Channels, s \in Scopes, to \in NotificationPreference : SetPreference(c, s, to)
    \/ \E c \in Channels, r \in Reasons : Suppress(c, r) \/ SuppressionLapses(c, r)
    \/ RegisterPushToken \/ RevokePushToken
    \/ \E w \in Workers : Abandon(w) /\ UNCHANGED noticeVars

NoticeSpec == RequestsInit /\ NoticeInit /\ [][NoticeNext]_<<requestVars, noticeVars>>

-----------------------------------------------------------------------------
(* A suppression stops new deliveries: once it is committed, its channel   *)
(* gets only the deliveries that some worker had already cleared, however  *)
(* many notices are queued or queued again (services.py:102, :109).        *)
SuppressionIsRespected == \A c \in Channels : late[c].made <= late[c].cleared
=============================================================================
