---------------------------- MODULE Notifications ----------------------------
(***************************************************************************)
(* Notification rules and the delivery ledger (internal/notification).     *)
(* Trigger lists the enabled rules, writes a ledger row per matching rule  *)
(* and only then sends.  The ledger's unique throttle key is what keeps    *)
(* concurrent triggers from sending twice in one window.                   *)
(***************************************************************************)
EXTENDS Naturals

CONSTANTS
    NotifRules,     \* ids of notification rules
    Window,         \* throttle_window of each rule, 0 for none
    Matching,       \* rules whose condition matches the events (ruleMatches)
    Reachable,      \* rules whose channel has a sender (ChannelRouter)
    DedupeKeys,     \* dedupe keys of events (defaultDedupeKey)
    Callers,        \* concurrent callers of Trigger
    MaxInstant      \* bound on the time of an event

ASSUME NotifAssumption ==
    /\ Window \in [NotifRules -> Nat]
    /\ Matching \subseteq NotifRules /\ Reachable \subseteq NotifRules
    /\ MaxInstant \in Nat

VARIABLES
    notifRule,      \* table notification_rule: "absent", "enabled" or "disabled"
    delivery,       \* table notification_delivery: <<rule, throttle key>> rows
    posted,         \* times a message left for each <<rule, throttle key>>
    trigger         \* the call of Trigger each caller is in

notifVars == <<notifRule, delivery, posted, trigger>>

Instants == 0..MaxInstant

NotTriggering == [phase |-> "idle"]

\* The local variables of Trigger: the rule being sent, the rules still to come.
Call(phase, event, rule, todo) ==
    [phase |-> phase, event |-> event, rule |-> rule, todo |-> todo]

\* A throttle key is the dedupe key with the bucket of the window the event
\* falls into, or with the instant itself when the rule has no window.
ThrottleKeys == DedupeKeys \X Instants

throttleKey(rule, event) ==
    IF Window[rule] = 0 THEN <<event.dedupe, event.at>>
    ELSE <<event.dedupe, event.at \div Window[rule]>>

-----------------------------------------------------------------------------
CreateNotificationRule(rule) ==
    /\ notifRule[rule] = "absent"
    /\ notifRule' = [notifRule EXCEPT ![rule] = "enabled"]
    /\ UNCHANGED <<delivery, posted, trigger>>

SetNotificationRuleEnabled(rule, to) ==
    /\ notifRule[rule] \in {"enabled", "disabled"} \ {to}
    /\ notifRule' = [notifRule EXCEPT ![rule] = to]
    /\ UNCHANGED <<delivery, posted, trigger>>

\* Trigger reads the enabled rules once; one that is disabled later is served.
ListEnabledNotificationRulesByTrigger ==
    {rule \in NotifRules : notifRule[rule] = "enabled"}

Trigger(c, event) ==
    /\ trigger[c] = NotTriggering
    /\ trigger' = [trigger EXCEPT ![c] =
          Call("next", event, "none", ListEnabledNotificationRulesByTrigger \cap Matching)]
    /\ UNCHANGED <<notifRule, delivery, posted>>

\* Mutant: the ledger takes a second row for the same key.
InsertTwice(rule, key) == delivery' = delivery \cup {<<rule, key>>}

\* INSERT into notification_delivery, unique on the rule and the throttle key.
InsertNotificationDelivery(rule, key) ==
    /\ <<rule, key>> \notin delivery
    /\ delivery' = delivery \cup {<<rule, key>>}

\* The row is written with status "sent" before anything is sent.
Deliver(c, rule) ==
    /\ trigger[c].phase = "next"
    /\ rule \in trigger[c].todo
    /\ InsertNotificationDelivery(rule, throttleKey(rule, trigger[c].event))
    /\ trigger' = [trigger EXCEPT ![c] = Call("send", @.event, rule, @.todo \ {rule})]
    /\ UNCHANGED <<notifRule, posted>>

\* The key is taken (ErrThrottled).
Throttle(c, rule) ==
    /\ trigger[c].phase = "next"
    /\ rule \in trigger[c].todo
    /\ <<rule, throttleKey(rule, trigger[c].event)>> \in delivery
    /\ trigger' = [trigger EXCEPT ![c] = Call("next", @.event, @.rule, @.todo \ {rule})]
    /\ UNCHANGED <<notifRule, delivery, posted>>

\* The message leaves; whether the receiver answers is the same to the ledger.
Send(c) ==
    LET rule == trigger[c].rule
        key == throttleKey(rule, trigger[c].event)
    IN  /\ trigger[c].phase = "send"
        /\ rule \in Reachable
        /\ posted' = [posted EXCEPT ![<<rule, key>>] = @ + 1]
        /\ trigger' = [trigger EXCEPT ![c] = Call("next", @.event, "none", @.todo)]
        /\ UNCHANGED <<notifRule, delivery>>

\* No sender for the channel, or a URL the guard refuses: nothing leaves, the
\* row stays "sent" and the failure is only counted.
SendFails(c) ==
    /\ trigger[c].phase = "send"
    /\ trigger' = [trigger EXCEPT ![c] = Call("next", @.event, "none", @.todo)]
    /\ UNCHANGED <<notifRule, delivery, posted>>

\* The caller is done, or it dies or fails before it is.
TriggerEnds(c) ==
    /\ trigger[c] # NotTriggering
    /\ trigger' = [trigger EXCEPT ![c] = NotTriggering]
    /\ UNCHANGED <<notifRule, delivery, posted>>

-----------------------------------------------------------------------------
NotifInit ==
    /\ notifRule = [rule \in NotifRules |-> "absent"]
    /\ delivery = {}
    /\ posted = [k \in NotifRules \X ThrottleKeys |-> 0]
    /\ trigger = [c \in Callers |-> NotTriggering]

Events == [dedupe : DedupeKeys, at : Instants]

NotifNext ==
    \/ \E rule \in NotifRules :
          \/ CreateNotificationRule(rule)
          \/ \E to \in {"enabled", "disabled"} : SetNotificationRuleEnabled(rule, to)
    \/ \E c \in Callers :
          \/ \E event \in Events : Trigger(c, event)
          \/ \E rule \in NotifRules : Deliver(c, rule) \/ Throttle(c, rule)
          \/ Send(c) \/ SendFails(c) \/ TriggerEnds(c)

NotifSpec == NotifInit /\ [][NotifNext]_notifVars

-----------------------------------------------------------------------------
Calls == [phase : {"next", "send"}, event : Events, rule : NotifRules \cup {"none"},
          todo : SUBSET NotifRules]

NotifTypeOK ==
    /\ notifRule \in [NotifRules -> {"absent", "enabled", "disabled"}]
    /\ delivery \subseteq NotifRules \X ThrottleKeys
    /\ posted \in [NotifRules \X ThrottleKeys -> Nat]
    /\ trigger \in [Callers -> Calls \cup {NotTriggering}]

\* One event in one window is announced at most once per rule, whoever else
\* triggers it meanwhile and whichever caller dies between ledger and send.
SentOncePerWindow ==
    \A row \in NotifRules \X ThrottleKeys :
        /\ posted[row] <= 1
        /\ posted[row] = 1 => row \in delivery

=============================================================================
