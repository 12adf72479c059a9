--------------------------- MODULE ServicesProofs ---------------------------
(***************************************************************************)
(* The services beside the scan pipeline, for every value of their         *)
(* constants: the throttle of notifications, report exports, the retention *)
(* run and the request limiter; and all services operators work with, at   *)
(* once.                                                                   *)
(***************************************************************************)
EXTENDS MCOperations, TicketsProofs, AccessProofs, FiniteSetTheorems, WellFoundedInduction, TLAPS

-----------------------------------------------------------------------------
(* Notifications: the ledger.                                              *)

Sending(c) == trigger[c].phase = "send"

\* The ledger row the caller is about to announce.
Slot(c) == <<trigger[c].rule, throttleKey(trigger[c].rule, trigger[c].event)>>

\* What a caller between ledger and send holds: a row that is written and not
\* announced yet, and that no other caller holds.  SentOncePerWindow alone is
\* not inductive, as nothing of it says that Send comes after the row.
SlotsInv ==
    /\ \A c \in Callers : Sending(c) =>
          trigger[c].rule \in NotifRules /\ Slot(c) \in delivery /\ posted[Slot(c)] = 0
    /\ \A c, d \in Callers : Sending(c) /\ Sending(d) /\ c # d => Slot(c) # Slot(d)

NotifInv == NotifTypeOK /\ SlotsInv /\ SentOncePerWindow

LEMMA QuotientFits ==
    ASSUME NEW a \in Nat, NEW w \in Nat, w # 0
    PROVE  a \div w \in Nat /\ a \div w <= a
<1>1. a \div w \in Nat
    OBVIOUS
<1>2. a = w * (a \div w) + (a % w) /\ a % w \in Nat
    OBVIOUS
<1>3. w * (a \div w) >= a \div w
    BY <1>1
<1> QED
    BY <1>1, <1>2, <1>3

\* A throttle key of an event is one of the ledger's keys (throttleKey).
LEMMA KeyFits ==
    ASSUME NEW rule \in NotifRules, NEW event \in Events
    PROVE  throttleKey(rule, event) \in ThrottleKeys
<1>1. event.dedupe \in DedupeKeys /\ event.at \in Instants /\ Window[rule] \in Nat
    BY NotifAssumption DEF Events
<1>2. CASE Window[rule] = 0
    BY <1>1, <1>2 DEF throttleKey, ThrottleKeys
<1>3. CASE Window[rule] # 0
    <2>1. event.at \in Nat /\ event.at <= MaxInstant /\ MaxInstant \in Nat
        BY <1>1, NotifAssumption DEF Instants
    <2>2. event.at \div Window[rule] \in Instants
        <3> DEFINE q == event.at \div Window[rule]
        <3>1. q \in Nat /\ q <= event.at
            BY <1>1, <1>3, <2>1, QuotientFits
        <3> HIDE DEF q
        <3>2. q \in Instants
            BY <2>1, <3>1 DEF Instants
        <3> QED
            BY <3>2 DEF q
    <2> QED
        BY <1>1, <1>3, <2>2 DEF throttleKey, ThrottleKeys
<1> QED
    BY <1>2, <1>3

LEMMA CallTypes ==
    ASSUME NotifTypeOK, NEW c \in Callers
    PROVE  /\ trigger[c].phase \in {"idle", "next", "send"}
           /\ trigger[c].phase # "idle" => trigger[c] \in Calls
    BY DEF NotifTypeOK, Calls, NotTriggering

LEMMA NotifInitInv == NotifInit => NotifInv
<1> SUFFICES ASSUME NotifInit PROVE NotifInv
    OBVIOUS
<1>1. NotifTypeOK
    BY DEF NotifInit, NotifTypeOK
<1>2. \A c \in Callers : ~Sending(c)
    BY DEF NotifInit, Sending, NotTriggering
<1>3. \A row \in NotifRules \X ThrottleKeys : posted[row] = 0
    BY DEF NotifInit
<1>4. SentOncePerWindow
    BY <1>3 DEF SentOncePerWindow
<1> QED
    BY <1>1, <1>2, <1>4 DEF NotifInv, SlotsInv

\* A step that leaves the ledger alone and starts no sending keeps the slots.
LEMMA SlotsKept ==
    ASSUME NotifInv, NotifTypeOK', delivery' = delivery, posted' = posted,
           \A c \in Callers : Sending(c)' => trigger'[c] = trigger[c]
    PROVE  NotifInv'
<1>1. \A c \in Callers : Sending(c)' => Sending(c) /\ Slot(c)' = Slot(c)
                                        /\ trigger'[c].rule = trigger[c].rule
    BY DEF Sending, Slot
<1>2. SlotsInv'
    BY <1>1 DEF SlotsInv, NotifInv
<1> QED
    BY <1>2 DEF NotifInv, SentOncePerWindow

LEMMA DeliverInv ==
    ASSUME NotifInv, NEW c \in Callers, NEW rule \in NotifRules, Deliver(c, rule)
    PROVE  NotifInv'
<1> DEFINE key == throttleKey(rule, trigger[c].event)
<1>1. trigger[c] \in Calls
    BY CallTypes DEF NotifInv, Deliver
<1>2. trigger[c].event \in Events /\ trigger[c].todo \subseteq NotifRules
    BY <1>1 DEF Calls
<1>3. key \in ThrottleKeys
    BY <1>2, KeyFits
<1>4. /\ delivery' = delivery \cup {<<rule, key>>} /\ <<rule, key>> \notin delivery
      /\ notifRule' = notifRule /\ posted' = posted
    BY DEF Deliver, InsertNotificationDelivery
<1>5. trigger' = [trigger EXCEPT ![c] = Call("send", trigger[c].event, rule,
                                             trigger[c].todo \ {rule})]
    BY DEF Deliver
<1> HIDE DEF key
<1>6. NotifTypeOK'
    <2>1. trigger' \in [Callers -> Calls \cup {NotTriggering}]
        BY <1>2, <1>5 DEF NotifInv, NotifTypeOK, Calls, Call
    <2> QED
        BY <1>3, <1>4, <2>1 DEF NotifInv, NotifTypeOK
<1>7. Slot(c)' = <<rule, key>> /\ trigger'[c].rule = rule
    BY <1>5 DEF Slot, key, NotifInv, NotifTypeOK, throttleKey, Call
<1>8. \A d \in Callers : d # c => trigger'[d] = trigger[d]
    BY <1>5 DEF NotifInv, NotifTypeOK
<1>9. posted[<<rule, key>>] = 0
    <2>1. posted[<<rule, key>>] \in Nat
        BY <1>3 DEF NotifInv, NotifTypeOK
    <2>2. posted[<<rule, key>>] <= 1 /\ posted[<<rule, key>>] # 1
        BY <1>3, <1>4 DEF NotifInv, SentOncePerWindow
    <2> QED
        BY <2>1, <2>2
<1>10. SlotsInv'
    <2>1. \A d \in Callers : d # c /\ Sending(d)' =>
             /\ Sending(d) /\ Slot(d)' = Slot(d) /\ trigger'[d].rule = trigger[d].rule
             /\ Slot(d) \in delivery
        BY <1>8 DEF Sending, Slot, SlotsInv, NotifInv
    <2>2. \A d \in Callers : d # c /\ Sending(d)' => Slot(d)' # <<rule, key>>
        BY <1>4, <2>1
    <2>3. \A d \in Callers : Sending(d)' =>
             trigger'[d].rule \in NotifRules /\ Slot(d)' \in delivery' /\ posted'[Slot(d)'] = 0
        BY <1>4, <1>7, <1>9, <2>1 DEF SlotsInv, NotifInv
    <2>4. \A d, e \in Callers : Sending(d)' /\ Sending(e)' /\ d # e => Slot(d)' # Slot(e)'
        BY <1>7, <2>1, <2>2 DEF SlotsInv, NotifInv
    <2> QED
        BY <2>3, <2>4 DEF SlotsInv
<1>11. SentOncePerWindow'
    BY <1>4 DEF NotifInv, SentOncePerWindow
<1> QED
    BY <1>6, <1>10, <1>11 DEF NotifInv

LEMMA SendInv ==
    ASSUME NotifInv, NEW c \in Callers, Send(c)
    PROVE  NotifInv'
<1> DEFINE rule == trigger[c].rule
           key  == throttleKey(rule, trigger[c].event)
<1>1. trigger[c] \in Calls
    BY CallTypes DEF NotifInv, Send
<1>2. /\ rule \in NotifRules /\ Slot(c) = <<rule, key>>
      /\ <<rule, key>> \in delivery /\ posted[<<rule, key>>] = 0
    BY DEF Send, Sending, Slot, NotifInv, SlotsInv
<1>3. key \in ThrottleKeys
    BY <1>1, <1>2, KeyFits DEF Calls
<1>4. /\ posted' = [posted EXCEPT ![<<rule, key>>] = @ + 1]
      /\ delivery' = delivery /\ notifRule' = notifRule
    BY DEF Send
<1>5. trigger' = [trigger EXCEPT ![c] = Call("next", trigger[c].event, "none",
                                             trigger[c].todo)]
    BY DEF Send
<1> HIDE DEF rule, key
<1>6. posted' \in [NotifRules \X ThrottleKeys -> Nat]
    BY <1>2, <1>3, <1>4 DEF NotifInv, NotifTypeOK
<1>7. NotifTypeOK'
    <2>1. trigger' \in [Callers -> Calls \cup {NotTriggering}]
        BY <1>1, <1>5 DEF NotifInv, NotifTypeOK, Calls, Call
    <2> QED
        BY <1>4, <1>6, <2>1 DEF NotifInv, NotifTypeOK
<1>8. ~Sending(c)' /\ \A d \in Callers : d # c => trigger'[d] = trigger[d]
    BY <1>5 DEF NotifInv, NotifTypeOK, Sending, Call
<1>9. \A d \in Callers : Sending(d)' =>
         /\ d # c /\ Sending(d) /\ Slot(d)' = Slot(d) /\ trigger'[d].rule = trigger[d].rule
    BY <1>8 DEF Sending, Slot
<1>10. \A k \in NotifRules \X ThrottleKeys :
          posted'[k] = IF k = <<rule, key>> THEN 1 ELSE posted[k]
    BY <1>2, <1>3, <1>4 DEF NotifInv, NotifTypeOK
<1>11. SlotsInv'
    <2>1. Sending(c)
        BY DEF Send, Sending
    <2>2. \A d \in Callers : Sending(d)' => Slot(d) # <<rule, key>>
        BY <1>2, <1>9, <2>1 DEF SlotsInv, NotifInv
    <2>3. \A d \in Callers : Sending(d)' =>
             /\ trigger[d].rule \in NotifRules /\ Slot(d) \in delivery /\ posted[Slot(d)] = 0
        BY <1>9 DEF SlotsInv, NotifInv
    <2>4. delivery \subseteq NotifRules \X ThrottleKeys
        BY DEF NotifInv, NotifTypeOK
    <2>5. \A d \in Callers : Sending(d)' => posted'[Slot(d)] = 0
        BY <1>10, <2>2, <2>3, <2>4
    <2>6. \A d, e \in Callers : Sending(d)' /\ Sending(e)' /\ d # e => Slot(d)' # Slot(e)'
        BY <1>9 DEF SlotsInv, NotifInv
    <2> QED
        BY <1>4, <1>9, <2>3, <2>5, <2>6 DEF SlotsInv
<1>12. SentOncePerWindow'
    <2> SUFFICES ASSUME NEW row \in NotifRules \X ThrottleKeys
                 PROVE  posted'[row] <= 1 /\ (posted'[row] = 1 => row \in delivery)
        BY <1>4 DEF SentOncePerWindow
    <2> QED
        BY <1>2, <1>10 DEF NotifInv, SentOncePerWindow
<1> QED
    BY <1>7, <1>11, <1>12 DEF NotifInv

LEMMA NotifStepInv == NotifInv /\ [NotifNext]_notifVars => NotifInv'
<1> SUFFICES ASSUME NotifInv, [NotifNext]_notifVars PROVE NotifInv'
    OBVIOUS
<1>1. ASSUME NEW rule \in NotifRules, CreateNotificationRule(rule) PROVE NotifInv'
    <2>1. NotifTypeOK'
        BY <1>1 DEF CreateNotificationRule, NotifInv, NotifTypeOK
    <2> QED
        BY <1>1, <2>1, SlotsKept DEF CreateNotificationRule
<1>2. ASSUME NEW rule \in NotifRules, NEW to \in {"enabled", "disabled"},
             SetNotificationRuleEnabled(rule, to)
      PROVE  NotifInv'
    <2>1. NotifTypeOK'
        BY <1>2 DEF SetNotificationRuleEnabled, NotifInv, NotifTypeOK
    <2> QED
        BY <1>2, <2>1, SlotsKept DEF SetNotificationRuleEnabled
<1>3. ASSUME NEW c \in Callers, NEW event \in Events, Trigger(c, event) PROVE NotifInv'
    <2>1. trigger' \in [Callers -> Calls \cup {NotTriggering}]
        BY <1>3 DEF Trigger, NotifInv, NotifTypeOK, Calls, Call, ListEnabledNotificationRulesByTrigger
    <2>2. NotifTypeOK'
        BY <1>3, <2>1 DEF Trigger, NotifInv, NotifTypeOK
    <2>3. \A d \in Callers : Sending(d)' => trigger'[d] = trigger[d]
        BY <1>3 DEF Trigger, Sending, NotifInv, NotifTypeOK, Call
    <2> QED
        BY <1>3, <2>2, <2>3, SlotsKept DEF Trigger
<1>4. ASSUME NEW c \in Callers, NEW rule \in NotifRules, Throttle(c, rule) PROVE NotifInv'
    <2>1. trigger[c] \in Calls
        BY <1>4, CallTypes DEF NotifInv, Throttle
    <2>2. trigger' = [trigger EXCEPT ![c] = Call("next", trigger[c].event, trigger[c].rule,
                                             trigger[c].todo \ {rule})]
        BY <1>4 DEF Throttle
    <2>3. trigger' \in [Callers -> Calls \cup {NotTriggering}]
        BY <2>1, <2>2 DEF NotifInv, NotifTypeOK, Calls, Call
    <2>4. NotifTypeOK'
        BY <1>4, <2>3 DEF Throttle, NotifInv, NotifTypeOK
    <2>5. \A d \in Callers : Sending(d)' => trigger'[d] = trigger[d]
        BY <2>2 DEF Sending, NotifInv, NotifTypeOK, Call
    <2> QED
        BY <1>4, <2>4, <2>5, SlotsKept DEF Throttle
<1>5. ASSUME NEW c \in Callers, SendFails(c) PROVE NotifInv'
    <2>1. trigger[c] \in Calls
        BY <1>5, CallTypes DEF NotifInv, SendFails
    <2>2. trigger' = [trigger EXCEPT ![c] = Call("next", trigger[c].event, "none",
                                             trigger[c].todo)]
        BY <1>5 DEF SendFails
    <2>3. trigger' \in [Callers -> Calls \cup {NotTriggering}]
        BY <2>1, <2>2 DEF NotifInv, NotifTypeOK, Calls, Call
    <2>4. NotifTypeOK'
        BY <1>5, <2>3 DEF SendFails, NotifInv, NotifTypeOK
    <2>5. \A d \in Callers : Sending(d)' => trigger'[d] = trigger[d]
        BY <2>2 DEF Sending, NotifInv, NotifTypeOK, Call
    <2> QED
        BY <1>5, <2>4, <2>5, SlotsKept DEF SendFails
<1>6. ASSUME NEW c \in Callers, TriggerEnds(c) PROVE NotifInv'
    <2>1. NotifTypeOK'
        BY <1>6 DEF TriggerEnds, NotifInv, NotifTypeOK
    <2>2. \A d \in Callers : Sending(d)' => trigger'[d] = trigger[d]
        BY <1>6 DEF TriggerEnds, NotTriggering, Sending, NotifInv, NotifTypeOK
    <2> QED
        BY <1>6, <2>1, <2>2, SlotsKept DEF TriggerEnds
<1>7. CASE UNCHANGED notifVars
    <2>1. NotifTypeOK'
        BY <1>7 DEF notifVars, NotifInv, NotifTypeOK
    <2> QED
        BY <1>7, <2>1, SlotsKept DEF notifVars
<1> QED
    BY <1>1, <1>2, <1>3, <1>4, <1>5, <1>6, <1>7, DeliverInv, SendInv DEF NotifNext

\* Every variable of the notification service keeps its type, the throttle
\* keys of all windows included (throttleKey).
THEOREM NotifTypeCorrect == NotifSpec => []NotifTypeOK
<1>1. NotifInv => NotifTypeOK
    BY DEF NotifInv
<1> QED
    BY <1>1, NotifInitInv, NotifStepInv, PTL DEF NotifSpec

\* No event is announced twice by one rule in one window, and none without
\* its ledger row, however many callers of Trigger race or die.
THEOREM NotifSentOnce == NotifSpec => []SentOncePerWindow
<1>1. NotifInv => SentOncePerWindow
    BY DEF NotifInv
<1> QED
    BY <1>1, NotifInitInv, NotifStepInv, PTL DEF NotifSpec

-----------------------------------------------------------------------------
(* Natural numbers and finite sets.                                        *)

LEMMA NatMin ==
    ASSUME NEW T, T \subseteq Nat, T # {}
    PROVE  \E x \in T : \A y \in T : x <= y
  <1> DEFINE R == OpToRel(<, Nat)
  <1>1. IsWellFoundedOn(R, Nat)
    BY NatLessThanWellFounded
  <1>2. \A a, b \in Nat : a < b => <<a, b>> \in R
    BY DEF OpToRel
  <1> HIDE DEF R
  <1>3. PICK x \in T : \A y \in T : ~ (<<y, x>> \in R)
    BY <1>1, WFMin
  <1>4. \A y \in T : ~(y < x)
    BY <1>2, <1>3
  <1> QED BY <1>4

LEMMA NatMax ==
    ASSUME NEW T, T \subseteq Nat, T # {}, NEW n \in Nat, \A y \in T : y <= n
    PROVE  \E x \in T : \A y \in T : y <= x
  <1> DEFINE U == {n - y : y \in T}
  <1>1. U \subseteq Nat /\ U # {}
    <2>1. \A y \in T : y \in Nat /\ y <= n
      OBVIOUS
    <2>2. \A y \in T : n - y \in Nat
      BY <2>1
    <2> QED BY <2>2
  <1>2. PICK u \in U : \A v \in U : u <= v
    BY <1>1, NatMin
  <1>3. PICK x \in T : u = n - x
    OBVIOUS
  <1>4. \A y \in T : n - x <= n - y
    BY <1>2, <1>3
  <1>5. ASSUME NEW y \in T PROVE y <= x
    <2>1. n - x <= n - y /\ x \in Nat /\ y \in Nat
      BY <1>4
    <2> QED BY <2>1
  <1> QED BY <1>5

-----------------------------------------------------------------------------
(* Report exports.                                                         *)

RowsBefore(S, i) == {j \in S : j < i}

LEMMA RankFacts ==
    ASSUME ReportTypeOK, NEW i \in TableRows
    PROVE  /\ IsFiniteSet(RowsBefore(table, i)) /\ Rank(i) = Cardinality(RowsBefore(table, i))
           /\ Rank(i) \in Nat
  <1>1. IsFiniteSet(table)
    BY ReportAssumption, FS_Subset DEF ReportTypeOK
  <1>2. IsFiniteSet(RowsBefore(table, i))
    BY <1>1, FS_Subset DEF RowsBefore
  <1>3. Cardinality(RowsBefore(table, i)) \in Nat
    BY <1>2, FS_CardinalityType
  <1> QED BY <1>2, <1>3 DEF Rank, RowsBefore

\* OFFSET beyond no row: when no row has a rank in the next batch, none has a
\* rank beyond it either.
LEMMA RanksHaveNoGap ==
    ASSUME ReportTypeOK, NEW offset \in Nat, exportRows(offset) = {}
    PROVE  \A i \in table : Rank(i) < offset
  <1> DEFINE A == {i \in table : Rank(i) >= offset}
  <1>1. table \subseteq TableRows /\ TableRows \subseteq Nat /\ BatchSize \in Nat /\ BatchSize >= 1
    BY ReportAssumption DEF ReportTypeOK
  <1>2. \A i \in table : Rank(i) \in Nat
    BY <1>1, RankFacts
  <1>3. ASSUME A # {} PROVE FALSE
    <2>1. PICK m \in A : \A y \in A : m <= y
      BY <1>1, <1>3, NatMin
    <2>2. m \in table /\ m \in Nat /\ Rank(m) \in Nat /\ Rank(m) >= offset
      BY <1>1, <1>2, <2>1
    <2>3. ~(Rank(m) < offset + BatchSize)
      BY <2>2 DEF exportRows
    <2>4. Rank(m) > offset
      BY <1>1, <2>2, <2>3
    <2> DEFINE P == RowsBefore(table, m)
    <2>5. P # {} /\ IsFiniteSet(P) /\ Rank(m) = Cardinality(P)
      BY <1>1, <2>2, <2>4, RankFacts, FS_EmptySet
    <2>6. PICK p \in P : \A y \in P : y <= p
      <3>1. P \subseteq Nat
        BY <1>1 DEF RowsBefore
      <3>2. ASSUME NEW y \in P PROVE y <= m
        <4>1. y < m /\ y \in Nat
          BY <3>1, <3>2 DEF RowsBefore
        <4> QED BY <2>2, <4>1
      <3> HIDE DEF P
      <3> QED BY <2>2, <2>5, <3>1, <3>2, NatMax
    <2>7. p \in table /\ p \in Nat /\ p < m /\ Rank(p) \in Nat
      BY <1>1, <1>2, <2>6 DEF RowsBefore
    <2>8. Rank(p) < offset
      <3>1. p \notin A
        BY <2>1, <2>2, <2>7
      <3> QED BY <2>7, <3>1
    <2>9. P = RowsBefore(table, p) \cup {p} /\ p \notin RowsBefore(table, p)
      <3>1. \A y \in table : y < m <=> y < p \/ y = p
        <4>1. ASSUME NEW y \in table PROVE y < m <=> y < p \/ y = p
          <5>1. y \in Nat
            BY <1>1
          <5>2. y < m => y <= p
            BY <2>6 DEF RowsBefore
          <5> QED BY <2>2, <2>7, <5>1, <5>2
        <4> QED BY <4>1
      <3>2. ~(p < p)
        BY <2>7
      <3> QED BY <2>7, <3>1, <3>2, Zenon DEF RowsBefore
    <2>10. Rank(m) = Rank(p) + 1
      <3>1. p \in TableRows
        BY <1>1, <2>7
      <3> HIDE DEF P
      <3> QED BY <2>5, <2>9, <3>1, RankFacts, FS_AddElement
    <2> QED BY <2>2, <2>3, <2>4, <2>7, <2>8, <2>10
  <1>4. A = {}
    BY <1>3
  <1>5. ASSUME NEW i \in table PROVE Rank(i) < offset
    BY <1>2, <1>4
  <1> QED BY <1>5

Writers == [phase : {"write", "done"}, job : Exports, offset : Nat,
            rows : SUBSET TableRows, must : SUBSET TableRows]
Claiming == [phase |-> "claim"]

CanExport(u) == RoleHasPerm(ReportRole[u], "report:export")

\* An export asks for what its creator may see, and a finished one shows it as
\* it was asked for.
RowsFit ==
    \A e \in Exports : export[e] # NoExport =>
        /\ export[e].fields \subseteq allowedFields(CanExport(export[e].by))
        /\ export[e].redacted = ~CanExport(export[e].by)
        /\ export[e].status = "succeeded" =>
              export[e].clear = redactedValue(export[e].fields, export[e].redacted)

\* A task belongs to a row that exists, and is active while a worker has it.
TasksFit ==
    \A e \in Exports :
        /\ export[e] = NoExport => exportTask[e] = NoTask
        /\ writer[e].phase \in {"claim", "write"} => exportTask[e].state = "active"
        /\ writer[e].phase = "done" => exportTask[e].state = "done"

\* The rows a worker has still to read are beyond its offset.
WriterFits(e) ==
    /\ writer[e].phase = "write" =>
          /\ export[writer[e].job].status = "running"
          /\ writer[e].must \subseteq table
          /\ \A i \in writer[e].must : i \in writer[e].rows \/ Rank(i) >= writer[e].offset
    /\ writer[e].phase = "done" =>
          /\ export[writer[e].job].status = "succeeded"
          /\ writer[e].must \subseteq export[writer[e].job].rows

WritersFit == \A e \in Exports : WriterFits(e)

OneWriter ==
    \A e, f \in Exports :
        writer[e].phase = "write" /\ writer[f].phase = "write" /\ writer[e].job = writer[f].job => e = f

ReportInv ==
    /\ ReportTypeOK
    /\ writer \in [Exports -> Writers \cup {Claiming, NotWriting}]
    /\ RowsFit /\ TasksFit /\ WritersFit /\ OneWriter /\ PendingHasTask

LEMMA ReportFacts ==
    /\ NoExport \notin ExportRow /\ NoExport.status = "absent"
    /\ Claiming.phase = "claim" /\ NotWriting.phase = "idle"
    /\ NoTask.state = "none"
    /\ \A x \in Writers \cup {Claiming, NotWriting} : x.phase \in {"write", "done"} => x \in Writers
    /\ \A r \in ExportRow \cup {NoExport} : r.status # "absent" => r \in ExportRow
  <1>1. NoExport \notin ExportRow /\ NoExport.status = "absent"
    BY DEF NoExport, ExportRow
  <1>2. Claiming.phase = "claim" /\ NotWriting.phase = "idle" /\ NoTask.state = "none"
    BY DEF Claiming, NotWriting, NoTask
  <1> QED BY <1>1, <1>2

\* The exports that wait and the tasks that may serve them.
TasksLeft == {e \in Exports : exportTask[e].state \in {"asked", "queued", "lost", "archived"}
                               \/ writer[e].phase = "claim"}

LEMMA CountKeeps ==
    ASSUME PendingHasTask,
           \/ PendingExports' \subseteq PendingExports /\ TasksLeft \subseteq TasksLeft'
           \/ PendingExports' = {}
           \/ \E e : /\ PendingExports' = PendingExports \cup {e}
                     /\ TasksLeft' = TasksLeft \cup {e} /\ e \notin TasksLeft
           \/ \E d, e : /\ d \in PendingExports /\ PendingExports' = PendingExports \ {d}
                        /\ TasksLeft' = TasksLeft \ {e}
    PROVE  PendingHasTask'
  <1>1. /\ IsFiniteSet(PendingExports) /\ IsFiniteSet(TasksLeft)
        /\ IsFiniteSet(PendingExports') /\ IsFiniteSet(TasksLeft')
    <2>1. /\ PendingExports \subseteq Exports /\ TasksLeft \subseteq Exports
          /\ PendingExports' \subseteq Exports /\ TasksLeft' \subseteq Exports
      BY DEF PendingExports, TasksLeft
    <2> QED BY <2>1, ReportAssumption, FS_Subset
  <1>2. /\ Cardinality(PendingExports) \in Nat /\ Cardinality(TasksLeft) \in Nat
        /\ Cardinality(PendingExports') \in Nat /\ Cardinality(TasksLeft') \in Nat
    BY <1>1, FS_CardinalityType
  <1>3. Cardinality(PendingExports) <= Cardinality(TasksLeft)
    BY DEF PendingHasTask, TasksLeft
  <1> SUFFICES Cardinality(PendingExports') <= Cardinality(TasksLeft')
    BY DEF PendingHasTask, TasksLeft
  <1>4. CASE PendingExports' \subseteq PendingExports /\ TasksLeft \subseteq TasksLeft'
    <2>1. /\ Cardinality(PendingExports') <= Cardinality(PendingExports)
          /\ Cardinality(TasksLeft) <= Cardinality(TasksLeft')
      BY <1>1, <1>4, FS_Subset
    <2> QED BY <1>2, <1>3, <2>1
  <1>5. CASE PendingExports' = {}
    <2>1. Cardinality(PendingExports') = 0
      BY <1>5, FS_EmptySet
    <2> QED BY <1>2, <2>1
  <1>6. ASSUME NEW e, PendingExports' = PendingExports \cup {e},
               TasksLeft' = TasksLeft \cup {e}, e \notin TasksLeft
        PROVE  Cardinality(PendingExports') <= Cardinality(TasksLeft')
    <2>1. /\ Cardinality(PendingExports') <= Cardinality(PendingExports) + 1
          /\ Cardinality(TasksLeft') = Cardinality(TasksLeft) + 1
      BY <1>1, <1>2, <1>6, FS_AddElement
    <2> QED BY <1>2, <1>3, <2>1
  <1>7. ASSUME NEW d, NEW e, d \in PendingExports, PendingExports' = PendingExports \ {d},
               TasksLeft' = TasksLeft \ {e}
        PROVE  Cardinality(PendingExports') <= Cardinality(TasksLeft')
    <2>1. /\ Cardinality(PendingExports') = Cardinality(PendingExports) - 1
          /\ Cardinality(TasksLeft') >= Cardinality(TasksLeft) - 1
      BY <1>1, <1>2, <1>7, FS_RemoveElement
    <2> QED BY <1>2, <1>3, <2>1
  <1> QED BY <1>4, <1>5, <1>6, <1>7

\* A writer keeps its promise while its export and the table stay.
LEMMA WriterKept ==
    ASSUME NEW f \in Exports, WriterFits(f), writer'[f] = writer[f], table' = table,
           writer[f].phase \in {"write", "done"} => export'[writer[f].job] = export[writer[f].job]
    PROVE  WriterFits(f)'
  <1>1. \A i : Rank(i)' = Rank(i)
    BY DEF Rank
  <1> QED BY <1>1 DEF WriterFits

\* A step that changes no export and begins no writing.
LEMMA TaskStepKeeps ==
    ASSUME ReportInv, NEW e \in Exports, NEW t, NEW x,
           t \in [tries : 0..MaxExportRetry,
                  state : {"none", "asked", "queued", "active", "done", "lost", "archived"}],
           x \in {Claiming, NotWriting, writer[e]},
           exportTask' = [exportTask EXCEPT ![e] = t], writer' = [writer EXCEPT ![e] = x],
           UNCHANGED <<export, table>>, export[e] = NoExport => t = NoTask,
           x.phase \in {"claim", "write"} => t.state = "active",
           x.phase = "done" => t.state = "done", PendingHasTask'
    PROVE  ReportInv'
  <1>1. writer' \in [Exports -> Writers \cup {Claiming, NotWriting}]
    BY DEF ReportInv
  <1>2. \A f \in Exports : /\ writer'[f].phase \in {"write", "done"} => writer'[f] = writer[f]
                           /\ f # e => writer'[f] = writer[f] /\ exportTask'[f] = exportTask[f]
    BY ReportFacts DEF ReportInv, ReportTypeOK
  <1>3. ReportTypeOK'
    <2>1. \A f \in Exports : writer'[f].phase \in {"write", "done"} =>
             writer'[f].job \in Exports /\ writer'[f].offset \in Nat
      BY <1>2 DEF ReportInv, ReportTypeOK
    <2> QED BY <2>1 DEF ReportInv, ReportTypeOK
  <1>4. RowsFit'
    BY DEF ReportInv, RowsFit, allowedFields, redactedValue, CanExport
  <1>5. TasksFit'
    BY <1>2 DEF ReportInv, ReportTypeOK, TasksFit
  <1>6. WritersFit'
    BY <1>2 DEF ReportInv, WritersFit, WriterFits, Rank
  <1>7. OneWriter'
    BY <1>2 DEF ReportInv, OneWriter
  <1> QED BY <1>1, <1>3, <1>4, <1>5, <1>6, <1>7 DEF ReportInv

TaskStates == [tries : 0..MaxExportRetry,
               state : {"none", "asked", "queued", "active", "done", "lost", "archived"}]

LEMMA SetTaskFine ==
    ASSUME ReportInv, NEW e \in Exports,
           NEW state \in {"none", "asked", "queued", "active", "done", "lost", "archived"},
           SetTask(e, state)
    PROVE  \E t \in TaskStates : t.state = state /\ exportTask' = [exportTask EXCEPT ![e] = t]
  <1> DEFINE t == [exportTask[e] EXCEPT !.state = state]
  <1>1. exportTask[e] \in TaskStates
    BY DEF ReportInv, ReportTypeOK, TaskStates
  <1>2. t \in TaskStates /\ t.state = state
    BY <1>1 DEF TaskStates
  <1>3. exportTask' = [exportTask EXCEPT ![e] = t]
    BY DEF SetTask
  <1> QED BY <1>2, <1>3

LEMMA RetryFine ==
    ASSUME ReportInv, NEW e \in Exports, RetryTask(e)
    PROVE  /\ \E t \in TaskStates : /\ t.state \in {"queued", "archived"}
                                    /\ exportTask' = [exportTask EXCEPT ![e] = t]
           /\ writer' = [writer EXCEPT ![e] = NotWriting]
  <1> DEFINE r == exportTask[e]
             t == IF r.tries < MaxExportRetry THEN [state |-> "queued", tries |-> r.tries + 1]
                  ELSE [r EXCEPT !.state = "archived"]
  <1>1. r \in TaskStates
    BY DEF ReportInv, ReportTypeOK, TaskStates
  <1>2. t \in TaskStates /\ t.state \in {"queued", "archived"}
    <2>1. CASE r.tries < MaxExportRetry
      <3>1. r.tries + 1 \in 0..MaxExportRetry
        BY <1>1, <2>1, ReportAssumption DEF TaskStates
      <3> QED BY <2>1, <3>1 DEF TaskStates
    <2>2. CASE ~(r.tries < MaxExportRetry)
      BY <1>1, <2>2 DEF TaskStates
    <2> QED BY <2>1, <2>2
  <1>3. exportTask' = [exportTask EXCEPT ![e] = t] /\ writer' = [writer EXCEPT ![e] = NotWriting]
    BY DEF RetryTask, Leaves
  <1> QED BY <1>2, <1>3

\* An export whose worker has left counts as one that may be served.
LEMMA RetryCounts ==
    ASSUME ReportInv, NEW e \in Exports, RetryTask(e), PendingExports' \subseteq PendingExports
    PROVE  PendingHasTask'
  <1>1. PICK t \in TaskStates : /\ t.state \in {"queued", "archived"}
                                /\ exportTask' = [exportTask EXCEPT ![e] = t]
    BY RetryFine
  <1>2. writer' = [writer EXCEPT ![e] = NotWriting]
    BY RetryFine
  <1>3. TasksLeft \subseteq TasksLeft'
    BY <1>1, <1>2 DEF ReportInv, ReportTypeOK, TasksLeft
  <1> QED BY <1>3, CountKeeps DEF ReportInv

LEMMA QueueKeeps ==
    ASSUME ReportInv, NEW e \in Exports,
           \/ EnqueueReportExport(e) \/ EnqueueExportFails(e) \/ TakeExportTask(e)
           \/ NothingPending(e) \/ ClaimFails(e) \/ ExportWorkerDies(e)
    PROVE  ReportInv'
  <1>1. /\ UNCHANGED <<export, table>> /\ PendingExports' = PendingExports
        /\ exportTask \in [Exports -> TaskStates]
        /\ writer \in [Exports -> Writers \cup {Claiming, NotWriting}]
    BY DEF EnqueueReportExport, EnqueueExportFails, TakeExportTask, NothingPending, ClaimFails,
           ExportWorkerDies, PendingExports, ReportInv, ReportTypeOK, TaskStates
  <1>2. CASE EnqueueReportExport(e) \/ EnqueueExportFails(e)
    <2>1. PICK t \in TaskStates : /\ t.state \in {"queued", "lost"}
                                  /\ exportTask' = [exportTask EXCEPT ![e] = t]
      BY <1>2, SetTaskFine DEF EnqueueReportExport, EnqueueExportFails
    <2>2. /\ exportTask[e].state = "asked" /\ writer' = writer
          /\ writer' = [writer EXCEPT ![e] = writer[e]]
      BY <1>1, <1>2 DEF EnqueueReportExport, EnqueueExportFails
    <2>3. export[e] # NoExport /\ writer[e].phase \notin {"claim", "write", "done"}
      BY <2>2, ReportFacts DEF ReportInv, TasksFit
    <2>4. TasksLeft \subseteq TasksLeft'
      BY <1>1, <2>1, <2>2 DEF TasksLeft
    <2>5. PendingHasTask'
      BY <1>1, <2>4, CountKeeps DEF ReportInv
    <2> QED BY <1>1, <2>1, <2>2, <2>3, <2>5, TaskStepKeeps DEF TaskStates
  <1>3. CASE TakeExportTask(e)
    <2>1. PICK t \in TaskStates : t.state = "active" /\ exportTask' = [exportTask EXCEPT ![e] = t]
      BY <1>3, SetTaskFine DEF TakeExportTask
    <2>2. exportTask[e].state = "queued" /\ writer' = [writer EXCEPT ![e] = Claiming]
      BY <1>3 DEF TakeExportTask, Claiming
    <2>3. export[e] # NoExport
      BY <2>2, ReportFacts DEF ReportInv, TasksFit
    <2>4. TasksLeft \subseteq TasksLeft'
      BY <1>1, <2>1, <2>2, ReportFacts DEF TasksLeft
    <2>5. PendingHasTask'
      BY <1>1, <2>4, CountKeeps DEF ReportInv
    <2> QED BY <1>1, <2>1, <2>2, <2>3, <2>5, TaskStepKeeps, ReportFacts DEF TaskStates
  <1>4. CASE NothingPending(e)
    <2>1. PICK t \in TaskStates : t.state = "done" /\ exportTask' = [exportTask EXCEPT ![e] = t]
      BY <1>4, SetTaskFine DEF NothingPending
    <2>2. /\ writer[e].phase = "claim" /\ PendingExports = {}
          /\ writer' = [writer EXCEPT ![e] = NotWriting]
      BY <1>4 DEF NothingPending, Leaves
    <2>3. export[e] # NoExport
      BY <2>2, ReportFacts DEF ReportInv, TasksFit
    <2>4. PendingHasTask'
      BY <1>1, <2>2, CountKeeps DEF ReportInv
    <2> QED BY <1>1, <2>1, <2>2, <2>3, <2>4, TaskStepKeeps, ReportFacts DEF TaskStates
  <1>5. CASE ClaimFails(e) \/ ExportWorkerDies(e)
    <2>1. RetryTask(e) /\ writer[e].phase \in {"claim", "write"}
      BY <1>5 DEF ClaimFails, ExportWorkerDies
    <2>2. PICK t \in TaskStates : /\ t.state \in {"queued", "archived"}
                                  /\ exportTask' = [exportTask EXCEPT ![e] = t]
      BY <2>1, RetryFine
    <2>3. writer' = [writer EXCEPT ![e] = NotWriting] /\ PendingHasTask'
      BY <1>1, <2>1, RetryFine, RetryCounts
    <2>4. export[e] # NoExport
      BY <2>1, ReportFacts DEF ReportInv, TasksFit
    <2> QED BY <1>1, <2>2, <2>3, <2>4, TaskStepKeeps, ReportFacts DEF TaskStates
  <1> QED BY <1>2, <1>3, <1>4, <1>5

LEMMA FieldsFit ==
    ASSUME NEW requested \in SUBSET ReportFields, NEW can \in BOOLEAN
    PROVE  /\ normalizeFields(requested, can) \subseteq allowedFields(can)
           /\ normalizeFields(requested, can) \subseteq ReportFields
  BY DEF normalizeFields, allowedFields

LEMMA CreateExportKeeps ==
    ASSUME ReportInv, NEW e \in Exports, NEW u \in ReportUsers, NEW F \in SUBSET ReportFields,
           CreateExport(e, u, F)
    PROVE  ReportInv'
  <1> DEFINE can == CanExport(u)
             fields == normalizeFields(F, can)
             r == [status |-> "pending", fields |-> fields, redacted |-> ~can, by |-> u,
                   rows |-> {}, clear |-> {}]
             t == [state |-> "asked", tries |-> 0]
  <1>1. can \in BOOLEAN
    BY DEF CanExport, RoleHasPerm
  <1>2. /\ export' = [export EXCEPT ![e] = r] /\ exportTask' = [exportTask EXCEPT ![e] = t]
        /\ UNCHANGED <<writer, table>>
    BY DEF CreateExport, CreateReportExport, CanExport
  <1>3. export[e] = NoExport
    <2>1. e >= e
      BY ReportAssumption
    <2> QED BY <2>1 DEF CreateExport
  <1>4. /\ r \in ExportRow /\ r.fields \subseteq allowedFields(CanExport(r.by))
        /\ r.redacted = ~CanExport(r.by) /\ r.status = "pending"
    <2>1. fields \subseteq allowedFields(can) /\ fields \subseteq ReportFields
      BY <1>1, FieldsFit
    <2> HIDE DEF fields, can
    <2>2. r \in ExportRow
      BY <1>1, <2>1 DEF ExportRow
    <2> QED BY <2>1, <2>2 DEF can
  <1>5. t \in TaskStates /\ t.state = "asked"
    BY ReportAssumption DEF TaskStates
  <1> HIDE DEF r, t, can, fields
  <1>6. /\ export \in [Exports -> ExportRow \cup {NoExport}]
        /\ exportTask \in [Exports -> TaskStates]
        /\ export' \in [Exports -> ExportRow \cup {NoExport}]
        /\ exportTask' \in [Exports -> TaskStates]
    BY <1>2, <1>4, <1>5 DEF ReportInv, ReportTypeOK, TaskStates
  <1>7. exportTask[e] = NoTask /\ writer[e].phase \notin {"claim", "write", "done"}
    BY <1>3, ReportFacts DEF ReportInv, TasksFit
  <1>8. \A f \in Exports : /\ writer[f].phase \in {"write", "done"} => writer[f].job # e
                           /\ f # e => export'[f] = export[f] /\ exportTask'[f] = exportTask[f]
    <2>1. \A f \in Exports : writer[f].phase \in {"write", "done"} => writer[f].job # e
      BY <1>3, ReportFacts DEF ReportInv, WritersFit, WriterFits
    <2> QED BY <1>2, <1>6, <2>1
  <1>9. \A f \in Exports : writer[f].phase \in {"write", "done"} => writer[f].job \in Exports
    BY DEF ReportInv, ReportTypeOK
  <1>10. ReportTypeOK'
    BY <1>2, <1>6 DEF ReportInv, ReportTypeOK, TaskStates
  <1>11. RowsFit'
    <2>1. export'[e] = r
      BY <1>2, <1>6
    <2>2. ASSUME NEW f \in Exports, export'[f] # NoExport
          PROVE  /\ export'[f].fields \subseteq allowedFields(CanExport(export'[f].by))
                 /\ export'[f].redacted = ~CanExport(export'[f].by)
                 /\ export'[f].status = "succeeded" =>
                       export'[f].clear = redactedValue(export'[f].fields, export'[f].redacted)
      <3>1. CASE f = e
        BY <1>4, <2>1, <3>1
      <3>2. CASE f # e
        BY <1>8, <2>2, <3>2 DEF ReportInv, RowsFit
      <3> QED BY <3>1, <3>2
    <2> QED BY <2>2 DEF RowsFit
  <1>12. TasksFit'
    <2>1. export'[e] # NoExport
      BY <1>2, <1>4, <1>6, ReportFacts
    <2> QED BY <1>2, <1>7, <1>8, <2>1 DEF ReportInv, TasksFit
  <1>13. WritersFit'
    BY <1>2, <1>8, <1>9, WriterKept DEF ReportInv, WritersFit
  <1>14. OneWriter'
    BY <1>2 DEF ReportInv, OneWriter
  <1>15. PendingHasTask'
    <2>1. PendingExports' = PendingExports \cup {e}
      BY <1>2, <1>4, <1>6, <1>8 DEF PendingExports
    <2>2. TasksLeft' = TasksLeft \cup {e} /\ e \notin TasksLeft
      BY <1>2, <1>5, <1>6, <1>7, <1>8, ReportFacts DEF TasksLeft
    <2> QED BY <2>1, <2>2, CountKeeps DEF ReportInv
  <1> QED BY <1>2, <1>10, <1>11, <1>12, <1>13, <1>14, <1>15 DEF ReportInv

\* An export d that exists gets a new status, or is finished.
LEMMA StatusKeeps ==
    ASSUME ReportInv, NEW d \in Exports, NEW r, export[d] \in ExportRow,
           export' = [export EXCEPT ![d] = r], r \in ExportRow, r.fields = export[d].fields,
           r.redacted = export[d].redacted, r.by = export[d].by,
           r.status = "succeeded" => r.clear = redactedValue(r.fields, r.redacted)
    PROVE  /\ export' \in [Exports -> ExportRow \cup {NoExport}]
           /\ RowsFit'
           /\ \A f \in Exports : export'[f] = NoExport <=> export[f] = NoExport
           /\ \A f \in Exports : f # d => export'[f] = export[f]
           /\ export'[d] = r
  <1>1. export \in [Exports -> ExportRow \cup {NoExport}]
    BY DEF ReportInv, ReportTypeOK
  <1>2. /\ export' \in [Exports -> ExportRow \cup {NoExport}]
        /\ \A f \in Exports : f # d => export'[f] = export[f]
        /\ export'[d] = r
    BY <1>1
  <1>3. \A f \in Exports : export'[f] = NoExport <=> export[f] = NoExport
    BY <1>2, ReportFacts
  <1>4. export[d] # NoExport
    BY ReportFacts
  <1>5. ASSUME NEW f \in Exports, export'[f] # NoExport
        PROVE  /\ export'[f].fields \subseteq allowedFields(CanExport(export'[f].by))
               /\ export'[f].redacted = ~CanExport(export'[f].by)
               /\ export'[f].status = "succeeded" =>
                     export'[f].clear = redactedValue(export'[f].fields, export'[f].redacted)
    <2>1. CASE f = d
      BY <1>2, <1>4, <2>1 DEF ReportInv, RowsFit
    <2>2. CASE f # d
      BY <1>2, <1>5, <2>2 DEF ReportInv, RowsFit
    <2> QED BY <2>1, <2>2
  <1>6. RowsFit'
    BY <1>5 DEF RowsFit
  <1> QED BY <1>2, <1>3, <1>6

LEMMA ProcessKeeps ==
    ASSUME ReportInv, NEW e \in Exports, NEW d \in Exports, ProcessNextExport(e, d)
    PROVE  ReportInv'
  <1> DEFINE r == [export[d] EXCEPT !.status = "running"]
             x == [phase |-> "write", job |-> d, offset |-> 0, rows |-> {}, must |-> table]
  <1>1. /\ writer[e].phase = "claim" /\ export[d].status = "pending"
        /\ writer' = [writer EXCEPT ![e] = x] /\ UNCHANGED <<exportTask, table>>
    BY DEF ProcessNextExport, ClaimPendingReportExport, PendingExports
  <1>2. export[d] \in ExportRow
    BY <1>1, ReportFacts DEF ReportInv, ReportTypeOK
  <1>3. /\ r \in ExportRow /\ r.fields = export[d].fields /\ r.redacted = export[d].redacted
        /\ r.by = export[d].by /\ r.status = "running"
    BY <1>2 DEF ExportRow
  <1>4. export' = [export EXCEPT ![d] = r]
    BY DEF ProcessNextExport, MarkReportExportRunning, ReportInv, ReportTypeOK
  <1>5. /\ x \in Writers /\ x.phase = "write" /\ x.job = d /\ x.offset = 0 /\ x.must = table
    BY DEF Writers, ReportInv, ReportTypeOK
  <1> HIDE DEF r, x
  <1>6. /\ export' \in [Exports -> ExportRow \cup {NoExport}] /\ RowsFit'
        /\ \A f \in Exports : export'[f] = NoExport <=> export[f] = NoExport
        /\ \A f \in Exports : f # d => export'[f] = export[f]
        /\ export'[d] = r
    BY <1>2, <1>3, <1>4, StatusKeeps
  <1>7. /\ writer' \in [Exports -> Writers \cup {Claiming, NotWriting}]
        /\ writer'[e] = x /\ \A f \in Exports : f # e => writer'[f] = writer[f]
    BY <1>1, <1>5 DEF ReportInv
  <1>8. \A f \in Exports : writer[f].phase \in {"write", "done"} => writer[f].job \in Exports /\ writer[f].job # d
    BY <1>1 DEF ReportInv, ReportTypeOK, WritersFit, WriterFits
  <1>9. ReportTypeOK'
    <2>1. \A f \in Exports : writer'[f].phase \in {"write", "done"} =>
             writer'[f].job \in Exports /\ writer'[f].offset \in Nat
      <3>1. 0 \in Nat
        OBVIOUS
      <3> QED BY <1>5, <1>7, <3>1 DEF ReportInv, ReportTypeOK
    <2> QED BY <1>1, <1>6, <2>1 DEF ReportInv, ReportTypeOK
  <1>10. TasksFit'
    BY <1>1, <1>5, <1>6, <1>7 DEF ReportInv, TasksFit
  <1>11. WritersFit'
    <2>1. WriterFits(e)'
      <3>1. \A i \in table : Rank(i)' = Rank(i) /\ Rank(i) \in Nat
        BY <1>1, RankFacts DEF Rank, ReportInv, ReportTypeOK
      <3> QED BY <1>1, <1>3, <1>5, <1>6, <1>7, <3>1 DEF WriterFits
    <2>2. ASSUME NEW f \in Exports, f # e PROVE WriterFits(f)'
      BY <1>1, <1>6, <1>7, <1>8, <2>2, WriterKept DEF ReportInv, WritersFit
    <2> QED BY <2>1, <2>2 DEF WritersFit
  <1>12. OneWriter'
    BY <1>5, <1>7, <1>8 DEF ReportInv, OneWriter
  <1>13. PendingHasTask'
    <2>1. d \in PendingExports /\ PendingExports' = PendingExports \ {d}
      BY <1>1, <1>3, <1>6 DEF PendingExports
    <2>2. exportTask[e].state = "active"
      BY <1>1 DEF ReportInv, TasksFit
    <2>3. TasksLeft' = TasksLeft \ {e}
      BY <1>1, <1>5, <1>7, <2>2 DEF TasksLeft
    <2> QED BY <2>1, <2>3, CountKeeps DEF ReportInv
  <1> QED BY <1>6, <1>7, <1>9, <1>10, <1>11, <1>12, <1>13 DEF ReportInv

LEMMA WriteBatchKeeps ==
    ASSUME ReportInv, NEW e \in Exports, WriteBatch(e)
    PROVE  ReportInv'
  <1> DEFINE x == writer[e]
             batch == exportRows(x.offset)
             y == [x EXCEPT !.rows = x.rows \cup batch, !.offset = x.offset + BatchSize]
  <1>1. x.phase = "write" /\ UNCHANGED <<export, exportTask, table>>
    BY DEF WriteBatch
  <1>2. x \in Writers /\ BatchSize \in Nat /\ table \subseteq TableRows
    BY <1>1, ReportFacts, ReportAssumption DEF ReportInv, ReportTypeOK
  <1>3. batch \subseteq TableRows /\ batch \subseteq table
    BY <1>2 DEF exportRows
  <1>4. writer' = [writer EXCEPT ![e] = y]
    BY <1>2 DEF WriteBatch, ReportInv, Writers
  <1>5. x.offset \in Nat /\ x.must \subseteq table
    BY <1>1, <1>2 DEF Writers, ReportInv, WritersFit, WriterFits
  <1>6. /\ y \in Writers /\ y.phase = "write" /\ y.job = x.job /\ y.must = x.must
        /\ y.rows = x.rows \cup batch /\ y.offset = x.offset + BatchSize
    <2>1. x.rows \cup batch \in SUBSET TableRows
      BY <1>2, <1>3 DEF Writers
    <2>2. x.offset + BatchSize \in Nat
      BY <1>2, <1>5
    <2> HIDE DEF batch, x
    <2> QED BY <1>1, <1>2, <2>1, <2>2 DEF Writers
  <1>7. \A i \in x.must : i \in y.rows \/ Rank(i) >= y.offset
    <2> SUFFICES ASSUME NEW i \in x.must, i \notin x.rows, i \notin batch
                 PROVE  Rank(i) >= x.offset + BatchSize
      BY <1>6
    <2>1. i \in table /\ Rank(i) \in Nat
      BY <1>2, <1>5, RankFacts DEF ReportInv
    <2>2. Rank(i) >= x.offset
      BY <1>1 DEF ReportInv, WritersFit, WriterFits
    <2>3. ~(Rank(i) < x.offset + BatchSize)
      BY <2>1, <2>2 DEF exportRows
    <2> QED BY <1>2, <1>5, <2>1, <2>3
  <1> HIDE DEF y, batch
  <1>8. /\ writer' \in [Exports -> Writers \cup {Claiming, NotWriting}]
        /\ writer'[e] = y /\ \A f \in Exports : f # e => writer'[f] = writer[f]
    BY <1>4, <1>6 DEF ReportInv
  <1>9. y.job \in Exports /\ y.offset \in Nat
    BY <1>6 DEF Writers
  <1>10. ReportTypeOK'
    BY <1>1, <1>6, <1>8, <1>9 DEF ReportInv, ReportTypeOK
  <1>11. RowsFit'
    BY <1>1 DEF ReportInv, RowsFit, allowedFields, redactedValue, CanExport
  <1>12. TasksFit'
    BY <1>1, <1>6, <1>8 DEF ReportInv, TasksFit
  <1>13. WritersFit'
    <2>1. WriterFits(e)'
      <3>1. \A i : Rank(i)' = Rank(i)
        BY <1>1 DEF Rank
      <3> QED BY <1>1, <1>6, <1>7, <1>8, <3>1 DEF ReportInv, WritersFit, WriterFits
    <2>2. ASSUME NEW f \in Exports, f # e PROVE WriterFits(f)'
      BY <1>1, <1>8, <2>2, WriterKept DEF ReportInv, WritersFit
    <2> QED BY <2>1, <2>2 DEF WritersFit
  <1>14. OneWriter'
    BY <1>1, <1>6, <1>8 DEF ReportInv, OneWriter
  <1>15. PendingHasTask'
    <2>1. PendingExports' = PendingExports
      BY <1>1 DEF PendingExports
    <2>2. TasksLeft \subseteq TasksLeft'
      BY <1>1, <1>8 DEF TasksLeft
    <2> QED BY <2>1, <2>2, CountKeeps DEF ReportInv
  <1> QED BY <1>8, <1>10, <1>11, <1>12, <1>13, <1>14, <1>15 DEF ReportInv

LEMMA WriteDoneKeeps ==
    ASSUME ReportInv, NEW e \in Exports, WriteDone(e)
    PROVE  ReportInv'
  <1> DEFINE x == writer[e]
             d == x.job
             clear == redactedValue(export[d].fields, export[d].redacted)
             r == [export[d] EXCEPT !.status = "succeeded", !.rows = x.rows, !.clear = clear]
             y == [x EXCEPT !.phase = "done"]
  <1>1. /\ x.phase = "write" /\ table' = table /\ exportRows(x.offset) = {}
        /\ export[d].status = "running"
    BY DEF WriteDone, MarkReportExportSucceeded
  <1>2. x \in Writers /\ d \in Exports /\ x.offset \in Nat
    BY <1>1, ReportFacts DEF ReportInv, ReportTypeOK
  <1>3. export[d] \in ExportRow
    BY <1>1, <1>2, ReportFacts DEF ReportInv, ReportTypeOK
  <1>4. clear \subseteq ReportFields /\ x.rows \subseteq TableRows
    BY <1>2, <1>3 DEF redactedValue, ExportRow, Writers
  <1>5. export' = [export EXCEPT ![d] = r] /\ writer' = [writer EXCEPT ![e] = y]
    BY <1>2, <1>3 DEF WriteDone, MarkReportExportSucceeded, ReportInv, ReportTypeOK, ExportRow
  <1> HIDE DEF clear
  <1>6. /\ r \in ExportRow /\ r.fields = export[d].fields /\ r.redacted = export[d].redacted
        /\ r.by = export[d].by /\ r.status = "succeeded" /\ r.rows = x.rows /\ r.clear = clear
    BY <1>3, <1>4 DEF ExportRow
  <1>7. /\ y \in Writers /\ y.phase = "done" /\ y.job = d /\ y.must = x.must /\ y.offset = x.offset
    BY <1>2 DEF Writers
  <1> HIDE DEF r, y
  <1>8. x.must \subseteq x.rows
    <2>1. \A i \in table : Rank(i) \in Nat /\ Rank(i) < x.offset
      BY <1>1, <1>2, RanksHaveNoGap, RankFacts DEF ReportInv, ReportTypeOK
    <2>2. x.must \subseteq table /\ \A i \in x.must : i \in x.rows \/ Rank(i) >= x.offset
      BY <1>1 DEF ReportInv, WritersFit, WriterFits
    <2> QED BY <1>2, <2>1, <2>2
  <1>9. /\ export' \in [Exports -> ExportRow \cup {NoExport}] /\ RowsFit'
        /\ \A f \in Exports : export'[f] = NoExport <=> export[f] = NoExport
        /\ \A f \in Exports : f # d => export'[f] = export[f]
        /\ export'[d] = r
    <2>1. r.clear = redactedValue(r.fields, r.redacted)
      BY <1>6 DEF clear
    <2> QED BY <1>2, <1>3, <1>5, <1>6, <2>1, StatusKeeps
  <1>10. PICK t \in TaskStates : t.state = "done" /\ exportTask' = [exportTask EXCEPT ![e] = t]
    BY SetTaskFine DEF WriteDone
  <1>11. /\ writer' \in [Exports -> Writers \cup {Claiming, NotWriting}]
         /\ writer'[e] = y /\ \A f \in Exports : f # e => writer'[f] = writer[f]
    BY <1>5, <1>7 DEF ReportInv
  <1>12. /\ exportTask' \in [Exports -> TaskStates] /\ exportTask'[e] = t
         /\ \A f \in Exports : f # e => exportTask'[f] = exportTask[f]
    BY <1>10 DEF ReportInv, ReportTypeOK, TaskStates
  <1>13. exportTask[e].state = "active"
    BY <1>1 DEF ReportInv, TasksFit
  <1>14. export[e] # NoExport
    BY <1>13, ReportFacts DEF ReportInv, TasksFit
  <1>15. \A f \in Exports : f # e /\ writer[f].phase \in {"write", "done"} =>
            writer[f].job \in Exports /\ writer[f].job # d
    <2>1. \A f \in Exports : f # e /\ writer[f].phase = "write" => writer[f].job # d
      BY <1>1 DEF ReportInv, OneWriter
    <2>2. \A f \in Exports : writer[f].phase = "done" => writer[f].job # d
      BY <1>1 DEF ReportInv, WritersFit, WriterFits
    <2> QED BY <2>1, <2>2 DEF ReportInv, ReportTypeOK
  <1>16. ReportTypeOK'
    BY <1>1, <1>2, <1>7, <1>9, <1>11, <1>12 DEF ReportInv, ReportTypeOK, TaskStates
  <1>17. TasksFit'
    BY <1>7, <1>9, <1>10, <1>11, <1>12, <1>14 DEF ReportInv, TasksFit
  <1>18. WritersFit'
    <2>1. WriterFits(e)'
      BY <1>6, <1>7, <1>8, <1>9, <1>11 DEF WriterFits
    <2>2. ASSUME NEW f \in Exports, f # e PROVE WriterFits(f)'
      BY <1>1, <1>9, <1>11, <1>15, <2>2, WriterKept DEF ReportInv, WritersFit
    <2> QED BY <2>1, <2>2 DEF WritersFit
  <1>19. OneWriter'
    BY <1>7, <1>11 DEF ReportInv, OneWriter
  <1>20. PendingHasTask'
    <2>1. PendingExports' \subseteq PendingExports
      BY <1>1, <1>6, <1>9 DEF PendingExports
    <2>2. TasksLeft \subseteq TasksLeft'
      BY <1>1, <1>11, <1>12, <1>13 DEF TasksLeft
    <2> QED BY <2>1, <2>2, CountKeeps DEF ReportInv
  <1> QED BY <1>9, <1>11, <1>16, <1>17, <1>18, <1>19, <1>20 DEF ReportInv

LEMMA WriteFailsKeeps ==
    ASSUME ReportInv, NEW e \in Exports, WriteFails(e)
    PROVE  ReportInv'
  <1> DEFINE x == writer[e]
             d == x.job
             r == [export[d] EXCEPT !.status = "failed"]
  <1>1. x.phase = "write" /\ RetryTask(e) /\ table' = table
    BY DEF WriteFails
  <1>2. d \in Exports /\ export[d].status = "running"
    BY <1>1 DEF ReportInv, ReportTypeOK, WritersFit, WriterFits
  <1>3. export[d] \in ExportRow
    BY <1>2, ReportFacts DEF ReportInv, ReportTypeOK
  <1>4. PICK t \in TaskStates : /\ t.state \in {"queued", "archived"}
                                /\ exportTask' = [exportTask EXCEPT ![e] = t]
    BY <1>1, RetryFine
  <1>5. writer' = [writer EXCEPT ![e] = NotWriting]
    BY <1>1, RetryFine
  <1>6. export[e] # NoExport
    BY <1>1, ReportFacts DEF ReportInv, TasksFit
  <1>7. CASE export' = export
    <2>1. PendingHasTask'
      BY <1>1, <1>7, RetryCounts DEF PendingExports
    <2> QED BY <1>1, <1>4, <1>5, <1>6, <1>7, <2>1, TaskStepKeeps, ReportFacts DEF TaskStates
  <1>8. CASE MarkReportExportFailed(d)
    <2>1. export' = [export EXCEPT ![d] = r]
      BY <1>2, <1>8 DEF MarkReportExportFailed, ReportInv, ReportTypeOK
    <2>2. /\ r \in ExportRow /\ r.fields = export[d].fields /\ r.redacted = export[d].redacted
          /\ r.by = export[d].by /\ r.status = "failed"
      BY <1>3 DEF ExportRow
    <2> HIDE DEF r
    <2>3. /\ export' \in [Exports -> ExportRow \cup {NoExport}] /\ RowsFit'
          /\ \A f \in Exports : export'[f] = NoExport <=> export[f] = NoExport
          /\ \A f \in Exports : f # d => export'[f] = export[f]
          /\ export'[d] = r
      BY <1>2, <1>3, <2>1, <2>2, StatusKeeps
    <2>4. /\ writer' \in [Exports -> Writers \cup {Claiming, NotWriting}]
          /\ writer'[e].phase = "idle" /\ \A f \in Exports : f # e => writer'[f] = writer[f]
      BY <1>5, ReportFacts DEF ReportInv
    <2>5. /\ exportTask' \in [Exports -> TaskStates] /\ exportTask'[e] = t
          /\ \A f \in Exports : f # e => exportTask'[f] = exportTask[f]
      BY <1>4 DEF ReportInv, ReportTypeOK, TaskStates
    <2>6. \A f \in Exports : f # e /\ writer[f].phase \in {"write", "done"} =>
              writer[f].job \in Exports /\ writer[f].job # d
      <3>1. \A f \in Exports : f # e /\ writer[f].phase = "write" => writer[f].job # d
        BY <1>1 DEF ReportInv, OneWriter
      <3>2. \A f \in Exports : writer[f].phase = "done" => writer[f].job # d
        BY <1>2 DEF ReportInv, WritersFit, WriterFits
      <3> QED BY <3>1, <3>2 DEF ReportInv, ReportTypeOK
    <2>7. ReportTypeOK'
      BY <1>1, <2>3, <2>4, <2>5 DEF ReportInv, ReportTypeOK, TaskStates
    <2>8. TasksFit'
      BY <1>6, <2>3, <2>4, <2>5 DEF ReportInv, TasksFit
    <2>9. WritersFit'
      <3>1. WriterFits(e)'
        BY <2>4 DEF WriterFits
      <3>2. ASSUME NEW f \in Exports, f # e PROVE WriterFits(f)'
        BY <1>1, <2>3, <2>4, <2>6, <3>2, WriterKept DEF ReportInv, WritersFit
      <3> QED BY <3>1, <3>2 DEF WritersFit
    <2>10. OneWriter'
      BY <2>4 DEF ReportInv, OneWriter
    <2>11. PendingHasTask'
      <3>1. PendingExports' \subseteq PendingExports
        BY <2>2, <2>3 DEF PendingExports
      <3> QED BY <1>1, <3>1, RetryCounts
    <2> QED BY <2>3, <2>4, <2>7, <2>8, <2>9, <2>10, <2>11 DEF ReportInv
  <1> QED BY <1>7, <1>8 DEF WriteFails

\* A row that commits with a small id moves the rows behind it away from the
\* offset, never towards it.
LEMMA RowCommitsKeeps ==
    ASSUME ReportInv, NEW i \in TableRows, RowCommits(i)
    PROVE  ReportInv'
  <1>1. UNCHANGED <<export, exportTask, writer>> /\ table' = table \cup {i}
    BY DEF RowCommits
  <1>2. ReportTypeOK'
    BY <1>1 DEF ReportInv, ReportTypeOK
  <1>3. \A j \in table : Rank(j) \in Nat /\ Rank(j)' \in Nat /\ Rank(j) <= Rank(j)'
    <2> SUFFICES ASSUME NEW j \in table
                 PROVE  Rank(j) \in Nat /\ Rank(j)' \in Nat /\ Rank(j) <= Rank(j)'
      OBVIOUS
    <2>1. j \in TableRows /\ table' \subseteq TableRows /\ IsFiniteSet(table')
      BY <1>2, ReportAssumption, FS_Subset DEF ReportInv, ReportTypeOK
    <2>2. IsFiniteSet(RowsBefore(table', j)) /\ RowsBefore(table, j) \subseteq RowsBefore(table', j)
      BY <1>1, <2>1, FS_Subset DEF RowsBefore
    <2>3. Rank(j) = Cardinality(RowsBefore(table, j)) /\ Rank(j)' = Cardinality(RowsBefore(table', j))
      BY DEF Rank, RowsBefore
    <2>4. Cardinality(RowsBefore(table', j)) \in Nat
      BY <2>2, FS_CardinalityType
    <2> QED BY <2>1, <2>2, <2>3, <2>4, RankFacts, FS_Subset DEF ReportInv
  <1>4. WritersFit'
    <2> SUFFICES ASSUME NEW e \in Exports PROVE WriterFits(e)'
      BY DEF WritersFit
    <2>1. WriterFits(e)
      BY DEF ReportInv, WritersFit
    <2>2. writer[e].phase = "write" => writer[e].offset \in Nat
      BY DEF ReportInv, ReportTypeOK
    <2> QED BY <1>1, <1>3, <2>1, <2>2 DEF WriterFits
  <1>5. RowsFit' /\ TasksFit' /\ OneWriter'
    BY <1>1 DEF ReportInv, RowsFit, TasksFit, OneWriter, allowedFields, redactedValue, CanExport
  <1>6. PendingHasTask'
    BY <1>1 DEF ReportInv, PendingHasTask, PendingExports
  <1> QED BY <1>1, <1>2, <1>4, <1>5, <1>6 DEF ReportInv

LEMMA ReportInitFine == ReportInit => ReportInv
  <1> SUFFICES ASSUME ReportInit PROVE ReportInv
    OBVIOUS
  <1>1. \A e \in Exports : export[e] = NoExport /\ exportTask[e] = NoTask /\ writer[e] = NotWriting
    BY DEF ReportInit
  <1>2. ReportTypeOK
    <2>1. NoTask \in [tries : 0..MaxExportRetry,
                      state : {"none", "asked", "queued", "active", "done", "lost", "archived"}]
      BY ReportAssumption DEF NoTask
    <2> QED BY <1>1, <2>1, ReportFacts DEF ReportInit, ReportTypeOK
  <1>3. RowsFit /\ TasksFit /\ WritersFit /\ OneWriter
    BY <1>1, ReportFacts DEF RowsFit, TasksFit, WritersFit, WriterFits, OneWriter
  <1>4. PendingHasTask
    <2>1. PendingExports = {}
      BY <1>1, ReportFacts DEF PendingExports
    <2>2. Cardinality(PendingExports) = 0
      BY <2>1, FS_EmptySet
    <2>3. IsFiniteSet(TasksLeft)
      BY ReportAssumption, FS_Subset DEF TasksLeft
    <2>4. Cardinality(TasksLeft) \in Nat
      BY <2>3, FS_CardinalityType
    <2> QED BY <2>2, <2>4 DEF PendingHasTask, TasksLeft
  <1>5. writer \in [Exports -> Writers \cup {Claiming, NotWriting}]
    BY DEF ReportInit
  <1> QED BY <1>2, <1>3, <1>4, <1>5 DEF ReportInv

LEMMA ReportNextKeeps == ReportInv /\ [ReportNext]_reportVars => ReportInv'
  <1> SUFFICES ASSUME ReportInv, [ReportNext]_reportVars PROVE ReportInv'
    OBVIOUS
  <1>1. CASE UNCHANGED reportVars
    <2>1. export' = export /\ exportTask' = exportTask /\ writer' = writer /\ table' = table
      BY <1>1 DEF reportVars
    <2>2. ReportTypeOK' /\ RowsFit' /\ TasksFit' /\ OneWriter'
      BY <2>1 DEF ReportInv, ReportTypeOK, RowsFit, TasksFit, OneWriter, allowedFields,
                  redactedValue, CanExport
    <2>3. WritersFit'
      BY <2>1, WriterKept DEF ReportInv, WritersFit
    <2>4. PendingHasTask'
      BY <2>1 DEF ReportInv, PendingHasTask, PendingExports
    <2> QED BY <2>1, <2>2, <2>3, <2>4 DEF ReportInv
  <1>2. CASE \E e \in Exports, u \in ReportUsers, F \in SUBSET ReportFields : CreateExport(e, u, F)
    BY <1>2, CreateExportKeeps
  <1>3. CASE \E e \in Exports : ExportSteps(e)
    BY <1>3, QueueKeeps, ProcessKeeps, WriteBatchKeeps, WriteDoneKeeps, WriteFailsKeeps
       DEF ExportSteps
  <1>4. CASE \E i \in TableRows : RowCommits(i)
    BY <1>4, RowCommitsKeeps
  <1> QED BY <1>1, <1>2, <1>3, <1>4 DEF ReportNext

\* The exports, their tasks, the table and the workers keep their types.
THEOREM ReportTypeCorrect == ReportSpec => []ReportTypeOK
  <1>1. ReportInv => ReportTypeOK
    BY DEF ReportInv
  <1> QED BY <1>1, ReportInitFine, ReportNextKeeps, PTL DEF ReportSpec

\* ProcessNextExport, writeExport, normalizeFields: for every table, batch
\* size and number of tasks, an export is written by one worker, its file
\* holds every row committed before it was claimed, nobody's file shows more
\* than they may see, and no export waits without a task that may serve it.
THEOREM ExportsAreCorrect == ReportSpec => []ExportsCorrect
  <1>1. ReportInv => ExportComplete
    BY DEF ReportInv, ExportComplete, OneWriter, WritersFit, WriterFits
  <1>2. ReportInv => NoClearValue
    <2> SUFFICES ASSUME ReportInv, NEW e \in Exports, export[e].status = "succeeded",
                        ~CanExport(export[e].by)
                 PROVE  export[e].clear \subseteq {"open"}
      BY DEF NoClearValue, CanExport
    <2>1. export[e] # NoExport
      BY ReportFacts
    <2>2. /\ export[e].fields \subseteq ReportFields \ {"full"}
          /\ export[e].clear = export[e].fields \ {"personal"}
      BY <2>1 DEF ReportInv, RowsFit, allowedFields, redactedValue
    <2> QED BY <2>2 DEF ReportFields
  <1>3. ReportInv => ExportsCorrect
    BY <1>1, <1>2 DEF ReportInv, ExportsCorrect
  <1> QED BY <1>3, ReportInitFine, ReportNextKeeps, PTL DEF ReportSpec

-----------------------------------------------------------------------------
(* The retention run.                                                      *)

\* RowsKept with the types it needs.  The two halves of RowsKept need each
\* other: a callback can only become unfinished while it is in its table, so
\* it is not in the archive, which ArchivedOrHot says.
RetentionInv == RetentionTypeOK /\ RowsKept

LEMMA RowsFinite == IsFiniteSet(AllRows)
<1>1. IsFiniteSet(RetentionTables)
    <2>1. IsFiniteSet({"audit_log"})
        BY FS_Singleton
    <2>2. IsFiniteSet({"audit_log"} \cup {"change_event"})
        BY <2>1, FS_AddElement
    <2>3. IsFiniteSet(({"audit_log"} \cup {"change_event"}) \cup {"discovery_callback"})
        BY <2>2, FS_AddElement
    <2>4. RetentionTables = ({"audit_log"} \cup {"change_event"}) \cup {"discovery_callback"}
        BY DEF RetentionTables
    <2> QED
        BY <2>3, <2>4
<1>2. IsFiniteSet(RowIds)
    BY RetentionAssumption
<1> QED
    BY <1>1, <1>2, FS_Product DEF AllRows

\* What is taken are rows of the set.
LEMMA OldestTaken ==
    ASSUME NEW S, NEW n
    PROVE  Oldest(S, n) \subseteq S
    BY DEF Oldest

\* The oldest rows of a set are still the oldest of what was taken: a row has
\* no more predecessors among fewer rows.
LEMMA OldestAgain ==
    ASSUME NEW S \in SUBSET AllRows, NEW n \in Nat
    PROVE  Oldest(Oldest(S, n), n) = Oldest(S, n)
<1> DEFINE A == Oldest(S, n)
           older(T, r) == {q \in T : \/ rowDay[q] < rowDay[r]
                                     \/ rowDay[q] = rowDay[r] /\ q[2] < r[2]}
<1>1. A \subseteq S /\ S \subseteq AllRows
    BY OldestTaken
<1>2. \A T : Oldest(T, n) = {r \in T : Cardinality(older(T, r)) < n}
    BY DEF Oldest
<1> SUFFICES ASSUME NEW r \in A PROVE r \in Oldest(A, n)
    BY OldestTaken
<1>3. older(A, r) \subseteq older(S, r) /\ older(S, r) \subseteq AllRows
    BY <1>1
<1>4. Cardinality(older(S, r)) < n
    BY <1>2
<1> HIDE DEF older
<1>5. IsFiniteSet(older(S, r))
    BY <1>3, RowsFinite, FS_Subset
<1>6. IsFiniteSet(older(A, r)) /\ Cardinality(older(A, r)) <= Cardinality(older(S, r))
    BY <1>3, <1>5, FS_Subset
<1>7. Cardinality(older(A, r)) \in Nat /\ Cardinality(older(S, r)) \in Nat
    BY <1>5, <1>6, FS_CardinalityType
<1>8. Cardinality(older(A, r)) < n
    BY <1>4, <1>6, <1>7
<1> HIDE DEF A
<1> QED
    BY <1>2, <1>8

LEMMA RetentionInitInv == RetentionInit => RetentionInv
    BY RetentionAssumption
    DEF RetentionInit, RetentionInv, RetentionTypeOK, RowsKept, ArchivedOrHot,
        RetentionFloor, Days

\* What a run that passed validatePolicy may have asked for.
LEMMA PolicyTypes ==
    ASSUME NEW payload \in Payloads, validatePolicy(withDefaults(policy(payload)))
    PROVE  LET p == withDefaults(policy(payload))
           IN  /\ p.batch \in Nat
               /\ \A f \in PolicyFields : p.days[f] \in Int
               /\ p.days["audit_log"] >= p.days["audit_min"]
<1> DEFINE p == withDefaults(policy(payload))
<1>1. payload.batch \in Int /\ \A f \in PolicyFields : payload.days[f] \in Int
    BY RetentionAssumption
<1>2. DefaultBatch \in Int /\ MaxBatch \in Nat /\ \A f \in PolicyFields : DefaultDays[f] \in Int
    BY RetentionAssumption
<1>3. \A f \in PolicyFields : policy(payload).days[f] \in Int
    BY <1>1, <1>2 DEF policy
<1>4. \A f \in PolicyFields : p.days[f] \in Int
    BY <1>2, <1>3 DEF withDefaults
<1>5. p.batch \in 1..MaxBatch /\ p.days["audit_log"] >= p.days["audit_min"]
    BY DEF validatePolicy
<1> HIDE DEF p
<1>6. p.batch \in Nat
    BY <1>2, <1>5
<1> QED
    BY <1>4, <1>5, <1>6 DEF p

LEMMA RunInv ==
    ASSUME RetentionInv, NEW payload \in Payloads, RunRetention(payload)
    PROVE  RetentionInv'
<1> DEFINE p == withDefaults(policy(payload))
           A(t) == CASE t = "audit_log" -> ArchiveAuditLogs(p)
                     [] t = "change_event" -> ArchiveChangeEvents(p)
                     [] t = "discovery_callback" -> ArchiveDiscoveryCallbacks(p)
           archive == cold \cup ArchiveAuditLogs(p) \cup ArchiveChangeEvents(p)
                           \cup ArchiveDiscoveryCallbacks(p)
           gone == UNION {DeleteArchived(t, p, archive) : t \in RetentionTables}
<1>1. /\ validatePolicy(p) /\ cold' = archive /\ hot' = hot \ gone
      /\ floorBroken' = floorBroken \cup
            {r \in gone : r[1] = "audit_log" /\ today - rowDay[r] < p.days["audit_min"]}
      /\ UNCHANGED <<today, rowDay, unfinished>>
    BY DEF RunRetention
<1>2. /\ p.batch \in Nat /\ \A f \in PolicyFields : p.days[f] \in Int
      /\ p.days["audit_log"] >= p.days["audit_min"]
    BY <1>1, PolicyTypes
<1> HIDE DEF p
<1>3. hot \cap cold = {} /\ hot \subseteq AllRows /\ cold \subseteq AllRows
    BY DEF RetentionInv, RowsKept, ArchivedOrHot, RetentionTypeOK
<1>4. \A t \in RetentionTables : \E S \in SUBSET Before(t, p.days[t]) : A(t) = Oldest(S, p.batch)
    <2>1. A("audit_log") = Oldest(Before("audit_log", p.days["audit_log"]), p.batch)
        BY DEF ArchiveAuditLogs
    <2>2. A("change_event") = Oldest(Before("change_event", p.days["change_event"]), p.batch)
        BY DEF ArchiveChangeEvents
    <2>3. A("discovery_callback") = Oldest(Before("discovery_callback",
                                      p.days["discovery_callback"]) \ unfinished, p.batch)
        BY DEF ArchiveDiscoveryCallbacks
    <2> QED
        BY <2>1, <2>2, <2>3 DEF RetentionTables
<1>5. archive = cold \cup UNION {A(t) : t \in RetentionTables}
    <2>1. {A(t) : t \in RetentionTables}
             = {ArchiveAuditLogs(p), ArchiveChangeEvents(p), ArchiveDiscoveryCallbacks(p)}
        BY DEF RetentionTables
    <2> QED
        BY <2>1
<1>6. A("discovery_callback") \cap unfinished = {}
    BY OldestTaken DEF ArchiveDiscoveryCallbacks
<1> HIDE DEF A, archive
<1>7. \A t : Before(t, p.days[t]) \subseteq hot /\ \A r \in Before(t, p.days[t]) : r[1] = t
    BY DEF Before
<1>8. \A t \in RetentionTables : A(t) \subseteq Before(t, p.days[t])
    BY <1>4, OldestTaken
<1>9. \A t \in RetentionTables : Before(t, p.days[t]) \cap archive = A(t)
    BY <1>3, <1>5, <1>7, <1>8
<1>10. \A t \in RetentionTables : DeleteArchived(t, p, archive) = A(t)
    <2> SUFFICES ASSUME NEW t \in RetentionTables PROVE Oldest(A(t), p.batch) = A(t)
        BY <1>9 DEF DeleteArchived
    <2>1. PICK S \in SUBSET Before(t, p.days[t]) : A(t) = Oldest(S, p.batch)
        BY <1>4
    <2>2. S \in SUBSET AllRows
        BY <1>3, <1>7, <2>1
    <2> QED
        BY <1>2, <2>1, <2>2, OldestAgain
<1>11. gone = UNION {A(t) : t \in RetentionTables}
    BY <1>10
<1> HIDE DEF gone
<1>12. gone \subseteq hot
    BY <1>7, <1>8, <1>11
<1>13. ArchivedOrHot'
    <2>1. hot' \cup cold' = hot \cup cold /\ hot' \cap cold' = {}
        BY <1>1, <1>3, <1>5, <1>11, <1>12
    <2> QED
        BY <1>1, <2>1 DEF RetentionInv, RowsKept, ArchivedOrHot
<1>14. \A r \in gone : r[1] = "audit_log" => ~(today - rowDay[r] < p.days["audit_min"])
    <2> SUFFICES ASSUME NEW r \in gone, r[1] = "audit_log"
                 PROVE  ~(today - rowDay[r] < p.days["audit_min"])
        OBVIOUS
    <2>1. r \in AllRows /\ r \in Before("audit_log", p.days["audit_log"])
        BY <1>3, <1>7, <1>8, <1>11, <1>12
    <2>2. rowDay[r] \in Int /\ today \in Int
        BY <2>1, RetentionAssumption DEF RetentionInv, RetentionTypeOK, Days
    <2>3. rowDay[r] < today - p.days["audit_log"]
        BY <2>1 DEF Before, cutoff
    <2>4. p.days["audit_log"] \in Int /\ p.days["audit_min"] \in Int
        BY <1>2 DEF PolicyFields, RetentionTables
    <2> QED
        BY <1>2, <2>2, <2>3, <2>4
<1>15. RetentionFloor'
    <2>1. floorBroken' = {}
        BY <1>1, <1>14 DEF RetentionInv, RowsKept, RetentionFloor
    <2>2. \A r \in gone : r[1] = "discovery_callback" => r \notin unfinished
        BY <1>6, <1>7, <1>8, <1>11
    <2>3. cold' = cold \cup gone /\ unfinished' = unfinished
        BY <1>1, <1>5, <1>11
    <2> QED
        BY <2>1, <2>2, <2>3 DEF RetentionInv, RowsKept, RetentionFloor
<1>16. RetentionTypeOK'
    <2>1. cold' \subseteq AllRows /\ hot' \subseteq AllRows /\ floorBroken' \subseteq AllRows
        BY <1>1, <1>3, <1>5, <1>11, <1>12, <1>15 DEF RetentionFloor
    <2> QED
        BY <1>1, <2>1 DEF RetentionInv, RetentionTypeOK
<1> QED
    BY <1>13, <1>15, <1>16 DEF RetentionInv, RowsKept

LEMMA RetentionStepInv == RetentionInv /\ [RetentionNext]_retentionVars => RetentionInv'
<1> SUFFICES ASSUME RetentionInv, [RetentionNext]_retentionVars PROVE RetentionInv'
    OBVIOUS
<1> USE DEF RetentionInv, RetentionTypeOK, RowsKept, ArchivedOrHot, RetentionFloor
<1>1. ASSUME NEW r \in AllRows, InsertRow(r) PROVE RetentionInv'
    <2>1. rowDay' \in [AllRows -> Days \cup {-1}]
        BY <1>1 DEF InsertRow
    <2>2. today # -1
        BY RetentionAssumption DEF Days
    <2>3. \A q \in AllRows : rowDay'[q] = IF q = r THEN today ELSE rowDay[q]
        BY <1>1 DEF InsertRow
    <2>4. r \notin hot /\ r \notin cold
        BY <1>1 DEF InsertRow
    <2>5. hot' = hot \cup {r} /\ cold' = cold /\ floorBroken' = floorBroken /\ today' = today
        BY <1>1 DEF InsertRow
    <2>6. unfinished' \subseteq unfinished \cup {r}
        BY <1>1 DEF InsertRow
    <2>7. hot' \cup cold' = {q \in AllRows : rowDay'[q] # -1}
        BY <2>2, <2>3, <2>5
    <2> QED
        BY <2>1, <2>4, <2>5, <2>6, <2>7
<1>2. ASSUME NEW r \in AllRows, CallbackMoves(r) PROVE RetentionInv'
    <2>1. unfinished' \subseteq unfinished \cup {r} /\ r \in hot
        BY <1>2 DEF CallbackMoves
    <2> QED
        BY <1>2, <2>1 DEF CallbackMoves
<1>3. CASE DayPasses
    <2>1. today' \in Days
        BY <1>3, RetentionAssumption DEF DayPasses, Days
    <2> QED
        BY <1>3, <2>1 DEF DayPasses
<1>4. CASE UNCHANGED retentionVars
    BY <1>4 DEF retentionVars
<1> QED
    BY <1>1, <1>2, <1>3, <1>4, RunInv DEF RetentionNext

\* Every variable of the retention model keeps its type.
THEOREM RetentionTypeCorrect == RetentionSpec => []RetentionTypeOK
<1>1. RetentionInv => RetentionTypeOK
    BY DEF RetentionInv
<1> QED
    BY <1>1, RetentionInitInv, RetentionStepInv, PTL DEF RetentionSpec

\* A row once written is in its table or in its archive and never in both, no
\* audit row is deleted before the floor of the policy, and no callback is
\* archived while it is queued or processing, whatever policies the runs of
\* Service.Run are given.
THEOREM RetentionKeepsRows == RetentionSpec => []RowsKept
<1>1. RetentionInv => RowsKept
    BY DEF RetentionInv
<1> QED
    BY <1>1, RetentionInitInv, RetentionStepInv, PTL DEF RetentionSpec

-----------------------------------------------------------------------------
(* The request limiter.                                                    *)

(* The table is finite and within its bound, and every bucket within its   *)
(* burst: Cardinality means something only of a finite set, so the bound   *)
(* is not inductive without it.                                            *)
LimiterInv == LimiterTypeOK /\ IsFiniteSet(DOMAIN buckets) /\ TableBounded

(* A full bucket is a natural number of 1/Window of a request. *)
LEMMA FullIsNat == Full \in Nat
  BY LimiterAssumption DEF Full

(* evictLocked keeps keys of the table, and leaves room for one more. *)
LEMMA EvictionMakesRoom ==
  ASSUME LimiterInv, NEW now \in 0..LimiterEnd
  PROVE  /\ evictLocked(now) \subseteq DOMAIN buckets
         /\ IsFiniteSet(evictLocked(now))
         /\ Cardinality(evictLocked(now)) < MaxKeys
<1> DEFINE live == {k \in DOMAIN buckets : now - buckets[k].lastSeen < IdleTTL}
<1>1. IsFiniteSet(DOMAIN buckets) /\ Cardinality(DOMAIN buckets) \in Nat
  BY FS_CardinalityType DEF LimiterInv
<1>2. live \subseteq DOMAIN buckets
  OBVIOUS
<1>3. IsFiniteSet(live) /\ Cardinality(live) \in Nat
  BY <1>1, <1>2, FS_Subset, FS_CardinalityType
<1>4. IsFiniteSet({}) /\ Cardinality({}) = 0
  BY FS_EmptySet
<1>5. evictLocked(now) = IF Cardinality(DOMAIN buckets) < MaxKeys THEN DOMAIN buckets
                         ELSE IF Cardinality(live) >= MaxKeys THEN {} ELSE live
  BY DEF evictLocked
<1> HIDE DEF live
<1>6. MaxKeys \in Nat \ {0}
  BY LimiterAssumption
<1>7. CASE Cardinality(DOMAIN buckets) < MaxKeys
  BY <1>1, <1>5, <1>7
<1>8. CASE ~(Cardinality(DOMAIN buckets) < MaxKeys) /\ Cardinality(live) >= MaxKeys
  BY <1>4, <1>5, <1>6, <1>8
<1>9. CASE ~(Cardinality(DOMAIN buckets) < MaxKeys) /\ ~(Cardinality(live) >= MaxKeys)
  BY <1>2, <1>3, <1>5, <1>6, <1>9
<1> QED
  BY <1>7, <1>8, <1>9

(* What is left of a bucket after a refill and a request is within it. *)
LEMMA RefillIsBounded ==
  ASSUME NEW b \in [tokens : 0..Full, lastSeen : 0..LimiterEnd], NEW now \in 0..LimiterEnd
  PROVE  Refilled(b, now) \in 0..Full
<1>1. Full \in Nat
  BY FullIsNat
<1>2. b.tokens \in 0..Full /\ b.lastSeen \in Nat /\ now \in Nat
  BY LimiterAssumption
<1>3. CASE now <= b.lastSeen
  BY <1>2, <1>3 DEF Refilled
<1>4. CASE ~(now <= b.lastSeen)
  <2>1. now - b.lastSeen \in Nat
    BY <1>2, <1>4
  <2>2. (now - b.lastSeen) * LimitRate \in Nat
    BY <2>1, LimiterAssumption
  <2>3. b.tokens + (now - b.lastSeen) * LimitRate \in Nat
    BY <1>1, <1>2, <2>2
  <2> DEFINE more == b.tokens + (now - b.lastSeen) * LimitRate
  <2>4. Refilled(b, now) = IF more < Full THEN more ELSE Full
    BY <1>4 DEF Refilled
  <2> HIDE DEF more
  <2>5. more \in Nat
    BY <2>3 DEF more
  <2> QED
    BY <1>1, <2>4, <2>5
<1> QED
  BY <1>3, <1>4

LEMMA LimiterInitInv == LimiterInit => LimiterInv
<1> SUFFICES ASSUME LimiterInit PROVE LimiterInv
  OBVIOUS
<1>1. DOMAIN buckets = {}
  BY DEF LimiterInit
<1>2. IsFiniteSet(DOMAIN buckets) /\ Cardinality(DOMAIN buckets) = 0
  BY <1>1, FS_EmptySet
<1>3. TableBounded
  BY <1>2, LimiterAssumption DEF TableBounded
<1>4. buckets \in [DOMAIN buckets -> [tokens : 0..Full, lastSeen : 0..LimiterEnd]]
  BY <1>1 DEF LimiterInit
<1>5. instant \in 0..LimiterEnd /\ throttled \in [Throttled -> Waiting]
  BY LimiterAssumption DEF LimiterInit
<1> QED
  BY <1>1, <1>2, <1>3, <1>4, <1>5 DEF LimiterInv, LimiterTypeOK

LEMMA LimiterStepInv == LimiterInv /\ [LimiterNext]_limiterVars => LimiterInv'
<1> SUFFICES ASSUME LimiterInv, [LimiterNext]_limiterVars PROVE LimiterInv'
  OBVIOUS
<1> USE LimiterAssumption
<1>1. CASE ClockTicks
  BY <1>1 DEF ClockTicks, LimiterInv, LimiterTypeOK, TableBounded
<1>2. ASSUME NEW r \in Throttled, NEW k \in ClientKeys, ReadClock(r, k) PROVE LimiterInv'
  <2>1. throttled' \in [Throttled -> Waiting]
    BY <1>2 DEF ReadClock, LimiterInv, LimiterTypeOK, Waiting
  <2> QED
    BY <1>2, <2>1 DEF ReadClock, LimiterInv, LimiterTypeOK, TableBounded
<1>3. ASSUME NEW r \in Throttled, allow(r) PROVE LimiterInv'
  <2> DEFINE k      == throttled[r].key
             now    == throttled[r].at
             old    == k \in DOMAIN buckets
             kept   == IF old THEN DOMAIN buckets ELSE evictLocked(now)
             refill == IF old THEN Refilled(buckets[k], now) ELSE Full
             left   == IF refill < LimitWindow THEN refill ELSE refill - LimitWindow
  <2>1. k \in ClientKeys /\ now \in 0..LimiterEnd
    BY DEF LimiterInv, LimiterTypeOK, Waiting
  <2>2. buckets' = [q \in kept \cup {k} |-> IF q = k THEN [tokens |-> left, lastSeen |-> now]
                                            ELSE buckets[q]]
    BY <1>3 DEF allow
  <2>3. throttled' \in [Throttled -> Waiting] /\ instant' = instant
    BY <1>3 DEF allow, LimiterInv, LimiterTypeOK, Waiting
  <2>4. \A q \in DOMAIN buckets : buckets[q] \in [tokens : 0..Full, lastSeen : 0..LimiterEnd]
    BY DEF LimiterInv, LimiterTypeOK
  <2>5. refill \in 0..Full
    <3>1. CASE old
      BY <2>1, <2>4, <3>1, RefillIsBounded
    <3>2. CASE ~old
      BY <3>2, FullIsNat
    <3> QED
      BY <3>1, <3>2
  <2>6. left \in 0..Full
    <3> HIDE DEF refill
    <3> QED
      BY <2>5, FullIsNat
  <2>7. /\ kept \subseteq DOMAIN buckets /\ IsFiniteSet(kept)
        /\ IsFiniteSet(kept \cup {k}) /\ Cardinality(kept \cup {k}) <= MaxKeys
    <3>1. CASE old
      <4>1. kept = DOMAIN buckets /\ kept \cup {k} = DOMAIN buckets
        BY <3>1
      <4> QED
        BY <4>1 DEF LimiterInv, TableBounded
    <3>2. CASE ~old
      <4>1. kept = evictLocked(now)
        BY <3>2
      <4>2. kept \subseteq DOMAIN buckets /\ IsFiniteSet(kept) /\ Cardinality(kept) < MaxKeys
        BY <2>1, <4>1, EvictionMakesRoom
      <4>3. k \notin kept
        BY <3>2, <4>2
      <4> HIDE DEF kept
      <4>4. /\ IsFiniteSet(kept \cup {k})
            /\ Cardinality(kept \cup {k}) = Cardinality(kept) + 1
        BY <4>2, <4>3, FS_AddElement
      <4>5. Cardinality(kept) \in Nat
        BY <4>2, FS_CardinalityType
      <4> QED
        BY <4>2, <4>4, <4>5
    <3> QED
      BY <3>1, <3>2
  <2> HIDE DEF kept, left, refill, k, now
  <2>8. DOMAIN buckets' = kept \cup {k}
    BY <2>2
  <2>9. kept \cup {k} \subseteq ClientKeys
    BY <2>1, <2>7 DEF LimiterInv, LimiterTypeOK
  <2>10. buckets' \in [kept \cup {k} -> [tokens : 0..Full, lastSeen : 0..LimiterEnd]]
    BY <2>1, <2>2, <2>4, <2>6, <2>7
  <2>11. TableBounded' /\ IsFiniteSet(DOMAIN buckets')
    BY <2>7, <2>8 DEF TableBounded
  <2> QED
    BY <2>3, <2>8, <2>9, <2>10, <2>11 DEF LimiterInv, LimiterTypeOK
<1>4. CASE UNCHANGED limiterVars
  BY <1>4 DEF limiterVars, LimiterInv, LimiterTypeOK, TableBounded
<1> QED
  BY <1>1, <1>2, <1>3, <1>4 DEF LimiterNext

(* Every variable of the limiter keeps its type: no bucket ever holds more *)
(* than its burst or less than nothing, whatever the order in which        *)
(* requests that read the clock earlier or later take the lock (allow).    *)
THEOREM LimiterTypeCorrect == LimiterSpec => []LimiterTypeOK
<1>1. LimiterInv => LimiterTypeOK
  BY DEF LimiterInv
<1> QED
  BY <1>1, LimiterInitInv, LimiterStepInv, PTL DEF LimiterSpec

(* The table of buckets stays within its limit whatever addresses the      *)
(* requests come from (evictLocked before a key is added).                 *)
THEOREM LimiterBounded == LimiterSpec => []TableBounded
<1>1. LimiterInv => TableBounded
  BY DEF LimiterInv
<1> QED
  BY <1>1, LimiterInitInv, LimiterStepInv, PTL DEF LimiterSpec

-----------------------------------------------------------------------------
(* The services operators work with, all of them at once.                  *)

OperationsServices ==
  /\ TicketSpec /\ NotifSpec /\ ReportSpec /\ RetentionSpec /\ AccountSpec
  /\ WorkspaceSpec /\ LimiterSpec

(* Whatever the services do at the same time, every variable of every one  *)
(* of them keeps its type: the tables' columns hold what the code reads    *)
(* back, for all requests and background passes of their modules.          *)
THEOREM OperationsTypeCorrect == OperationsServices => []OperationsTypeOK
  BY TicketsTypeCorrect, NotifTypeCorrect, ReportTypeCorrect, RetentionTypeCorrect, AccountTypeCorrect,
     WorkspaceTypeCorrect, LimiterTypeCorrect, PTL DEF OperationsServices, OperationsTypeOK

=============================================================================
