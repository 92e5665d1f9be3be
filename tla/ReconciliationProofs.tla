------------------------- MODULE ReconciliationProofs -------------------------
(* Theorems about the reconciliation engine: for any number of records,    *)
(* intents, providers and notifications, delivered in any order; and about *)
(* the engine behind the webhooks, in any deployments.                     *)
EXTENDS Notifications, TLAPS

-----------------------------------------------------------------------------
(* What the tables of the engine make of a status.                         *)

LEMMA StatusesAre ==
  Statuses = {"pending", "processing", "authorized", "captured", "SUCCESS",
              "disputed", "FAILED", "failed", "failure", "refunded", "success",
              "null"}
BY DEF Statuses, Follows

LEMMA MappedStatuses ==
  ASSUME NEW s \in Statuses, Recognised(s)
  PROVE  StatusMap[Lower(s)] \in OurStatuses
BY StatusesAre DEF Recognised, StatusMap, Lower, OurStatuses

LEMMA NewStatusType ==
  ASSUME NEW s \in Statuses, NEW o \in OurStatuses
  PROVE  NewStatus(s, o) \in OurStatuses
BY MappedStatuses DEF NewStatus

\* Two statuses the engine knows never contradict each other.
LEMMA KnownIsConsistent ==
  ASSUME NEW s \in Statuses, Recognised(s)
  PROVE  ~ CheckDiscrepancy(s, StatusMap[Lower(s)])
<1>1. Lower(s) \in {"authorized", "captured", "failed", "refunded", "pending",
                    "processing", "success", "failure"}
  BY DEF Recognised, StatusMap
<1>2. StatusMap[Lower(s)] = "settled" => Lower(s) \in {"captured", "success"}
  BY <1>1 DEF StatusMap
<1>3. StatusMap[Lower(s)] = "payment_failed" => Lower(s) \in {"failed", "failure"}
  BY <1>1 DEF StatusMap
<1>4. StatusMap[Lower(s)] = "payment_processing" =>
        Lower(s) \notin {"captured", "success"}
  BY <1>1 DEF StatusMap
<1> QED BY <1>2, <1>3, <1>4 DEF CheckDiscrepancy

\* And one it does not know contradicts exactly settled and failed.
LEMMA UnknownIsInconsistent ==
  ASSUME NEW s \in Statuses, ~ Recognised(s), NEW o \in OurStatuses
  PROVE  CheckDiscrepancy(s, o) <=> o \in {"settled", "payment_failed"}
BY StatusesAre DEF Recognised, StatusMap, Lower, CheckDiscrepancy, OurStatuses

LEMMA FollowsType ==
  ASSUME NEW s \in Statuses \union {"none"}
  PROVE  Follows[s] \subseteq Statuses
BY StatusesAre DEF Follows

-----------------------------------------------------------------------------
(* Appending to an index a record it does not list.                        *)
LEMMA AppendKeepsIndex ==
  ASSUME NEW s \in Seq(Ids), NEW id \in Ids, IsInjective(s), id \notin ToSet(s)
  PROVE  /\ Append(s, id) \in Seq(Ids)
         /\ IsInjective(Append(s, id))
         /\ ToSet(Append(s, id)) = ToSet(s) \union {id}
<1>1. /\ Append(s, id) \in Seq(Ids)
      /\ DOMAIN s = 1..Len(s) /\ Len(s) \in Nat
      /\ DOMAIN Append(s, id) = 1..Len(s) + 1
      /\ \A n \in 1..Len(s) : Append(s, id)[n] = s[n]
      /\ Append(s, id)[Len(s) + 1] = id
  OBVIOUS
<1>2. \A n \in 1..Len(s) : s[n] # id
  BY <1>1 DEF ToSet
<1>3. IsInjective(Append(s, id))
  BY <1>1, <1>2 DEF IsInjective
<1>4. ToSet(Append(s, id)) \subseteq ToSet(s) \union {id}
  BY <1>1 DEF ToSet
<1>5. ToSet(s) \subseteq ToSet(Append(s, id))
  BY <1>1 DEF ToSet
<1>6. id \in ToSet(Append(s, id))
  <2>1. Len(s) + 1 \in DOMAIN Append(s, id)
    BY <1>1
  <2> QED BY <1>1, <2>1 DEF ToSet
<1> QED BY <1>1, <1>3, <1>4, <1>5, <1>6

\* Notifications that have been received were sent, and not too many were.
Delivered ==
  \A id \in Ids : /\ Len(sent[id]) <= MaxSent
                  /\ delivered[id] \in 0..Len(sent[id])
                  /\ records[id] = None => sent[id] = <<>> /\ delivered[id] = 0

EngineInv == ReconciliationTypeOK /\ Delivered

LEMMA EngineInit == ReconciliationInit => EngineInv
BY ReconciliationAssumption DEF ReconciliationInit, EngineInv, ReconciliationTypeOK, Delivered

\* A webhook without a status leaves our_status as it was.
LEMMA NullKeepsStatus ==
  ASSUME NEW o
  PROVE  NewStatus("null", o) = o
BY DEF NewStatus, Recognised, Lower, StatusMap

\* What a notification has update_from_provider do.
Told(id, status) == UpdateFromProvider(id, status, PaymentNamed(status))

\* What a call of update_from_provider makes of one record.
LEMMA UpdateFacts ==
  ASSUME EngineInv, NEW id \in Known, NEW status \in Statuses,
         Told(id, status)
  PROVE  /\ records' \in [Ids -> Record \union {None}]
         /\ Known' = Known
         /\ \A other \in Ids \ {id} : records'[other] = records[other]
         /\ records'[id] \in Record
         /\ records'[id].intent = records[id].intent
         /\ records'[id].provider = records[id].provider
         /\ records'[id].provider_status = status
         /\ records'[id].provider_payment_id = PaymentNamed(status)
         /\ records'[id].our_status = NewStatus(status, records[id].our_status)
         /\ status # "null" => records'[id].discrepancy =
              CheckDiscrepancy(status, NewStatus(status, records[id].our_status))
<1> DEFINE payment == PaymentNamed(status)
           ours == NewStatus(status, records[id].our_status)
           flag == IF status = "null" THEN records[id].discrepancy
                                      ELSE CheckDiscrepancy(status, ours)
           new == [records[id] EXCEPT !.provider_status = status,
                                      !.provider_payment_id = payment,
                                      !.our_status = ours, !.discrepancy = flag]
<1>1. id \in Ids /\ records[id] \in Record /\ records \in [Ids -> Record \union {None}]
  BY DEF Known, EngineInv, ReconciliationTypeOK
<1>2. ours \in OurStatuses
  BY <1>1, NewStatusType DEF Record
<1>3. flag \in BOOLEAN
  BY <1>1 DEF CheckDiscrepancy, Record
<1>a. payment \in {"", "known"} /\ UpdateFromProvider(id, status, payment)
  BY DEF PaymentNamed, Told
<1> HIDE DEF payment
<1>4. records' = [records EXCEPT ![id] = new]
  <2>1. CASE status # "null"
    BY <1>1, <1>a, <2>1 DEF UpdateFromProvider
  <2>2. CASE status = "null"
    <3>1. ours = records[id].our_status /\ flag = records[id].discrepancy
      BY <2>2, NullKeepsStatus
    <3> HIDE DEF ours, flag
    <3>2. new = [records[id] EXCEPT !.provider_status = "null",
                                    !.provider_payment_id = payment]
      BY <1>1, <2>2, <3>1 DEF Record
    <3>3. records' = [records EXCEPT ![id] = [records[id] EXCEPT
                        !.provider_status = "null", !.provider_payment_id = payment]]
      BY <1>1, <1>a, <2>2 DEF UpdateFromProvider, RaiseOnNone
    <3> QED BY <3>2, <3>3
  <2> QED BY <2>1, <2>2
<1> HIDE DEF ours, flag
<1>5. /\ new \in Record
      /\ new.intent = records[id].intent /\ new.provider = records[id].provider
      /\ new.provider_status = status /\ new.our_status = ours
      /\ new.provider_payment_id = payment /\ new.discrepancy = flag
  BY <1>1, <1>2, <1>3, <1>a DEF Record
<1> HIDE DEF new
<1>6. new # None
  BY <1>5, RecordAssumption
<1>7. /\ records' \in [Ids -> Record \union {None}] /\ records'[id] = new
      /\ \A other \in Ids \ {id} : records'[other] = records[other]
  BY <1>1, <1>4, <1>5
<1>8. Known' = Known
  BY <1>1, <1>6, <1>7 DEF Known
<1> QED BY <1>5, <1>7, <1>8 DEF ours, flag, payment

\* What create_record makes of the records.
LEMMA CreateFacts ==
  ASSUME EngineInv, NEW id \in Ids, NEW i \in Intents, NEW p \in Providers,
         CreateRecord(id, i, p)
  PROVE  /\ id \notin Known /\ Known' = Known \union {id}
         /\ records' \in [Ids -> Record \union {None}]
         /\ \A other \in Ids \ {id} : records'[other] = records[other]
         /\ records'[id].intent = i /\ records'[id].provider = p
         /\ records'[id].provider_status = "" /\ records'[id].discrepancy = FALSE
         /\ records'[id].our_status = "payment_initiated"
<1> DEFINE new == [intent |-> i, provider |-> p, provider_status |-> "",
                   provider_payment_id |-> "", our_status |-> "payment_initiated",
                   discrepancy |-> FALSE]
<1>1. records \in [Ids -> Record \union {None}] /\ records[id] = None
  BY DEF EngineInv, ReconciliationTypeOK, CreateRecord
<1>2. new \in Record
  BY DEF Record, OurStatuses
<1>3. records' = [records EXCEPT ![id] = new]
  BY DEF CreateRecord
<1>6. /\ new.intent = i /\ new.provider = p /\ new.provider_status = ""
      /\ new.our_status = "payment_initiated" /\ new.discrepancy = FALSE
  OBVIOUS
<1> HIDE DEF new
<1>4. /\ records' \in [Ids -> Record \union {None}] /\ records'[id] = new
      /\ \A other \in Ids \ {id} : records'[other] = records[other]
  BY <1>1, <1>2, <1>3
<1>5. id \notin Known /\ Known' = Known \union {id}
  BY <1>1, <1>2, <1>4, RecordAssumption DEF Known
<1> QED BY <1>4, <1>5, <1>6

\* The n-th notification about a record: a status some provider sends.
LEMMA DeliverFacts ==
  ASSUME EngineInv, NEW id \in Known, NEW n \in 1..Len(sent[id]), Deliver(id, n)
  PROVE  /\ sent[id][n] \in Statuses /\ Told(id, sent[id][n])
         /\ UNCHANGED <<by_intent, by_provider, sent>>
         /\ n \in Nat /\ n <= MaxSent
         /\ delivered' = [delivered EXCEPT ![id] = n]
         /\ overtaken'[id] = (overtaken[id] \/ n \notin {delivered[id], delivered[id] + 1})
         /\ \A other \in Ids \ {id} : overtaken'[other] = overtaken[other]
         /\ overtaken' \in [Ids -> BOOLEAN]
<1>1. id \in Ids /\ sent[id] \in Seq(Statuses) /\ Len(sent[id]) <= MaxSent
  BY DEF Known, EngineInv, ReconciliationTypeOK, Delivered
<1>2. sent[id][n] \in Statuses /\ n \in Nat /\ n <= MaxSent
  BY <1>1, ReconciliationAssumption
<1> DEFINE late == overtaken[id] \/ n \notin {delivered[id], delivered[id] + 1}
<1>3. overtaken' = [overtaken EXCEPT ![id] = late]
  BY DEF Deliver
<1>4. late \in BOOLEAN /\ overtaken \in [Ids -> BOOLEAN]
  BY <1>1 DEF EngineInv, ReconciliationTypeOK
<1> HIDE DEF late
<1>5. /\ overtaken' \in [Ids -> BOOLEAN] /\ overtaken'[id] = late
      /\ \A other \in Ids \ {id} : overtaken'[other] = overtaken[other]
  BY <1>1, <1>3, <1>4
<1> QED BY <1>2, <1>5 DEF Deliver, Told, late

LEMMA SendFacts ==
  ASSUME EngineInv, NEW id \in Known, Notify(id)
  PROVE  /\ UNCHANGED <<records, by_intent, by_provider, delivered, overtaken>>
         /\ \E status \in Statuses :
              sent' = [sent EXCEPT ![id] = Append(@, status)]
         /\ Len(sent[id]) < MaxSent
<1>1. id \in Ids /\ sent[id] \in Seq(Statuses)
  BY DEF Known, EngineInv, ReconciliationTypeOK
<1>2. sent[id] # <<>> => Last(sent[id]) \in Statuses
  BY <1>1 DEF Last
<1>3. PICK status \in Follows[IF sent[id] = <<>> THEN "none" ELSE Last(sent[id])] :
        sent' = [sent EXCEPT ![id] = Append(@, status)]
  BY DEF Notify
<1>4. status \in Statuses
  BY <1>2, <1>3, FollowsType
<1> QED BY <1>3, <1>4 DEF Notify

LEMMA EngineNext == EngineInv /\ [ReconciliationNext]_reconciliation => EngineInv'
<1> SUFFICES ASSUME EngineInv, [ReconciliationNext]_reconciliation PROVE EngineInv'
  OBVIOUS
<1>1. ASSUME NEW id \in Ids, NEW i \in Intents, NEW p \in Providers,
             CreateRecord(id, i, p)
      PROVE  EngineInv'
  <2>1. records' \in [Ids -> Record \union {None}]
    BY <1>1, CreateFacts
  <2>2. by_intent' \in [Intents -> Seq(Ids)]
    <3>1. by_intent \in [Intents -> Seq(Ids)]
      BY DEF EngineInv, ReconciliationTypeOK
    <3>2. Append(by_intent[i], id) \in Seq(Ids)
      BY <3>1
    <3>3. by_intent' = [by_intent EXCEPT ![i] = Append(by_intent[i], id)]
      BY <1>1 DEF CreateRecord, Indexed
    <3> QED BY <3>1, <3>2, <3>3
  <2>3. by_provider' \in [Providers -> Seq(Ids)]
    <3>1. by_provider \in [Providers -> Seq(Ids)]
      BY DEF EngineInv, ReconciliationTypeOK
    <3>2. Append(by_provider[p], id) \in Seq(Ids)
      BY <3>1
    <3>3. by_provider' = [by_provider EXCEPT ![p] = Append(by_provider[p], id)]
      BY <1>1 DEF CreateRecord, Indexed
    <3> QED BY <3>1, <3>2, <3>3
  <2>4. UNCHANGED <<sent, delivered, overtaken>>
    BY <1>1 DEF CreateRecord
  <2>5. Delivered'
    <3>1. records[id] = None /\ \A u \in Ids \ {id} : records'[u] = records[u]
      BY <1>1, CreateFacts DEF CreateRecord
    <3> QED BY <2>4, <3>1 DEF EngineInv, Delivered
  <2> QED BY <2>1, <2>2, <2>3, <2>4, <2>5 DEF EngineInv, ReconciliationTypeOK
<1>2. ASSUME NEW id \in Known, Notify(id) PROVE EngineInv'
  <2>1. id \in Ids /\ sent \in [Ids -> Seq(Statuses)] /\ records[id] # None
    BY DEF Known, EngineInv, ReconciliationTypeOK
  <2>2. PICK status \in Statuses : sent' = [sent EXCEPT ![id] = Append(@, status)]
    BY <1>2, SendFacts
  <2>3. sent' \in [Ids -> Seq(Statuses)]
    BY <2>1, <2>2
  <2>4. UNCHANGED <<records, by_intent, by_provider, delivered, overtaken>>
    BY <1>2, SendFacts
  <2>5. Delivered'
    <3>1. Len(sent[id]) < MaxSent /\ Len(sent[id]) \in Nat
      BY <1>2, <2>1, SendFacts
    <3>2. Len(sent'[id]) = Len(sent[id]) + 1
      BY <2>1, <2>2
    <3>3. \A u \in Ids \ {id} : sent'[u] = sent[u]
      BY <2>1, <2>2
    <3> QED BY <2>1, <2>4, <3>1, <3>2, <3>3, ReconciliationAssumption
            DEF EngineInv, Delivered
  <2> QED BY <2>3, <2>4, <2>5 DEF EngineInv, ReconciliationTypeOK
<1>3. ASSUME NEW id \in Known, NEW n \in 1..Len(sent[id]), Deliver(id, n)
      PROVE  EngineInv'
  <2>1. /\ sent[id][n] \in Statuses /\ Told(id, sent[id][n])
        /\ UNCHANGED <<by_intent, by_provider, sent>>
        /\ n \in Nat /\ n <= MaxSent /\ delivered' = [delivered EXCEPT ![id] = n]
        /\ overtaken' \in [Ids -> BOOLEAN]
    BY <1>3, DeliverFacts
  <2>2. records' \in [Ids -> Record \union {None}] /\ Known' = Known
    BY <2>1, UpdateFacts
  <2>3. delivered' \in [Ids -> 0..MaxSent]
    <3>1. n \in 0..MaxSent
      BY <2>1, ReconciliationAssumption
    <3>2. delivered \in [Ids -> 0..MaxSent]
      BY DEF EngineInv, ReconciliationTypeOK
    <3> QED BY <2>1, <3>1, <3>2
  <2>4. Delivered'
    <3>1. id \in Ids /\ delivered \in [Ids -> 0..MaxSent]
      BY DEF Known, EngineInv, ReconciliationTypeOK
    <3>2. \A u \in Ids : delivered'[u] = IF u = id THEN n ELSE delivered[u]
      BY <2>1, <3>1
    <3>3. \A u \in Ids : records'[u] = None <=> records[u] = None
      BY <2>2 DEF Known
    <3>4. records[id] # None
      BY DEF Known
    <3> QED BY <2>1, <3>1, <3>2, <3>3, <3>4 DEF EngineInv, Delivered
  <2> QED BY <2>1, <2>2, <2>3, <2>4 DEF EngineInv, ReconciliationTypeOK
<1>4. CASE UNCHANGED reconciliation
  BY <1>4 DEF reconciliation, EngineInv, ReconciliationTypeOK, Delivered
<1> QED BY <1>1, <1>2, <1>3, <1>4 DEF ReconciliationNext

(* The variables of the engine have their types.                           *)
THEOREM EngineTypeCorrect == ReconciliationSpec => []ReconciliationTypeOK
<1>1. EngineInv => ReconciliationTypeOK
  BY DEF EngineInv
<1> QED BY <1>1, EngineInit, EngineNext, PTL DEF ReconciliationSpec

-----------------------------------------------------------------------------
(* The indexes.  Only create_record touches them; an update changes        *)
(* neither the intent nor the provider of a record.                        *)

LEMMA IndexesInit == ReconciliationInit => IndexesComplete
<1> SUFFICES ASSUME ReconciliationInit PROVE IndexesComplete
  OBVIOUS
<1>1. Known = {} /\ IsInjective(<<>>) /\ ToSet(<<>>) = {}
  BY DEF ReconciliationInit, Known, IsInjective, ToSet
<1> QED BY <1>1 DEF ReconciliationInit, IndexesComplete

LEMMA IndexesNext == EngineInv /\ IndexesComplete /\ [ReconciliationNext]_reconciliation => IndexesComplete'
<1> SUFFICES ASSUME EngineInv, IndexesComplete, [ReconciliationNext]_reconciliation PROVE IndexesComplete'
  OBVIOUS
<1>1. ASSUME NEW id \in Ids, NEW i \in Intents, NEW p \in Providers,
             CreateRecord(id, i, p)
      PROVE  IndexesComplete'
  <2>1. /\ id \notin Known /\ Known' = Known \union {id}
        /\ \A other \in Ids \ {id} : records'[other] = records[other]
        /\ records'[id].intent = i /\ records'[id].provider = p
    BY <1>1, CreateFacts
  <2>2. Known \subseteq Ids \ {id}
    BY <2>1 DEF Known
  <2>3. ASSUME NEW j \in Intents
        PROVE  /\ IsInjective(by_intent'[j])
               /\ ToSet(by_intent'[j]) = {u \in Known' : records'[u].intent = j}
    <3>1. /\ by_intent[j] \in Seq(Ids) /\ IsInjective(by_intent[j])
          /\ ToSet(by_intent[j]) = {u \in Known : records[u].intent = j}
      BY DEF EngineInv, ReconciliationTypeOK, IndexesComplete
    <3>2. by_intent'[j] = IF j = i THEN Append(by_intent[j], id) ELSE by_intent[j]
      BY <1>1 DEF CreateRecord, Indexed, EngineInv, ReconciliationTypeOK
    <3>3. {u \in Known' : records'[u].intent = j} =
            {u \in Known : records[u].intent = j} \union (IF j = i THEN {id} ELSE {})
      BY <2>1, <2>2
    <3>4. CASE j = i
      <4>1. id \notin ToSet(by_intent[j])
        BY <2>1, <3>1
      <4> QED BY <3>1, <3>2, <3>3, <3>4, <4>1, AppendKeepsIndex
    <3>5. CASE j # i
      BY <3>1, <3>2, <3>3, <3>5
    <3> QED BY <3>4, <3>5
  <2>4. ASSUME NEW q \in Providers
        PROVE  /\ IsInjective(by_provider'[q])
               /\ ToSet(by_provider'[q]) = {u \in Known' : records'[u].provider = q}
    <3>1. /\ by_provider[q] \in Seq(Ids) /\ IsInjective(by_provider[q])
          /\ ToSet(by_provider[q]) = {u \in Known : records[u].provider = q}
      BY DEF EngineInv, ReconciliationTypeOK, IndexesComplete
    <3>2. by_provider'[q] = IF q = p THEN Append(by_provider[q], id) ELSE by_provider[q]
      BY <1>1 DEF CreateRecord, Indexed, EngineInv, ReconciliationTypeOK
    <3>3. {u \in Known' : records'[u].provider = q} =
            {u \in Known : records[u].provider = q} \union (IF q = p THEN {id} ELSE {})
      BY <2>1, <2>2
    <3>4. CASE q = p
      <4>1. id \notin ToSet(by_provider[q])
        BY <2>1, <3>1
      <4> QED BY <3>1, <3>2, <3>3, <3>4, <4>1, AppendKeepsIndex
    <3>5. CASE q # p
      BY <3>1, <3>2, <3>3, <3>5
    <3> QED BY <3>4, <3>5
  <2> QED BY <2>3, <2>4 DEF IndexesComplete
<1>2. ASSUME NEW id \in Known, Notify(id) PROVE IndexesComplete'
  <2>1. UNCHANGED <<records, by_intent, by_provider>>
    BY <1>2, SendFacts
  <2> QED BY <2>1 DEF IndexesComplete, Known
<1>3. ASSUME NEW id \in Known, NEW n \in 1..Len(sent[id]), Deliver(id, n)
      PROVE  IndexesComplete'
  <2>1. /\ sent[id][n] \in Statuses /\ Told(id, sent[id][n])
        /\ UNCHANGED <<by_intent, by_provider>>
    BY <1>3, DeliverFacts
  <2>2. /\ Known' = Known
        /\ \A other \in Ids \ {id} : records'[other] = records[other]
        /\ records'[id].intent = records[id].intent
        /\ records'[id].provider = records[id].provider
    BY <2>1, UpdateFacts
  <2>3. \A u \in Known : /\ records'[u].intent = records[u].intent
                         /\ records'[u].provider = records[u].provider
    BY <2>2 DEF Known
  <2> QED BY <2>1, <2>2, <2>3 DEF IndexesComplete
<1>4. CASE UNCHANGED reconciliation
  BY <1>4 DEF reconciliation, IndexesComplete, Known
<1> QED BY <1>1, <1>2, <1>3, <1>4 DEF ReconciliationNext

(* get_by_intent and get_by_provider list every record once, whatever was  *)
(* created and updated in what order (reconciliation.py:60-63, 110-124).   *)
THEOREM IndexesHold == ReconciliationSpec => []IndexesComplete
BY EngineInit, EngineNext, IndexesInit, IndexesNext, PTL DEF ReconciliationSpec

-----------------------------------------------------------------------------
(* The flag and the status.  Both are functions of the last notification   *)
(* and, where the engine has no word for it, of the status before.         *)

LEMMA FlagInit == ReconciliationInit => FlaggedOnUnknown
BY DEF ReconciliationInit, FlaggedOnUnknown, Known

LEMMA FlagNext == EngineInv /\ FlaggedOnUnknown /\ [ReconciliationNext]_reconciliation => FlaggedOnUnknown'
<1> SUFFICES ASSUME EngineInv, FlaggedOnUnknown, [ReconciliationNext]_reconciliation PROVE FlaggedOnUnknown'
  OBVIOUS
<1>1. ASSUME NEW id \in Ids, NEW i \in Intents, NEW p \in Providers,
             CreateRecord(id, i, p)
      PROVE  FlaggedOnUnknown'
  <2>1. /\ Known' = Known \union {id} /\ id \notin Known
        /\ \A other \in Ids \ {id} : records'[other] = records[other]
    BY <1>1, CreateFacts
  <2>2. records'[id].provider_status = "" /\ records'[id].discrepancy = FALSE
    BY <1>1, CreateFacts
  <2>3. \A u \in Known : records'[u] = records[u]
    BY <2>1 DEF Known
  <2> QED BY <2>1, <2>2, <2>3 DEF FlaggedOnUnknown
<1>2. ASSUME NEW id \in Known, Notify(id) PROVE FlaggedOnUnknown'
  <2>1. UNCHANGED records
    BY <1>2, SendFacts
  <2> QED BY <2>1 DEF FlaggedOnUnknown, Known
<1>3. ASSUME NEW id \in Known, NEW n \in 1..Len(sent[id]), Deliver(id, n)
      PROVE  FlaggedOnUnknown'
  <2> DEFINE status == sent[id][n]
             ours == NewStatus(status, records[id].our_status)
  <2>1. status \in Statuses /\ Told(id, status)
    BY <1>3, DeliverFacts
  <2>2. /\ Known' = Known
        /\ \A other \in Ids \ {id} : records'[other] = records[other]
        /\ records'[id].provider_status = status
        /\ records'[id].our_status = ours
        /\ status # "null" => records'[id].discrepancy = CheckDiscrepancy(status, ours)
    BY <2>1, UpdateFacts
  <2>3. records[id].our_status \in OurStatuses
    BY DEF Known, EngineInv, ReconciliationTypeOK, Record
  <2>4. status # ""
    BY <2>1, StatusesAre
  <2>5. CheckDiscrepancy(status, ours) <=>
          ~ Recognised(status) /\ ours \in {"settled", "payment_failed"}
    <3>1. CASE Recognised(status)
      BY <2>1, <3>1, KnownIsConsistent DEF NewStatus
    <3>2. CASE ~ Recognised(status)
      BY <2>1, <2>3, <3>2, UnknownIsInconsistent DEF NewStatus
    <3> QED BY <3>1, <3>2
  <2>6. \A u \in Known \ {id} : records'[u] = records[u]
    BY <2>2 DEF Known
  <2> HIDE DEF status, ours
  <2> QED BY <2>2, <2>4, <2>5, <2>6 DEF FlaggedOnUnknown
<1>4. CASE UNCHANGED reconciliation
  BY <1>4 DEF reconciliation, FlaggedOnUnknown, Known
<1> QED BY <1>1, <1>2, <1>3, <1>4 DEF ReconciliationNext

(* A record is flagged exactly while its last notification is unknown to   *)
(* the engine and it counts as settled or failed (reconciliation.py:96-112)*)
THEOREM FlagsHold == ReconciliationSpec => []FlaggedOnUnknown
BY EngineInit, EngineNext, FlagInit, FlagNext, PTL DEF ReconciliationSpec

\* What ViewIsCurrent says of one record.
Current(id) ==
  \/ \E n \in 1..delivered[id] :
       Heard(id, n) /\ records[id].our_status = StatusMap[Lower(sent[id][n])]
  \/ /\ \A n \in 1..delivered[id] : ~ Recognised(sent[id][n])
     /\ records[id].our_status = "payment_initiated"

LEMMA ViewInit == ReconciliationInit => ViewIsCurrent
BY DEF ReconciliationInit, ViewIsCurrent, Known

\* Notifications that are sent come after those that were delivered.
LEMMA SendKeepsCurrent ==
  ASSUME EngineInv, NEW id \in Known, NEW u \in Known, Current(u), Notify(id)
  PROVE  Current(u)'
<1>1. /\ u \in Ids /\ sent \in [Ids -> Seq(Statuses)]
      /\ delivered[u] \in Nat /\ delivered[u] <= Len(sent[u])
  BY ReconciliationAssumption DEF Known, EngineInv, ReconciliationTypeOK, Delivered
<1>2. UNCHANGED <<records, delivered>>
  BY SendFacts
<1>3. PICK status \in Statuses : sent' = [sent EXCEPT ![id] = Append(@, status)]
  BY SendFacts
<1>4. \A n \in 1..delivered[u] : sent'[u][n] = sent[u][n]
  <2>1. CASE u = id
    <3>1. sent'[u] = Append(sent[u], status)
      BY <1>1, <1>3, <2>1
    <3> QED BY <1>1, <3>1
  <2>2. CASE u # id
    BY <1>1, <1>3, <2>2
  <2> QED BY <2>1, <2>2
<1>5. delivered'[u] = delivered[u] /\ records'[u] = records[u]
  BY <1>2
<1>6. ASSUME NEW n \in 1..delivered[u] PROVE Heard(u, n)' <=> Heard(u, n)
  <2>1. \A later \in n + 1..delivered[u] : later \in 1..delivered[u]
    BY <1>1
  <2>2. sent'[u][n] = sent[u][n]
    BY <1>4
  <2>3. \A later \in n + 1..delivered[u] : sent'[u][later] = sent[u][later]
    BY <1>4, <2>1
  <2> QED BY <1>5, <2>2, <2>3 DEF Heard
<1> QED BY <1>4, <1>5, <1>6 DEF Current

\* The notification after the last one, or the last one again.
LEMMA DeliverKeepsCurrent ==
  ASSUME EngineInv, NEW id \in Known, NEW n \in 1..Len(sent[id]), Deliver(id, n),
         n \in {delivered[id], delivered[id] + 1}, Current(id)
  PROVE  Current(id)'
<1> DEFINE status == sent[id][n]
<1>1. /\ id \in Ids /\ delivered[id] \in Nat /\ n \in Nat \ {0}
      /\ status \in Statuses /\ Told(id, status) /\ UNCHANGED sent
  BY DeliverFacts, ReconciliationAssumption DEF Known, EngineInv, ReconciliationTypeOK
<1>2. delivered'[id] = n
  BY <1>1, DeliverFacts DEF EngineInv, ReconciliationTypeOK
<1>3. records'[id].our_status = NewStatus(status, records[id].our_status)
  BY <1>1, UpdateFacts
<1>4. CASE Recognised(status)
  <2>1. records'[id].our_status = StatusMap[Lower(status)]
    BY <1>3, <1>4 DEF NewStatus
  <2>2. Heard(id, n)'
    BY <1>1, <1>2, <1>4 DEF Heard
  <2>3. n \in 1..delivered'[id]
    BY <1>1, <1>2
  <2> QED BY <1>1, <2>1, <2>2, <2>3 DEF Current
<1>5. CASE ~ Recognised(status)
  <2>1. records'[id].our_status = records[id].our_status
    BY <1>3, <1>5 DEF NewStatus
  <2>2. \A m \in 1..delivered[id] : m \in 1..n
    BY <1>1
  <2>3. \A m \in 1..n : m \notin 1..delivered[id] => m = n
    BY <1>1
  <2>4. CASE \A m \in 1..delivered[id] : ~ Recognised(sent[id][m])
    <3>1. records[id].our_status = "payment_initiated"
      BY <2>4 DEF Current, Heard
    <3>2. \A m \in 1..n : ~ Recognised(sent[id][m])
      BY <1>5, <2>3, <2>4
    <3> QED BY <1>1, <1>2, <2>1, <3>1, <3>2 DEF Current
  <2>5. CASE \E m \in 1..delivered[id] : Recognised(sent[id][m])
    <3>1. PICK m \in 1..delivered[id] :
            Heard(id, m) /\ records[id].our_status = StatusMap[Lower(sent[id][m])]
      BY <2>5 DEF Current
    <3>2. \A later \in m + 1..n : ~ Recognised(sent[id][later])
      <4> SUFFICES ASSUME NEW later \in m + 1..n
                   PROVE  ~ Recognised(sent[id][later])
        OBVIOUS
      <4>1. CASE later \in m + 1..delivered[id]
        BY <3>1, <4>1 DEF Heard
      <4>2. CASE later = n
        BY <1>5, <4>2
      <4> QED BY <1>1, <4>1, <4>2
    <3>3. m \in 1..n /\ Heard(id, m)'
      BY <1>1, <1>2, <2>2, <3>1, <3>2 DEF Heard
    <3> QED BY <1>1, <1>2, <2>1, <3>1, <3>3 DEF Current
  <2> QED BY <2>4, <2>5
<1> QED BY <1>4, <1>5

LEMMA ViewNext == EngineInv /\ ViewIsCurrent /\ [ReconciliationNext]_reconciliation => ViewIsCurrent'
<1> SUFFICES ASSUME EngineInv, ViewIsCurrent, [ReconciliationNext]_reconciliation PROVE ViewIsCurrent'
  OBVIOUS
<1>a. \A u \in Known : ~ overtaken[u] => Current(u)
  BY DEF ViewIsCurrent, Current
<1>b. SUFFICES \A u \in Known' : ~ overtaken'[u] => Current(u)'
  BY DEF ViewIsCurrent, Current
<1>1. ASSUME NEW id \in Ids, NEW i \in Intents, NEW p \in Providers,
             CreateRecord(id, i, p), NEW u \in Known', ~ overtaken'[u]
      PROVE  Current(u)'
  <2>1. /\ Known' = Known \union {id} /\ id \notin Known
        /\ \A other \in Ids \ {id} : records'[other] = records[other]
    BY <1>1, CreateFacts
  <2>2. UNCHANGED <<sent, delivered, overtaken>>
    BY <1>1 DEF CreateRecord
  <2>3. CASE u \in Known
    <3>1. records'[u] = records[u]
      BY <2>1, <2>3 DEF Known
    <3> QED BY <1>1, <1>a, <2>2, <2>3, <3>1 DEF Current, Heard
  <2>4. CASE u = id
    <3>2. records'[id].our_status = "payment_initiated"
      BY <1>1, CreateFacts
    <3>3. delivered'[id] = 0
      BY <1>1, <2>2 DEF CreateRecord, EngineInv, Delivered
    <3> QED BY <2>4, <3>2, <3>3 DEF Current
  <2> QED BY <2>1, <2>3, <2>4
<1>2. ASSUME NEW id \in Known, Notify(id), NEW u \in Known', ~ overtaken'[u]
      PROVE  Current(u)'
  <2>1. UNCHANGED <<records, overtaken>>
    BY <1>2, SendFacts
  <2>2. u \in Known
    BY <2>1 DEF Known
  <2> QED BY <1>2, <1>a, <2>1, <2>2, SendKeepsCurrent
<1>3. ASSUME NEW id \in Known, NEW n \in 1..Len(sent[id]), Deliver(id, n),
             NEW u \in Known', ~ overtaken'[u]
      PROVE  Current(u)'
  <2>1. /\ sent[id][n] \in Statuses /\ Told(id, sent[id][n])
        /\ UNCHANGED sent /\ delivered' = [delivered EXCEPT ![id] = n]
        /\ overtaken'[id] = (overtaken[id] \/ n \notin {delivered[id], delivered[id] + 1})
        /\ \A other \in Ids \ {id} : overtaken'[other] = overtaken[other]
    BY <1>3, DeliverFacts
  <2>2. /\ Known' = Known
        /\ \A other \in Ids \ {id} : records'[other] = records[other]
    BY <2>1, UpdateFacts
  <2>3. CASE u = id
    <3>1. ~ overtaken[id] /\ n \in {delivered[id], delivered[id] + 1}
      BY <1>3, <2>1, <2>3
    <3> QED BY <1>3, <1>a, <2>3, <3>1, DeliverKeepsCurrent
  <2>4. CASE u # id
    <3>1. /\ u \in Ids \ {id} /\ u \in Known
          /\ records'[u] = records[u] /\ overtaken'[u] = overtaken[u]
      BY <2>1, <2>2, <2>4 DEF Known
    <3>2. delivered'[u] = delivered[u]
      BY <2>1, <3>1 DEF EngineInv, ReconciliationTypeOK
    <3> QED BY <1>3, <1>a, <2>1, <3>1, <3>2 DEF Current, Heard
  <2> QED BY <2>3, <2>4
<1>4. CASE UNCHANGED reconciliation
  BY <1>4, <1>a DEF reconciliation, Current, Heard, Known
<1> QED BY <1>1, <1>2, <1>3, <1>4 DEF ReconciliationNext

(* Unless one of its notifications was overtaken, a record's status is     *)
(* what the provider said last that the engine understands                 *)
(* (reconciliation.py:79-96), however often notifications are repeated.    *)
THEOREM ViewHolds == ReconciliationSpec => []ViewIsCurrent
BY EngineInit, EngineNext, ViewInit, ViewNext, PTL DEF ReconciliationSpec

-----------------------------------------------------------------------------
\* A webhook moves the engine by one of its own steps, or not at all.
LEMMA WebhookSteps == [NNext]_nvars => [ReconciliationNext]_reconciliation
<1> SUFFICES ASSUME [NNext]_nvars PROVE [ReconciliationNext]_reconciliation
  OBVIOUS
<1>1. ASSUME NEW id \in Ids, NEW i \in Intents, NEW p \in Providers, NCreate(id, i, p)
      PROVE  ReconciliationNext
  BY <1>1 DEF NCreate, ReconciliationNext
<1>2. ASSUME NEW id \in Known, NSend(id) PROVE ReconciliationNext
  BY <1>2 DEF NSend, ReconciliationNext
<1>3. ASSUME NEW id \in Known, NEW n \in 1..Len(sent[id]), NDeliver(id, n)
      PROVE  ReconciliationNext
  BY <1>3 DEF NDeliver, ReconciliationNext
<1>4. ASSUME NEW id \in Known, NEW n \in 1..Len(sent[id]), NRefuse(id, n)
      PROVE  UNCHANGED reconciliation
  BY <1>4 DEF NRefuse, nvars
<1>5. CASE UNCHANGED nvars
  BY <1>5 DEF nvars
<1> QED BY <1>1, <1>2, <1>3, <1>4, <1>5 DEF NNext

(* The engine behind the webhooks is the engine: what is proved above of   *)
(* Spec holds of NSpec.                                                    *)
THEOREM WebhooksDriveEngine == NSpec => ReconciliationSpec
<1>1. NInit => ReconciliationInit
  BY DEF NInit
<1> QED BY <1>1, WebhookSteps, PTL DEF NSpec, ReconciliationSpec

LEMMA AcceptedFacts ==
  ASSUME NEW d \in Deployment, NEW p \in Processors, NEW status,
         Accepted(HandleWebhook(d, Request(p, status)))
  PROVE  HandleWebhook(d, Request(p, status)).event = Event(p, EventName(p, status))
<1> DEFINE request == Request(p, status)
           refused == [error |-> "Invalid webhook or unknown provider"]
<1>1. request.provider = p /\ request.name = EventName(p, status)
  BY DEF Request
<1> HIDE DEF request
<1>2. "error" \in DOMAIN refused
  OBVIOUS
<1>3. HandleWebhook(d, request).event = Event(p, EventName(p, status))
  BY <1>1, <1>2 DEF HandleWebhook, Accepted, request
<1> QED BY <1>3 DEF request

DeployInv == EngineInv /\ deployment \in Deployments

LEMMA DeployInit == NInit => DeployInv
BY EngineInit DEF NInit, DeployInv

LEMMA DeployNext == DeployInv /\ [NNext]_nvars => DeployInv' /\ UNCHANGED deployment
<1> SUFFICES ASSUME DeployInv, [NNext]_nvars PROVE DeployInv' /\ UNCHANGED deployment
  OBVIOUS
<1>1. UNCHANGED deployment
  BY DEF NNext, NCreate, NSend, NDeliver, NRefuse, nvars
<1>2. [ReconciliationNext]_reconciliation
  BY WebhookSteps
<1> QED BY <1>1, <1>2, EngineNext DEF DeployInv

\* An accepted webhook, in terms of its record.
LEMMA NDeliverFacts ==
  ASSUME DeployInv, NEW id \in Known, NEW n \in 1..Len(sent[id]), NDeliver(id, n)
  PROVE  /\ Deliver(id, n) /\ records[id].provider \in Processors
         /\ event' = [event EXCEPT ![id] = Event(records[id].provider,
                        EventName(records[id].provider, sent[id][n]))]
<1>1. deployment \in Deployment /\ records[id].provider \in Processors
  BY DeploymentAssumption DEF DeployInv, EngineInv, ReconciliationTypeOK, Known, Record
<1> DEFINE provider == records[id].provider
           status == sent[id][n]
           reply == HandleWebhook(deployment, Request(provider, status))
<1>2. /\ Accepted(reply) /\ Deliver(id, n)
      /\ event' = [event EXCEPT ![id] = reply.event]
  BY DEF NDeliver, Reply
<1> HIDE DEF provider, status
<1>3. reply.event = Event(provider, EventName(provider, status))
  BY <1>1, <1>2, AcceptedFacts DEF provider
<1> QED BY <1>1, <1>2, <1>3 DEF provider, status

-----------------------------------------------------------------------------
(* The event and the record.  Both follow from the status that arrived     *)
(* last, whatever came before: that is the invariant, and the agreement is *)
(* a comparison of the handler's tables with the engine's.                 *)

\* What is sent about a record is in its provider's words.
Spoken == \A id \in Known : \A n \in 1..Len(sent[id]) :
            sent[id][n] \in Speaks[records[id].provider]

\* A record as its last notification left it.
AsTold(r, e) ==
  /\ r.provider_status \in Speaks[r.provider]
  /\ e = Event(r.provider, EventName(r.provider, r.provider_status))
  /\ Recognised(r.provider_status) => r.our_status = StatusMap[Lower(r.provider_status)]
  /\ r.provider_status # "null" =>
       (r.discrepancy <=> CheckDiscrepancy(r.provider_status, r.our_status))

Events == {"PAYMENT_AUTHORIZED", "PAYMENT_CAPTURED", "PAYMENT_FAILED",
           "PAYMENT_REFUNDED", "PAYMENT_DISPUTED"}

EventInv ==
  /\ DeployInv /\ Spoken /\ event \in [Ids -> {None} \union Events]
  /\ \A id \in Ids : event[id] # None => id \in Known /\ AsTold(records[id], event[id])

LEMMA EventInit == NInit => EventInv
<1> SUFFICES ASSUME NInit PROVE EventInv
  OBVIOUS
<1>1. DeployInv
  BY DeployInit
<1>2. Known = {}
  BY DEF NInit, ReconciliationInit, Known
<1> QED BY <1>1, <1>2 DEF NInit, EventInv, Spoken

LEMMA EventNext == EventInv /\ [NNext]_nvars => EventInv'
<1> SUFFICES ASSUME EventInv, [NNext]_nvars PROVE EventInv'
  OBVIOUS
<1>a. DeployInv /\ EngineInv /\ DeployInv'
  BY DeployNext DEF EventInv, DeployInv
<1>1. ASSUME NEW id \in Ids, NEW i \in Intents, NEW p \in Providers, NCreate(id, i, p)
      PROVE  EventInv'
  <2>1. /\ Known' = Known \union {id} /\ id \notin Known
        /\ \A other \in Ids \ {id} : records'[other] = records[other]
    BY <1>1, <1>a, CreateFacts DEF NCreate
  <2>2. UNCHANGED <<sent, event>>
    BY <1>1 DEF NCreate, CreateRecord
  <2>3. sent[id] = <<>> /\ event[id] = None
    BY <2>1, <1>a DEF Known, EngineInv, Delivered, EventInv
  <2>4. Spoken'
    <3>1. \A u \in Known : records'[u] = records[u]
      BY <2>1 DEF Known
    <3> QED BY <2>1, <2>2, <2>3, <3>1 DEF EventInv, Spoken
  <2> QED BY <1>a, <2>1, <2>2, <2>3, <2>4 DEF EventInv, Known
<1>2. ASSUME NEW id \in Known, NSend(id) PROVE EventInv'
  <2>1. /\ UNCHANGED <<records, event>> /\ Known' = Known
        /\ Last(sent[id]') \in Speaks[records[id].provider]
    BY <1>2, <1>a, SendFacts DEF NSend, Known
  <2>2. PICK status \in Statuses : sent' = [sent EXCEPT ![id] = Append(@, status)]
    BY <1>2, <1>a, SendFacts DEF NSend
  <2>3. id \in Ids /\ sent \in [Ids -> Seq(Statuses)] /\ sent[id] \in Seq(Statuses)
    BY <1>a DEF Known, EngineInv, ReconciliationTypeOK
  <2>4. sent'[id] = Append(sent[id], status) /\ \A u \in Ids \ {id} : sent'[u] = sent[u]
    BY <2>2, <2>3
  <2>5. status \in Speaks[records[id].provider]
    BY <2>1, <2>3, <2>4 DEF Last
  <2>6. ASSUME NEW u \in Known, NEW n \in 1..Len(sent'[u])
        PROVE  sent'[u][n] \in Speaks[records[u].provider]
    <3>1. CASE u = id
      <4>1. n \in 1..Len(sent[id]) \/ n = Len(sent[id]) + 1
        BY <2>3, <2>4, <3>1
      <4>2. CASE n \in 1..Len(sent[id])
        <5>1. sent'[id][n] = sent[id][n]
          BY <2>3, <2>4, <4>2
        <5> QED BY <3>1, <4>2, <5>1 DEF EventInv, Spoken
      <4>3. CASE n = Len(sent[id]) + 1
        <5>1. sent'[id][n] = status
          BY <2>3, <2>4, <4>3
        <5> QED BY <3>1, <2>5, <5>1
      <4> QED BY <4>1, <4>2, <4>3
    <3>2. CASE u # id
      BY <2>4, <2>6, <3>2 DEF EventInv, Spoken, Known
    <3> QED BY <3>1, <3>2
  <2>7. Spoken'
    BY <2>1, <2>6 DEF Spoken
  <2> QED BY <1>a, <2>1, <2>7 DEF EventInv
<1>3. ASSUME NEW id \in Known, NEW n \in 1..Len(sent[id]), NDeliver(id, n)
      PROVE  EventInv'
  <2> DEFINE status == sent[id][n]
             e == Event(records[id].provider, EventName(records[id].provider, status))
  <2>1. Deliver(id, n) /\ event' = [event EXCEPT ![id] = e]
        /\ records[id].provider \in Processors
    BY <1>3, <1>a, NDeliverFacts
  <2>2. status \in Statuses /\ Told(id, status) /\ UNCHANGED sent
    BY <1>3, <1>a, <2>1, DeliverFacts
  <2>3. status \in Speaks[records[id].provider]
    BY <1>3 DEF EventInv, Spoken
  <2>4. id \in Ids /\ e \in Events
    BY <2>1 DEF Event, InTable, EventMaps, Processors, Events, Known
  <2> HIDE DEF status, e
  <2>5. /\ Known' = Known
        /\ \A other \in Ids \ {id} : records'[other] = records[other]
        /\ records'[id].provider = records[id].provider
        /\ records'[id].provider_status = status
        /\ records'[id].our_status = NewStatus(status, records[id].our_status)
        /\ status # "null" => records'[id].discrepancy =
             CheckDiscrepancy(status, NewStatus(status, records[id].our_status))
    BY <1>a, <2>2, UpdateFacts
  <2>6. AsTold(records'[id], e)
    <3>1. Recognised(status) => records'[id].our_status = StatusMap[Lower(status)]
      BY <2>5 DEF NewStatus
    <3> QED BY <2>3, <2>5, <3>1 DEF AsTold, e
  <2>7. \A u \in Known : records'[u].provider = records[u].provider
    BY <2>5 DEF Known
  <2>8. Spoken'
    BY <2>2, <2>5, <2>7 DEF EventInv, Spoken
  <2>9. event' \in [Ids -> {None} \union Events] /\ event'[id] = e
        /\ \A u \in Ids \ {id} : event'[u] = event[u]
    BY <2>1, <2>4 DEF EventInv
  <2>10. ASSUME NEW u \in Ids, event'[u] # None
         PROVE  u \in Known' /\ AsTold(records'[u], event'[u])
    <3>1. CASE u = id
      BY <2>5, <2>6, <2>9, <3>1
    <3>2. CASE u # id
      BY <2>5, <2>9, <2>10, <3>2 DEF EventInv
    <3> QED BY <3>1, <3>2
  <2> QED BY <1>a, <2>8, <2>9, <2>10 DEF EventInv
<1>4. CASE UNCHANGED nvars
  BY <1>a, <1>4 DEF nvars, reconciliation, EventInv, Spoken, Known
<1>5. ASSUME NEW id \in Known, NEW n \in 1..Len(sent[id]), NRefuse(id, n)
      PROVE  EventInv'
  BY <1>4, <1>5 DEF NRefuse
<1> QED BY <1>1, <1>2, <1>3, <1>4, <1>5 DEF NNext

\* Which statuses an event comes with.
LEMMA EventOfStatus ==
  ASSUME NEW p \in Processors, NEW s \in Speaks[p],
         NEW e, e = Event(p, EventName(p, s))
  PROVE  /\ e = "PAYMENT_CAPTURED" => Lower(s) \in {"captured", "success"}
         /\ e = "PAYMENT_AUTHORIZED" =>
              s = (IF p = "payu" THEN "pending" ELSE "authorized")
         /\ e = "PAYMENT_REFUNDED" => s = "null"
         /\ e = "PAYMENT_DISPUTED" => s = "disputed"
         /\ e = "PAYMENT_FAILED" =>
              \/ Lower(s) \in {"failed", "failure"} \/ ~ InTable(p, EventName(p, s))
<1>1. CASE p = "razorpay"
  BY <1>1 DEF Speaks, Event, EventName, InTable, EventMaps, Lower
<1>2. CASE p = "cashfree"
  BY <1>2 DEF Speaks, Event, EventName, InTable, EventMaps, Lower
<1>3. CASE p = "payu"
  BY <1>3 DEF Speaks, Event, EventName, InTable, EventMaps, Lower
<1> QED BY <1>1, <1>2, <1>3 DEF Processors

LEMMA EventsAgree == EventInv => EventsMatchRecords
<1> SUFFICES ASSUME EventInv, NEW id \in Known, event[id] # None
             PROVE  LET r == records[id]
                    IN /\ event[id] = "PAYMENT_CAPTURED" => r.our_status = "settled"
                       /\ event[id] = "PAYMENT_AUTHORIZED" =>
                            r.our_status = IF r.provider = "payu" THEN "payment_processing"
                                                                  ELSE "payment_success"
                       /\ event[id] = "PAYMENT_REFUNDED" =>
                            r.our_status = "refunded" \/ r.provider_status = "null"
                       /\ event[id] = "PAYMENT_DISPUTED" =>
                            (r.discrepancy <=> r.our_status \in {"settled", "payment_failed"})
                       /\ event[id] = "PAYMENT_FAILED"
                          /\ InTable(r.provider, EventName(r.provider, r.provider_status)) =>
                            r.our_status = "payment_failed"
  BY DEF EventsMatchRecords
<1> DEFINE r == records[id]
           s == r.provider_status
           e == event[id]
<1>1. /\ r \in Record /\ r.provider \in Processors /\ s \in Statuses \union {""}
      /\ r.our_status \in OurStatuses
  BY DeploymentAssumption DEF EventInv, DeployInv, EngineInv, ReconciliationTypeOK, Known, Record
<1>2. AsTold(r, e)
  BY DEF EventInv, Known
<1>3. s \in Speaks[r.provider] /\ e = Event(r.provider, EventName(r.provider, s))
  BY <1>2 DEF AsTold
<1>4. Recognised(s) => r.our_status = StatusMap[Lower(s)]
  BY <1>2 DEF AsTold
<1>6. s # "null" => (r.discrepancy <=> CheckDiscrepancy(s, r.our_status))
  BY <1>2 DEF AsTold
<1> HIDE DEF s, e, r
<1>7. /\ e = "PAYMENT_CAPTURED" => Lower(s) \in {"captured", "success"}
      /\ e = "PAYMENT_AUTHORIZED" =>
           s = (IF r.provider = "payu" THEN "pending" ELSE "authorized")
      /\ e = "PAYMENT_REFUNDED" => s = "null"
      /\ e = "PAYMENT_DISPUTED" => s = "disputed"
      /\ e = "PAYMENT_FAILED" =>
           Lower(s) \in {"failed", "failure"} \/ ~ InTable(r.provider, EventName(r.provider, s))
  BY <1>1, <1>3, EventOfStatus, ZenonT(30)
<1>8. e = "PAYMENT_CAPTURED" => r.our_status = "settled"
  <2>1. ASSUME NEW status \in {"captured", "success"}
        PROVE  status \in DOMAIN StatusMap /\ StatusMap[status] = "settled"
    BY DEF StatusMap
  <2> QED BY <1>4, <1>7, <2>1 DEF Recognised
<1>9. e = "PAYMENT_AUTHORIZED" =>
        r.our_status = IF r.provider = "payu" THEN "payment_processing"
                                              ELSE "payment_success"
  BY <1>4, <1>7 DEF Recognised, StatusMap, Lower
<1>10. e = "PAYMENT_REFUNDED" => s = "null"
  BY <1>7
<1>11. e = "PAYMENT_DISPUTED" =>
         (r.discrepancy <=> r.our_status \in {"settled", "payment_failed"})
  <2>1. ~ Recognised("disputed") /\ "disputed" \in Statuses
    BY StatusesAre DEF Recognised, StatusMap, Lower
  <2> QED BY <1>1, <1>6, <1>7, <2>1, UnknownIsInconsistent
<1>12. Lower(s) \in {"failed", "failure"} => r.our_status = "payment_failed"
  BY <1>4 DEF Recognised, StatusMap
<1> QED BY <1>7, <1>8, <1>9, <1>10, <1>11, <1>12 DEF r, s, e

(* What handle_webhook answers and what the engine would record agree, but *)
(* for the exceptions the property names, whatever arrives in what order   *)
(* (webhook_handler.py:102-113, 135-144, 161-168; reconciliation.py:80-96).*)
THEOREM EventsStayMatched == NSpec => []EventsMatchRecords
BY EventInit, EventNext, EventsAgree, PTL DEF NSpec
=============================================================================
