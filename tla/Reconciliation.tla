---------------------------- MODULE Reconciliation ----------------------------
(* ReconciliationEngine (reconciliation.py): one record per attempt at a   *)
(* payment with a provider, and what the provider's notifications make of  *)
(* it.  Providers send a notification again when they are not sure it was  *)
(* received, and later ones may overtake earlier ones.  Nothing in the     *)
(* repository but the engine itself touches its dicts, one call at a time. *)
(* A status is what the provider wrote, or "null": the None that a webhook *)
(* without a payment in it is parsed to.  A payment id is there or "".     *)
EXTENDS Naturals, Sequences, FiniteSets, SequencesExt, PythonNone

CONSTANTS
  Ids,       \* record ids, fresh for every record
  Intents, Providers,
  MaxSent    \* bound on the notifications sent about one record

ASSUME ReconciliationAssumption ==
  /\ MaxSent \in Nat
  /\ None \notin Ids \union Intents \union Providers

VARIABLES
  records,     \* ReconciliationEngine._records: id -> record, or None
  by_intent,   \* ReconciliationEngine._by_intent
  by_provider, \* ReconciliationEngine._by_provider
  sent,        \* environment: per record, what its provider has sent
  delivered,   \* environment: which of these was received last, or 0
  overtaken    \* history: some notification of the record was

reconciliation == <<records, by_intent, by_provider, sent, delivered, overtaken>>

-----------------------------------------------------------------------------
\* str.lower, on the statuses the providers write in capitals.
Lower(status) == CASE status = "SUCCESS" -> "success"
                   [] status = "FAILED" -> "failed"
                   [] OTHER -> status

StatusMap == [
  authorized |-> "payment_success", captured |-> "settled",
  failed |-> "payment_failed", refunded |-> "refunded",
  pending |-> "payment_processing", processing |-> "payment_processing",
  success |-> "settled", failure |-> "payment_failed"]

Recognised(status) == Lower(status) \in DOMAIN StatusMap

\* Mutant: a status nobody knows is a failure.
UnknownFails(status, ours) ==
  IF Recognised(status) THEN StatusMap[Lower(status)] ELSE "payment_failed"

\* Mutant: status_map.get(status, status).
PassedThrough(status, ours) ==
  IF Recognised(status) THEN StatusMap[Lower(status)] ELSE status

\* status_map.get(provider_status.lower(), record.our_status)
NewStatus(status, ours) ==
  IF Recognised(status) THEN StatusMap[Lower(status)] ELSE ours

\* Mutant: the settled case is forgotten.
DiscrepancyUnlessSettled(status, ours) ==
  ours = "payment_failed" /\ Lower(status) \notin {"failed", "failure"}

\* Whether _check_discrepancy returns a message.
CheckDiscrepancy(status, ours) ==
  /\ status # ""
  /\ \/ ours = "settled" /\ Lower(status) \notin {"captured", "success"}
     \/ ours = "payment_failed" /\ Lower(status) \notin {"failed", "failure"}
     \/ ours = "payment_processing" /\ Lower(status) \in {"captured", "success"}

Known == {id \in Ids : records[id] # None}

\* Mutant: a second record of an intent or provider replaces the first.
Replaced(index, key, id) == [index EXCEPT ![key] = <<id>>]

\* setdefault(key, []).append(record.id)
Indexed(index, key, id) == [index EXCEPT ![key] = Append(@, id)]

ReconciliationInit ==
  /\ records = [id \in Ids |-> None]
  /\ by_intent = [i \in Intents |-> <<>>]
  /\ by_provider = [p \in Providers |-> <<>>]
  /\ sent = [id \in Ids |-> <<>>]
  /\ delivered = [id \in Ids |-> 0]
  /\ overtaken = [id \in Ids |-> FALSE]

CreateRecord(id, intent, provider) ==
  /\ records[id] = None
  /\ records' = [records EXCEPT ![id] =
       [intent |-> intent, provider |-> provider, provider_status |-> "",
        provider_payment_id |-> "", our_status |-> "payment_initiated", discrepancy |-> FALSE]]
  /\ by_intent' = Indexed(by_intent, intent, id)
  /\ by_provider' = Indexed(by_provider, provider, id)
  /\ UNCHANGED <<sent, delivered, overtaken>>

\* The states get_unsettled lists that a record can be in.
Unsettled == {"payment_initiated", "payment_processing"}

GetUnsettled == {id \in Known : records[id].our_status \in Unsettled}

\* provider_status.lower() raises on None: what was assigned before it stays.
RaiseOnNone(id, payment) ==
  records' = [records EXCEPT
    ![id].provider_status = "null", ![id].provider_payment_id = payment]

UpdateFromProvider(id, status, payment) ==
  IF status = "null" THEN RaiseOnNone(id, payment)
  ELSE LET ours == NewStatus(status, records[id].our_status)
       IN records' = [records EXCEPT
            ![id].provider_status = status,
            ![id].provider_payment_id = payment,
            ![id].our_status = ours,
            ![id].discrepancy = CheckDiscrepancy(status, ours)]

-----------------------------------------------------------------------------
(* The providers, each with its own words.  A payment that failed may be   *)
(* authorised late; "disputed" is a status no table of the engine knows;   *)
(* Cashfree announces a refund without the payment.                        *)
Follows == [
  none |-> {"authorized", "failed", "SUCCESS", "FAILED", "pending"},
  authorized |-> {"captured", "failed"}, captured |-> {"disputed", "refunded"},
  disputed |-> {"refunded", "captured"}, failed |-> {"authorized"},
  SUCCESS |-> {"null"}, FAILED |-> {"SUCCESS"}, null |-> {},
  pending |-> {"processing", "success", "failure"},
  processing |-> {"success", "failure"}, success |-> {"refunded"},
  failure |-> {}, refunded |-> {}]

\* The payment id a notification carries.
PaymentNamed(status) == IF status = "null" THEN "" ELSE "known"

Notify(id) ==
  /\ id \in Known /\ Len(sent[id]) < MaxSent
  /\ \E status \in Follows[IF sent[id] = <<>> THEN "none" ELSE Last(sent[id])] :
       sent' = [sent EXCEPT ![id] = Append(@, status)]
  /\ UNCHANGED <<records, by_intent, by_provider, delivered, overtaken>>

\* The n-th notification about a record arrives, for the first time or again.
Deliver(id, n) ==
  /\ UpdateFromProvider(id, sent[id][n], PaymentNamed(sent[id][n]))
  /\ delivered' = [delivered EXCEPT ![id] = n]
  /\ overtaken' = [overtaken EXCEPT ![id] =
       @ \/ n \notin {delivered[id], delivered[id] + 1}]
  /\ UNCHANGED <<by_intent, by_provider, sent>>

ReconciliationNext ==
  \/ \E id \in Ids, i \in Intents, p \in Providers : CreateRecord(id, i, p)
  \/ \E id \in Known : Notify(id)
  \/ \E id \in Known : \E n \in 1..Len(sent[id]) : Deliver(id, n)

ReconciliationSpec == ReconciliationInit /\ [][ReconciliationNext]_reconciliation

-----------------------------------------------------------------------------
Statuses == (DOMAIN Follows \ {"none"})
OurStatuses == {"payment_initiated", "payment_processing", "payment_success",
                "payment_failed", "settled", "refunded"}
Record == [intent : Intents, provider : Providers,
           provider_status : Statuses \union {""}, our_status : OurStatuses,
           provider_payment_id : {"", "known"}, discrepancy : BOOLEAN]

ASSUME RecordAssumption == None \notin Record

\* The variables have their types.
ReconciliationTypeOK ==
  /\ records \in [Ids -> Record \union {None}]
  /\ by_intent \in [Intents -> Seq(Ids)]
  /\ by_provider \in [Providers -> Seq(Ids)]
  /\ sent \in [Ids -> Seq(Statuses)]
  /\ delivered \in [Ids -> 0..MaxSent]
  /\ overtaken \in [Ids -> BOOLEAN]

(* get_by_intent and get_by_provider: every record is listed once under    *)
(* its own intent and its own provider, however many attempts there were.  *)
IndexesComplete ==
  /\ \A i \in Intents :
       /\ IsInjective(by_intent[i])
       /\ ToSet(by_intent[i]) = {id \in Known : records[id].intent = i}
  /\ \A p \in Providers :
       /\ IsInjective(by_provider[p])
       /\ ToSet(by_provider[p]) = {id \in Known : records[id].provider = p}

\* The n-th notification is what the provider told us last that the engine
\* has a word for.
Heard(id, n) ==
  /\ n \in 1..delivered[id] /\ Recognised(sent[id][n])
  /\ \A later \in n + 1..delivered[id] : ~ Recognised(sent[id][later])

(* While notifications about a record arrive in order, repeated or not,    *)
(* our_status is what the last one says that the engine understands.       *)
ViewIsCurrent ==
  \A id \in Known : ~ overtaken[id] =>
    \/ \E n \in 1..delivered[id] :
         Heard(id, n) /\ records[id].our_status = StatusMap[Lower(sent[id][n])]
    \/ /\ \A n \in 1..delivered[id] : ~ Recognised(sent[id][n])
       /\ records[id].our_status = "payment_initiated"

(* What get_discrepancies lists: a record is flagged exactly while its     *)
(* last notification is one the engine has no word for and it holds the    *)
(* payment for settled or failed.  Two known statuses are never compared.  *)
(* After a notification without a status, an update that raised half way,  *)
(* the flag is the one of the notification before.                         *)
FlaggedOnUnknown ==
  \A id \in Known : records[id].provider_status # "null" =>
    (records[id].discrepancy <=>
      /\ records[id].provider_status # ""
      /\ ~ Recognised(records[id].provider_status)
      /\ records[id].our_status \in {"settled", "payment_failed"})

(* get_unsettled is "all records that haven't settled yet"                 *)
(* (reconciliation.py:131): those whose payment has neither settled nor    *)
(* failed nor been refunded.                                               *)
UnsettledAreListed ==
  \A id \in Known :
    records[id].our_status \notin {"settled", "payment_failed", "refunded"} =>
      id \in GetUnsettled

(* "identifies mismatches" (reconciliation.py:3): if the engine holds a    *)
(* payment for settled and the provider says it failed, it is flagged.     *)
ConflictFlagged ==
  [][\A id \in Known :
       /\ records[id].our_status = "settled"
       /\ records[id] # records'[id]
       /\ Lower(records'[id].provider_status) \in {"failed", "failure"}
       => records'[id].discrepancy]_reconciliation
=============================================================================
