----------------------------- MODULE Transactions -----------------------------
(* Transaction (models.py): one executed payment, whose callers may ask    *)
(* for any transition at any time.  Times are left out, but for whether    *)
(* settled_at was set.                                                     *)
EXTENDS Naturals, Sequences, FiniteSets

CONSTANT MaxHistory \* bound on the length of the history

ASSUME TransactionAssumption == MaxHistory \in Nat

VARIABLES
  state,      \* Transaction.state
  history,    \* Transaction.state_history
  error,      \* Transaction.error is set
  settled_at  \* Transaction.settled_at is set

transaction == <<state, history, error, settled_at>>

TransactionStates == {
  "created", "intent_validated", "route_selected", "payment_initiated",
  "payment_processing", "payment_success", "payment_failed", "settlement_pending",
  "settled", "refund_pending", "refunded", "recovery_attempted"}

ValidTransitions == [
  created |-> {"intent_validated"}, intent_validated |-> {"route_selected"},
  route_selected |-> {"payment_initiated"},
  payment_initiated |-> {"payment_processing", "payment_failed"},
  payment_processing |-> {"payment_success", "payment_failed"},
  payment_success |-> {"settlement_pending"},
  payment_failed |-> {"recovery_attempted", "settlement_pending"},
  recovery_attempted |-> {"payment_initiated", "settlement_pending"},
  settlement_pending |-> {"settled"}, settled |-> {"refund_pending"},
  refund_pending |-> {"refunded"}]

\* Mutant: a success may still turn out a failure.
AllowedLate(from) ==
  IF from = "payment_success" THEN {"settlement_pending", "payment_failed"}
  ELSE IF from \in DOMAIN ValidTransitions THEN ValidTransitions[from] ELSE {}

\* valid_transitions.get(self.state, [])
Allowed(from) ==
  IF from \in DOMAIN ValidTransitions THEN ValidTransitions[from] ELSE {}

TransactionInit ==
  /\ state = "created" /\ history = <<>>
  /\ error = FALSE /\ settled_at = FALSE

\* transition(new, error), which returns TRUE
Transition(new, why) ==
  /\ new \in Allowed(state) /\ Len(history) < MaxHistory
  /\ state' = new
  /\ history' = Append(history, new)
  /\ error' = (error \/ why)
  /\ settled_at' = (settled_at \/ new = "settled")

\* and FALSE
RefuseTransition(new) == new \notin Allowed(state) /\ UNCHANGED transaction

TransactionNext ==
  \/ \E new \in TransactionStates, why \in BOOLEAN : Transition(new, why)
  \/ \E new \in TransactionStates : RefuseTransition(new)

-----------------------------------------------------------------------------
Times(entry) == Cardinality({n \in DOMAIN history : history[n] = entry})

(* The history accounts for the money.  Attempts are made one after the    *)
(* other, each of them fails or succeeds, a success is the last, and every *)
(* attempt but the first follows a recovery.  When the settlement begins   *)
(* no attempt is under way: it follows a success, a failure or a recovery  *)
(* that came to nothing, so that a transaction can be settled that never   *)
(* succeeded, and then it failed.                                          *)
AttemptsAccounted ==
  LET begun == Times("payment_initiated")
      over == Times("payment_success") + Times("payment_failed")
      Paid == Times("payment_success") = 1
  IN /\ begun - over = IF state \in {"payment_initiated", "payment_processing"} THEN 1 ELSE 0
     /\ Times("payment_success") <= 1
     /\ begun <= 1 + Times("recovery_attempted")
     /\ Times("recovery_attempted") <= Times("payment_failed")
     /\ settled_at <=> state \in {"settled", "refund_pending", "refunded"}
     /\ settled_at /\ ~ Paid => Times("payment_failed") > 0
     /\ \A n \in DOMAIN history : history[n] = "settlement_pending" =>
          (Paid <=> history[n - 1] = "payment_success")
=============================================================================
