-------------------------------- MODULE Session --------------------------------
(* A run of the command line (cli.py main): one registry and one engine,   *)
(* and the demo its argument names.  Each demo is generalised: the         *)
(* payments, the transitions and the parties of a demo are any.  The demos *)
(* that only find and print routes are steps of "recovery".                *)
EXTENDS Routing, Transactions, PaymentGraph

VARIABLE command \* sys.argv[1]

session == <<vars, transaction, graph, command>>

Commands == {"recovery", "lifecycle", "graph"}

SessionInit == Init /\ TransactionInit /\ GraphInit /\ command \in Commands

\* demo_failure_recovery
Recovery == command = "recovery" /\ Next /\ UNCHANGED <<transaction, graph, command>>

\* demo_transaction_lifecycle
Lifecycle == command = "lifecycle" /\ TransactionNext /\ UNCHANGED <<vars, graph, command>>

\* demo_payment_graph, whose graph is built from the engine's registry.
Graph == command = "graph" /\ GraphNext /\ UNCHANGED <<vars, transaction, command>>

SessionNext == Recovery \/ Lifecycle \/ Graph

SessionSpec == SessionInit /\ [][SessionNext]_session
=============================================================================
