---------------------------- MODULE MCNotifications ----------------------------
(* Instances of the reconciliation engine behind the webhooks: two         *)
(* records, so that an intent can have two attempts.                       *)
EXTENDS Notifications, TLC

IdSymmetry == Permutations(Ids)

Deploy(adapter, api_key, secret, spaced) ==
  [adapter |-> adapter, api_key |-> api_key, secret |-> secret, spaced |-> spaced]

\* Local development; secrets set, with either way to write JSON behind
\* either entry point; an API key set.
SomeDeployments == {
  Deploy("server", FALSE, FALSE, FALSE), Deploy("server", FALSE, TRUE, FALSE),
  Deploy("server", FALSE, TRUE, TRUE), Deploy("vercel", FALSE, TRUE, TRUE),
  Deploy("vercel", TRUE, FALSE, TRUE)}
=============================================================================
