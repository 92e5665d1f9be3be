-------------------------------- MODULE Service --------------------------------
(* The server process (server.py): UniPayHTTPServer with the limiter that   *)
(* build_rate_limiter chose, the connections and their clients, the FX      *)
(* engine, and the webhooks with the engine behind them.  These parts share *)
(* no state, so a step of one is no step of another: each is looked at by   *)
(* itself, under the requests that reach it.                                *)
EXTENDS InMemoryRateLimiter, RedisRateLimiter, Clients, FxEngine, Notifications

VARIABLE serving \* the part that requests reach

service == <<memory, redis, server, client, fx, nvars, serving>>

\* The configuration matters to the webhooks only.
ServiceInit ==
  /\ MemoryInit /\ RedisInit /\ ClientInit /\ FxInit /\ NInit
  /\ \/ serving = "webhooks"
     \/ /\ serving \in {"memory", "redis", "connections", "fx"}
        /\ deployment = CHOOSE d \in Deployments : TRUE

\* build_rate_limiter without a Redis to use,
Memory == serving = "memory" /\ MemoryNext
          /\ UNCHANGED <<redis, server, client, fx, nvars, serving>>

\* and with one.
Redis == serving = "redis" /\ RedisNext
         /\ UNCHANGED <<memory, server, client, fx, nvars, serving>>

Serve == serving = "connections" /\ ClientNext
         /\ UNCHANGED <<memory, redis, fx, nvars, serving>>

Rates == serving = "fx" /\ FxNext
         /\ UNCHANGED <<memory, redis, server, client, nvars, serving>>

Webhook == serving = "webhooks" /\ NNext
           /\ UNCHANGED <<memory, redis, server, client, fx, serving>>

ServiceNext == Memory \/ Redis \/ Serve \/ Rates \/ Webhook

ServiceSpec == ServiceInit /\ [][ServiceNext]_service

-----------------------------------------------------------------------------
\* The variables of every part have their types.
TypeOK ==
  MemoryTypeOK /\ RedisTypeOK /\ ServerTypeOK /\ FxTypeOK /\ ReconciliationTypeOK
=============================================================================
