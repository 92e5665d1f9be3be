--------------------------- MODULE HttpServerProofs ---------------------------
(* Theorems about the HTTP server: the types of its variables, the drift   *)
(* of the in-flight gauge, and what is left of a body on a connection, for *)
(* any number of connections and any subset of the faults; and about its   *)
(* clients, that they drive it, and what their retries leave behind.       *)
EXTENDS Clients, FiniteSetTheorems, TLAPS

(* What is known of one connection: a response that is sent from within    *)
(* the try of do_POST answers a request whose body, if it has a length,    *)
(* was read; any other answer that leaves such a body is a refusal.        *)
BodyInv(t) ==
  /\ pc[t] # "idle" => method[t] \in Methods
  /\ pc[t] \in {"limit", "authorize", "handle"} => ~ caught[t]
  /\ method[t] = "POST" /\ unread[t] = "sized" =>
       /\ pc[t] = "send" => ~ caught[t]
       /\ pc[t] \in {"send", "observe", "idle"} => status[t] \in {400, 401, 429}

ServerInv == ServerTypeOK /\ \A t \in Connections : BodyInv(t)

LEMMA ServerStarts == ServerInit => ServerInv
BY ServerAssumption DEF ServerInit, ServerInv, ServerTypeOK, BodyInv, Methods, Bodies

\* One case per action; the connections do not share what BodyInv speaks of.
LEMMA ServerKeeps == ServerInv /\ [ServerNext]_server => ServerInv'
<1> SUFFICES ASSUME ServerInv, [ServerNext]_server PROVE ServerInv'
  OBVIOUS
<1> USE ServerAssumption DEF ServerInv, ServerTypeOK, BodyInv
<1>1. ASSUME NEW t \in Connections, NEW m \in Methods, NEW body \in Bodies, Begin(t, m, body)
      PROVE  ServerInv'
  BY <1>1 DEF Begin, Proceed, Methods
<1>2. ASSUME NEW t \in Connections, Misread(t) PROVE ServerInv'
  <2>1. ServerTypeOK'
    BY <1>2 DEF Misread, Methods, Bodies
  <2>2. BodyInv(t)'
    BY <1>2, <2>1 DEF Misread, Methods, Bodies
  <2>3. ASSUME NEW u \in Connections \ {t} PROVE BodyInv(u)'
    BY <1>2 DEF Misread
  <2> QED BY <2>1, <2>2, <2>3
<1>3. ASSUME NEW t \in Connections, Drop(t) PROVE ServerInv'
  BY <1>3 DEF Drop, Methods, Bodies
<1>4. ASSUME NEW t \in Connections, CheckLimit(t) PROVE ServerInv'
  <2>1. CASE Drop(t)
    BY <2>1, <1>3
  <2>2. CASE ~ Drop(t)
    BY <2>2, <1>4 DEF CheckLimit, Respond, Proceed, Methods
  <2> QED BY <2>1, <2>2
<1>5. ASSUME NEW t \in Connections, Authorize(t) PROVE ServerInv'
  BY <1>5 DEF Authorize, Respond, Proceed, Methods
<1>6. ASSUME NEW t \in Connections, HandleGet(t) PROVE ServerInv'
  <2>1. CASE Drop(t)
    BY <2>1, <1>3
  <2>2. CASE ~ Drop(t)
    BY <2>2, <1>6 DEF HandleGet, Respond, Proceed, Methods
  <2> QED BY <2>1, <2>2
<1>7. ASSUME NEW t \in Connections, HandlePost(t) PROVE ServerInv'
  <2>1. PICK code \in {200, 400, 404, 500} : Respond(t, code)
    BY <1>7 DEF HandlePost
  <2>2. \/ caught' = caught /\ unread' = unread /\ code = 400
        \/ caught' = [caught EXCEPT ![t] = TRUE] /\ ReadBody(t)
        \/ caught' = caught /\ ReadBody(t)
    BY <1>7, <2>1 DEF HandlePost, Respond
  <2>3. ServerTypeOK'
    <3>1. in_flight' \in Nat /\ dropped' \in 0..MaxDropped
          /\ method' \in [Connections -> Methods \union {None}]
      <4>1. UNCHANGED <<in_flight, method, dropped>>
        BY <1>7 DEF HandlePost
      <4> QED BY <4>1
    <3>4. caught' \in [Connections -> BOOLEAN] /\ unread' \in [Connections -> Bodies]
      <4>1. [caught EXCEPT ![t] = TRUE] \in [Connections -> BOOLEAN]
        OBVIOUS
      <4>2. ReadBody(t) => unread' \in [Connections -> Bodies]
        BY DEF ReadBody, Bodies
      <4>3. caught \in [Connections -> BOOLEAN] /\ unread \in [Connections -> Bodies]
        OBVIOUS
      <4>4. CASE caught' = caught
        BY ONLY <2>2, <4>2, <4>3, <4>4, ZenonT(30)
      <4>5. CASE caught' = [caught EXCEPT ![t] = TRUE]
        BY ONLY <2>2, <4>1, <4>2, <4>3, <4>5, ZenonT(30)
      <4> QED BY ONLY <2>2, <4>4, <4>5
    <3>2. /\ pc' \in [Connections -> {"idle", "limit", "authorize", "handle", "send",
                                     "observe"}]
          /\ status' \in [Connections -> {200, 204, 400, 401, 404, 429, 500, None}]
      BY <2>1 DEF Respond, Proceed
    <3> QED BY <3>1, <3>2, <3>4
  <2>4. BodyInv(t)'
    BY <1>7, <2>1, <2>2 DEF HandlePost, ReadBody, Respond, Proceed
  <2>5. ASSUME NEW u \in Connections \ {t} PROVE BodyInv(u)'
    BY <1>7, <2>1, <2>2 DEF HandlePost, ReadBody, Respond, Proceed
  <2> QED BY <2>3, <2>4, <2>5
<1>8. ASSUME NEW t \in Connections, SendResponse(t) PROVE ServerInv'
  <2>1. CASE Drop(t)
    BY <2>1, <1>3
  <2>2. CASE ~ Drop(t)
    <3>1. ServerTypeOK'
      <4>1. UNCHANGED <<in_flight, method, unread, dropped>>
        BY <2>2, <1>8 DEF SendResponse
      <4>3. caught' \in [Connections -> BOOLEAN]
        <5>1. caught' = caught \/ caught' = [caught EXCEPT ![t] = FALSE]
          BY <2>2, <1>8 DEF SendResponse
        <5>2. [caught EXCEPT ![t] = FALSE] \in [Connections -> BOOLEAN]
          OBVIOUS
        <5>3. caught \in [Connections -> BOOLEAN]
          OBVIOUS
        <5>4. CASE caught' = caught
          BY ONLY <5>3, <5>4
        <5>5. CASE caught' = [caught EXCEPT ![t] = FALSE]
          BY ONLY <5>2, <5>5
        <5> QED BY ONLY <5>1, <5>4, <5>5
      <4>4. status' \in [Connections -> {200, 204, 400, 401, 404, 429, 500, None}]
        <5>1. status' = status \/ status' = [status EXCEPT ![t] = 500]
          BY <2>2, <1>8 DEF SendResponse, Respond
        <5> QED BY <5>1
      <4>2. pc' \in [Connections -> {"idle", "limit", "authorize", "handle", "send",
                                    "observe"}]
        BY <2>2, <1>8 DEF SendResponse, Respond, Proceed
      <4> QED BY <4>1, <4>2, <4>3, <4>4
    <3>2. BodyInv(t)'
      BY <2>2, <1>8 DEF SendResponse, Respond, Proceed
    <3>3. ASSUME NEW u \in Connections \ {t} PROVE BodyInv(u)'
      BY <2>2, <1>8 DEF SendResponse, Respond, Proceed
    <3> QED BY <3>1, <3>2, <3>3
  <2> QED BY <2>1, <2>2
<1>9. ASSUME NEW t \in Connections, Observe(t) PROVE ServerInv'
  BY <1>9 DEF Observe, Proceed, Methods
<1>10. CASE UNCHANGED server
  BY <1>10 DEF server, connection
<1> QED
  BY <1>1, <1>2, <1>4, <1>5, <1>6, <1>7, <1>8, <1>9, <1>10 DEF ServerNext

(* The variables of the server have their types.                           *)
THEOREM ServerTypeCorrect == ServerSpec => []ServerTypeOK
<1>1. ServerInv => ServerTypeOK
  BY DEF ServerInv
<1> QED BY <1>1, ServerStarts, ServerKeeps, PTL DEF ServerSpec

(* The body of a POST that says how long it is gets left in the connection *)
(* only by a refusal (server.py:87, 227, 164), whatever bodies the other   *)
(* requests have and whatever becomes of the responses.                    *)
THEOREM OnlyRefusalsLeaveBodies == ServerSpec => []BodyLeftOnRefusal
<1>1. ServerInv => BodyLeftOnRefusal
  BY DEF ServerInv, BodyInv, BodyLeftOnRefusal
<1> QED BY <1>1, ServerStarts, ServerKeeps, PTL DEF ServerSpec

-----------------------------------------------------------------------------
(* The gauge.  A step begins a request, ends one, or leaves the set of     *)
(* connections with a request as it is.                                    *)
GaugeInv == ServerInv /\ GaugeDriftsByDrops

LEMMA ActiveIsFinite == IsFiniteSet(Active)
BY ConnectionsFinite, FS_Subset DEF Active

\* A request begins.
LEMMA ActiveGrows ==
  ASSUME NEW t \in Connections, pc[t] = "idle", pc'[t] # "idle",
         \A u \in Connections \ {t} : pc'[u] = pc[u]
  PROVE  Cardinality(Active') = Cardinality(Active) + 1
<1>1. Active' = Active \union {t} /\ t \notin Active
  BY DEF Active
<1> QED BY <1>1, ActiveIsFinite, FS_AddElement

\* A request is over.
LEMMA ActiveShrinks ==
  ASSUME NEW t \in Connections, pc[t] # "idle", pc'[t] = "idle",
         \A u \in Connections \ {t} : pc'[u] = pc[u]
  PROVE  Cardinality(Active') = Cardinality(Active) - 1
<1>1. Active' = Active \ {t} /\ t \in Active
  BY DEF Active
<1> QED BY <1>1, ActiveIsFinite, FS_RemoveElement

\* A request goes on: gauge, drops and set of requests are as before.
Continues(t) ==
  /\ UNCHANGED <<in_flight, dropped>>
  /\ pc[t] # "idle" /\ pc'[t] # "idle"
  /\ \A u \in Connections \ {t} : pc'[u] = pc[u]

LEMMA ContinuesKeepsGauge ==
  ASSUME GaugeInv, NEW t \in Connections, Continues(t)
  PROVE  GaugeDriftsByDrops'
<1>1. Active' = Active
  BY DEF Active, Continues
<1> QED BY <1>1 DEF GaugeInv, GaugeDriftsByDrops, Continues

LEMMA DropKeepsGauge ==
  ASSUME GaugeInv, NEW t \in Connections, pc[t] # "idle", Drop(t)
  PROVE  GaugeDriftsByDrops'
<1>1. pc'[t] = "idle" /\ \A u \in Connections \ {t} : pc'[u] = pc[u]
  BY DEF Drop, GaugeInv, ServerInv, ServerTypeOK
<1>2. Cardinality(Active') = Cardinality(Active) - 1
  BY <1>1, ActiveShrinks
<1>3. Cardinality(Active) \in Nat /\ dropped \in Nat
  BY ActiveIsFinite, FS_CardinalityType, ServerAssumption
     DEF GaugeInv, ServerInv, ServerTypeOK
<1> QED BY <1>2, <1>3 DEF Drop, GaugeInv, GaugeDriftsByDrops

LEMMA GaugeNext == GaugeInv /\ [ServerNext]_server => GaugeDriftsByDrops'
<1> SUFFICES ASSUME GaugeInv, [ServerNext]_server PROVE GaugeDriftsByDrops'
  OBVIOUS
<1>a. ServerTypeOK
  BY DEF GaugeInv, ServerInv
<1>b. Cardinality(Active) \in Nat /\ dropped \in Nat
  BY <1>a, ActiveIsFinite, FS_CardinalityType, ServerAssumption DEF ServerTypeOK
<1>1. ASSUME NEW t \in Connections, NEW m \in Methods, NEW body \in Bodies, Begin(t, m, body)
      PROVE  GaugeDriftsByDrops'
  <2>1. /\ pc[t] = "idle" /\ pc'[t] # "idle"
        /\ \A u \in Connections \ {t} : pc'[u] = pc[u]
    BY <1>1, <1>a DEF Begin, Proceed, ServerTypeOK
  <2>2. Cardinality(Active') = Cardinality(Active) + 1
    BY <2>1, ActiveGrows
  <2> QED BY <1>1, <2>2, <1>b DEF Begin, GaugeInv, GaugeDriftsByDrops
<1>2. ASSUME NEW t \in Connections, Misread(t) PROVE GaugeDriftsByDrops'
  BY <1>2 DEF Misread, GaugeInv, GaugeDriftsByDrops, Active
<1>3. ASSUME NEW t \in Connections, CheckLimit(t) PROVE GaugeDriftsByDrops'
  <2>1. Drop(t) \/ Continues(t)
    BY <1>3, <1>a DEF CheckLimit, Continues, Respond, Proceed, ServerTypeOK
  <2>2. pc[t] # "idle"
    BY <1>3 DEF CheckLimit
  <2> QED BY <2>1, <2>2, DropKeepsGauge, ContinuesKeepsGauge
<1>4. ASSUME NEW t \in Connections, Authorize(t) PROVE GaugeDriftsByDrops'
  <2>1. Continues(t)
    BY <1>4, <1>a DEF Authorize, Continues, Respond, Proceed, ServerTypeOK
  <2> QED BY <2>1, ContinuesKeepsGauge
<1>5. ASSUME NEW t \in Connections, HandleGet(t) PROVE GaugeDriftsByDrops'
  <2>1. Drop(t) \/ Continues(t)
    BY <1>5, <1>a DEF HandleGet, Continues, Respond, Proceed, ServerTypeOK
  <2>2. pc[t] # "idle"
    BY <1>5 DEF HandleGet
  <2> QED BY <2>1, <2>2, DropKeepsGauge, ContinuesKeepsGauge
<1>6. ASSUME NEW t \in Connections, HandlePost(t) PROVE GaugeDriftsByDrops'
  <2>1. Continues(t)
    BY <1>6, <1>a DEF HandlePost, Continues, Respond, Proceed, ServerTypeOK
  <2> QED BY <2>1, ContinuesKeepsGauge
<1>7. ASSUME NEW t \in Connections, SendResponse(t) PROVE GaugeDriftsByDrops'
  <2>1. Drop(t) \/ Continues(t)
    BY <1>7, <1>a DEF SendResponse, Continues, Respond, Proceed, ServerTypeOK
  <2>2. pc[t] # "idle"
    BY <1>7 DEF SendResponse
  <2> QED BY <2>1, <2>2, DropKeepsGauge, ContinuesKeepsGauge
<1>8. ASSUME NEW t \in Connections, Observe(t) PROVE GaugeDriftsByDrops'
  <2>1. /\ pc[t] # "idle" /\ pc'[t] = "idle"
        /\ \A u \in Connections \ {t} : pc'[u] = pc[u]
    BY <1>8, <1>a DEF Observe, Proceed, ServerTypeOK
  <2>2. Cardinality(Active') = Cardinality(Active) - 1
    BY <2>1, ActiveShrinks
  <2>3. Active # {} /\ Cardinality(Active) # 0
    BY <2>1, ActiveIsFinite, FS_EmptySet DEF Active
  <2> QED BY <1>8, <2>2, <2>3, <1>b DEF Observe, GaugeInv, GaugeDriftsByDrops
<1>9. CASE UNCHANGED server
  BY <1>9 DEF server, connection, GaugeInv, GaugeDriftsByDrops, Active
<1> QED
  BY <1>1, <1>2, <1>3, <1>4, <1>5, <1>6, <1>7, <1>8, <1>9 DEF ServerNext

LEMMA GaugeInit == ServerInit => GaugeDriftsByDrops
<1> SUFFICES ASSUME ServerInit PROVE GaugeDriftsByDrops
  OBVIOUS
<1>1. Active = {}
  BY DEF ServerInit, Active
<1> QED BY <1>1, FS_EmptySet DEF ServerInit, GaugeDriftsByDrops

(* Every request is counted in once and, unless its thread died over it,   *)
(* counted out once (metrics.py:32-40), for any number of connections.     *)
THEOREM GaugeDrift == ServerSpec => []GaugeDriftsByDrops
<1>1. ServerInit => GaugeInv
  BY ServerStarts, GaugeInit DEF GaugeInv
<1>2. GaugeInv /\ [ServerNext]_server => GaugeInv'
  BY ServerKeeps, GaugeNext DEF GaugeInv
<1>3. GaugeInv => GaugeDriftsByDrops
  BY DEF GaugeInv
<1> QED BY <1>1, <1>2, <1>3, PTL DEF ServerSpec

-----------------------------------------------------------------------------
(* The clients.  Whatever they ask and hear, the server takes the steps of *)
(* its own specification.                                                  *)
LEMMA ClientsStepServer == [ClientNext]_<<server, client>> => [ServerNext]_server
<1> SUFFICES ASSUME ClientNext PROVE [ServerNext]_server
  BY DEF server, connection
<1>1. PICK t \in Connections : \/ AskIntent(t) \/ AskOther(t) \/ Handle(t) \/ ReplyTo(t)
                               \/ ServeOther(t)
  BY DEF ClientNext
<1>2. CASE AskIntent(t) \/ AskOther(t)
  <2>1. "POST" \in Methods /\ "sized" \in Bodies
    BY DEF Methods, Bodies
  <2>2. \E m \in Methods, body \in Bodies : Begin(t, m, body)
    BY <1>2, <2>1 DEF AskIntent, AskOther
  <2> QED BY <2>2 DEF ServerNext
<1>3. CASE Handle(t) \/ ReplyTo(t) \/ ServeOther(t)
  <2>1. HandlePost(t) \/ SendResponse(t) \/ Misread(t) \/ CheckLimit(t) \/ Authorize(t)
          \/ HandleGet(t) \/ Observe(t)
    BY <1>3 DEF Handle, ReplyTo, ServeOther
  <2> QED BY <2>1 DEF ServerNext
<1> QED BY <1>1, <1>2, <1>3

(* Clients that try again are clients of the server: what is proved of the *)
(* server holds for them.                                                  *)
THEOREM ClientsDriveServer == ClientSpec => ServerSpec
<1>1. ClientInit => ServerInit
  BY DEF ClientInit
<1> QED BY <1>1, ClientsStepServer, PTL DEF ClientSpec, ServerSpec

ClientTypes ==
  /\ creating \in [Connections -> BOOLEAN] /\ told \in [Connections -> BOOLEAN]
  /\ stored \in [Connections -> Nat] /\ lost \in [Connections -> Nat]

\* Only a POST creates, and a client that was told asks for no more.
BuyInv(t) ==
  /\ creating[t] /\ pc[t] # "idle" => method[t] = "POST"
  /\ told[t] /\ pc[t] \notin {"observe", "idle"} => ~ creating[t]

\* DuplicatesAreLostReplies of one client.
Balanced(t) ==
  LET OnTheWay == pc[t] = "send" /\ Announces(t)
  IN stored[t] = lost[t] + (IF told[t] \/ OnTheWay THEN 1 ELSE 0)

ClientInv ==
  /\ ServerInv /\ ClientTypes
  /\ \A t \in Connections : BuyInv(t) /\ Balanced(t)

LEMMA ClientInitInv == ClientInit => ClientInv
<1> SUFFICES ASSUME ClientInit PROVE ClientInv
  OBVIOUS
<1>1. ServerInv
  BY ServerStarts DEF ClientInit
<1>2. ClientTypes /\ \A t \in Connections : BuyInv(t) /\ Balanced(t)
  BY DEF ClientInit, ServerInit, ClientTypes, BuyInv, Balanced, Announces
<1> QED BY <1>1, <1>2 DEF ClientInv

\* What a step leaves alone of a connection and its client.
Unmoved(u) ==
  /\ pc'[u] = pc[u] /\ method'[u] = method[u] /\ status'[u] = status[u]
  /\ creating'[u] = creating[u] /\ told'[u] = told[u]
  /\ stored'[u] = stored[u] /\ lost'[u] = lost[u]

LEMMA OthersUnmoved ==
  ASSUME ClientInv, NEW t \in Connections,
         \/ AskIntent(t) \/ AskOther(t) \/ Handle(t) \/ ReplyTo(t)
         \/ ServeOther(t) /\ UNCHANGED client,
         NEW u \in Connections \ {t}
  PROVE  Unmoved(u)
<1> USE DEF ClientInv, ClientTypes, ServerInv, ServerTypeOK
<1>1. pc'[u] = pc[u] /\ method'[u] = method[u] /\ status'[u] = status[u]
  <2>1. CASE AskIntent(t) \/ AskOther(t)
    BY <2>1 DEF AskIntent, AskOther, Begin, Proceed
  <2>2. CASE Handle(t)
    BY <2>2 DEF Handle, HandlePost, Respond, Proceed
  <2>3. CASE ReplyTo(t)
    BY <2>3 DEF ReplyTo, SendResponse, Respond, Proceed, Drop
  <2>4. CASE ServeOther(t)
    BY <2>4 DEF ServeOther, Misread, CheckLimit, Authorize, HandleGet, Observe, Respond, Proceed, Drop
  <2> QED BY <2>1, <2>2, <2>3, <2>4
<1>2. /\ creating'[u] = creating[u] /\ told'[u] = told[u]
      /\ stored'[u] = stored[u] /\ lost'[u] = lost[u]
  BY DEF AskIntent, AskOther, Handle, ReplyTo, client
<1> QED BY <1>1, <1>2 DEF Unmoved

LEMMA UnmovedKeeps ==
  ASSUME NEW u, BuyInv(u), Balanced(u), Unmoved(u)
  PROVE  BuyInv(u)' /\ Balanced(u)'
BY DEF BuyInv, Balanced, Unmoved, Announces

\* The server's own steps neither announce an intent nor end an announcement.
LEMMA PassIsQuiet ==
  ASSUME ServerInv, NEW t \in Connections, ServeOther(t)
  PROVE  \/ pc'[t] = "idle" /\ pc[t] # "send"
         \/ /\ pc[t] \in {"limit", "authorize", "handle"} /\ method'[t] = method[t]
            /\ pc'[t] = "send" /\ status'[t] = 200 => method[t] = "GET"
<1> USE DEF ServerInv, ServerTypeOK
<1>1. CASE Misread(t) \/ Observe(t)
  BY <1>1 DEF Misread, Observe, Proceed
<1>2. CASE CheckLimit(t)
  BY <1>2 DEF CheckLimit, Respond, Proceed, Drop
<1>3. CASE Authorize(t)
  BY <1>3 DEF Authorize, Respond, Proceed
<1>4. CASE HandleGet(t)
  BY <1>4 DEF HandleGet, Respond, Proceed, Drop
<1> QED BY <1>1, <1>2, <1>3, <1>4 DEF ServeOther

LEMMA ClientNextInv == ClientInv /\ [ClientNext]_<<server, client>> => ClientInv'
<1> SUFFICES ASSUME ClientInv, [ClientNext]_<<server, client>> PROVE ClientInv'
  OBVIOUS
<1>1. ServerInv'
  BY ServerKeeps, ClientsStepServer DEF ClientInv
<1>2. CASE UNCHANGED <<server, client>>
  BY <1>1, <1>2 DEF server, connection, client, ClientInv, ClientTypes, BuyInv, Balanced, Announces
<1>3. CASE ClientNext
  <2>1. PICK t \in Connections : \/ AskIntent(t) \/ AskOther(t) \/ Handle(t) \/ ReplyTo(t)
                                 \/ ServeOther(t) /\ UNCHANGED client
    BY <1>3 DEF ClientNext
  <2>2. \A u \in Connections \ {t} : BuyInv(u)' /\ Balanced(u)'
    BY <2>1, OthersUnmoved, UnmovedKeeps DEF ClientInv
  <2>3. ClientTypes /\ BuyInv(t) /\ Balanced(t) /\ ServerInv
    BY DEF ClientInv
  <2>4. CASE AskIntent(t) \/ AskOther(t)
    <3>1. PICK m \in Methods, body \in Bodies :
            Begin(t, m, body) /\ (AskIntent(t) => m = "POST")
      <4>1. "POST" \in Methods /\ "sized" \in Bodies
        BY DEF Methods, Bodies
      <4> QED BY <2>4, <4>1 DEF AskIntent, AskOther
    <3>2. pc[t] = "idle" /\ pc'[t] = "limit" /\ method'[t] = m
      BY <2>3, <3>1 DEF Begin, Proceed, ServerInv, ServerTypeOK
    <3>3. stored' = stored /\ lost' = lost /\ told' = told
      BY <2>4 DEF AskIntent, AskOther
    <3>4. \/ creating' = [creating EXCEPT ![t] = TRUE] /\ ~ told[t] /\ m = "POST"
          \/ creating' = [creating EXCEPT ![t] = FALSE]
      BY <2>4, <3>1 DEF AskIntent, AskOther
    <3>5. creating' \in [Connections -> BOOLEAN]
      BY <2>3, <3>4 DEF ClientTypes
    <3>6. creating'[t] => method'[t] = "POST" /\ ~ told[t]
      BY <2>3, <3>2, <3>4 DEF ClientTypes
    <3>7. BuyInv(t)' /\ Balanced(t)'
      BY <2>3, <3>2, <3>3, <3>6 DEF BuyInv, Balanced
    <3>8. ClientTypes'
      BY <2>3, <3>3, <3>5 DEF ClientTypes
    <3> QED BY <1>1, <2>2, <3>7, <3>8 DEF ClientInv
  <2>5. CASE Handle(t)
    <3>1. /\ pc[t] = "handle" /\ pc'[t] = "send" /\ method' = method
          /\ creating' = creating /\ lost' = lost /\ told' = told
      BY <2>3, <2>5 DEF Handle, HandlePost, Respond, Proceed, ServerInv, ServerTypeOK
    <3>2. stored' = IF Stores(t) THEN [stored EXCEPT ![t] = @ + 1] ELSE stored
      BY <2>5 DEF Handle
    <3>3. ClientTypes'
      BY <2>3, <3>1, <3>2 DEF ClientTypes
    <3>4. BuyInv(t)' /\ Balanced(t)'
      BY <2>3, <3>1, <3>2 DEF ClientTypes, BuyInv, Balanced, Stores, Announces
    <3> QED BY <1>1, <2>2, <3>3, <3>4 DEF ClientInv
  <2>6. CASE ReplyTo(t)
    <3>1. /\ pc[t] = "send" /\ creating' = creating /\ stored' = stored
          /\ \/ pc'[t] \in {"idle", "observe"}
             \/ pc'[t] = "send" /\ status'[t] = 500
          /\ pc'[t] # "idle" => method'[t] = method[t]
      BY <2>3, <2>6 DEF ReplyTo, SendResponse, Respond, Proceed, Drop, ServerInv, ServerTypeOK
    <3>2. \/ /\ pc'[t] = "observe" /\ lost' = lost
             /\ told' = [told EXCEPT ![t] = @ \/ Announces(t)]
          \/ /\ lost' = IF Announces(t) THEN [lost EXCEPT ![t] = @ + 1] ELSE lost
             /\ told' = told
      BY <2>6 DEF ReplyTo
    <3>3. Announces(t) \in BOOLEAN /\ (Announces(t) => creating[t])
      BY <2>3 DEF Announces, ClientTypes
    <3>4. ClientTypes'
      BY <2>3, <3>1, <3>2, <3>3 DEF ClientTypes
    <3>5. BuyInv(t)'
      BY <2>3, <3>1, <3>2 DEF ClientTypes, BuyInv
    <3>6. Balanced(t)'
      BY <2>3, <3>1, <3>2, <3>3 DEF ClientTypes, BuyInv, Balanced, Announces
    <3> QED BY <1>1, <2>2, <3>4, <3>5, <3>6 DEF ClientInv
  <2>7. CASE ServeOther(t) /\ UNCHANGED client
    <3>1. ClientTypes'
      BY <2>3, <2>7 DEF ClientTypes, client
    <3>2. BuyInv(t)' /\ Balanced(t)'
      BY <2>3, <2>7, PassIsQuiet DEF BuyInv, Balanced, Announces, client
    <3> QED BY <1>1, <2>2, <3>1, <3>2 DEF ClientInv
  <2> QED BY <2>1, <2>4, <2>5, <2>6, <2>7
<1> QED BY <1>2, <1>3

(* A client that tries again has an intent for each reply that was lost    *)
(* and one for the reply it heard, and no other (api.py:136), however many *)
(* clients there are and however often they try.                           *)
THEOREM RetriesDuplicate == ClientSpec => []DuplicatesAreLostReplies
<1>1. ClientInv => DuplicatesAreLostReplies
  BY DEF ClientInv, Balanced, DuplicatesAreLostReplies
<1> QED BY <1>1, ClientInitInv, ClientNextInv, PTL DEF ClientSpec
=============================================================================
