---------------------------- MODULE ApiClientProofs ----------------------------
(***************************************************************************)
(* Proofs about ApiClient, for any number of goroutines, addresses,         *)
(* endpoints, certificates and configuration changes.                      *)
(***************************************************************************)
EXTENDS ApiClient, SequenceTheorems, TLAPS

--------------------------------------------------------------------------------
(* Type correctness *)

LEMMA IdleType == Idle \in Request /\ NoConfig \in Config
<1>1. <<>> \in Seq(Layers)  BY EmptySeq
<1> QED  BY <1>1 DEF Idle, Request, Pcs, NoConfig, Config

LEMMA ConfigTypes ==
  ASSUME TypeOK, NEW a \in Addresses
  PROVE  /\ \A config \in Configs : Merged(a, config) \in Config
         /\ \A dial \in Endpoints \cup {None} : Dialed(a, dial) \in Config
         /\ New(a) \in Client
<1>1. tls[a] \in Config  BY DEF TypeOK
<1>2. version[a] \in Nat  BY ApiClientAssumption DEF TypeOK
<1>3. ASSUME NEW config \in Configs  PROVE Merged(a, config) \in Config
  <2>1. config \in Config  BY ApiClientAssumption
  <2> QED  BY <1>1, <2>1 DEF Merged, Config
<1>4. ASSUME NEW dial \in Endpoints \cup {None}  PROVE Dialed(a, dial) \in Config
  BY <1>1 DEF Dialed, Config
<1>5. New(a) \in Client  BY <1>1, <1>2 DEF New, Client
<1> QED  BY <1>3, <1>4, <1>5

LEMMA BuiltAt ==
  ASSUME TypeOK, NEW id \in DOMAIN built
  PROVE  built[id] \in Client
BY DEF TypeOK

\* Which keys a handshake can show.
LEMMA CertKey == \A e \in Endpoints : TypeOK /\ server[e] # None => server[e].key \in Keys
BY DEF TypeOK, Keys

LEMMA EndpointType ==
  ASSUME NEW client \in Client
  PROVE  Endpoint(client) \in Endpoints
BY ApiClientAssumption DEF Endpoint, Client, Config

\* A request that moves on keeps th in its shape.
LEMMA NowType ==
  ASSUME TypeOK, NEW t \in Threads, NEW r \in Request, Now(t, r),
         r.pc # "idle" => r.addr \in Addresses,
         r.pc \in {"send", "done"} => r.client \in DOMAIN built',
         DOMAIN built \subseteq DOMAIN built'
  PROVE  /\ th' \in [Threads -> Request]
         /\ th'[t] = r
         /\ \A u \in Threads \ {t} : th'[u] = th[u]
         /\ \A u \in Threads :
              /\ th'[u].pc # "idle" => th'[u].addr \in Addresses
              /\ th'[u].pc \in {"send", "done"} => th'[u].client \in DOMAIN built'
BY DEF TypeOK, Now

\* The record of a request that fails.
LEMMA FailedType ==
  ASSUME NEW r \in Request, NEW cause \in Seq(Layers)
  PROVE  [r EXCEPT !.pc = "done", !.err = <<"url">> \o cause] \in Request
<1>1. <<"url">> \in Seq(Layers)  BY DEF Layers
<1>2. <<"url">> \o cause \in Seq(Layers)  BY <1>1, ConcatProperties
<1> QED  BY <1>2 DEF Request, Pcs

LEMMA Causes ==
  /\ <<"op", "errno">> \in Seq(Layers) /\ <<"verify">> \in Seq(Layers)
  /\ <<"verify", "save">> \in Seq(Layers) /\ <<"op", "alert">> \in Seq(Layers)
  /\ <<"eof">> \in Seq(Layers) /\ <<"net">> \in Seq(Layers)
BY DEF Layers

\* Setting the connection of one client keeps built in its shape.
LEMMA ConnType ==
  ASSUME TypeOK, NEW id \in DOMAIN built, NEW key \in Keys \cup {None},
         built' = [built EXCEPT ![id].conn = key]
  PROVE  /\ built' \in Seq(Client)
         /\ Len(built') = Len(built) /\ DOMAIN built' = DOMAIN built
         /\ built'[id] = [built[id] EXCEPT !.conn = key]
         /\ \A j \in DOMAIN built : j # id => built'[j] = built[j]
<1> DEFINE client == [built[id] EXCEPT !.conn = key]
<1>1. built \in Seq(Client) /\ DOMAIN built = 1..Len(built)
  BY LenProperties DEF TypeOK
<1>2. client \in Client  BY BuiltAt DEF Client
<1>3. built' = [built EXCEPT ![id] = client]  OBVIOUS
<1> HIDE DEF client
<1>4. built' \in Seq(Client) /\ Len(built') = Len(built)
  BY <1>1, <1>2, <1>3, ExceptSeq
<1>5. DOMAIN built' = DOMAIN built  BY <1>3
<1>6. built'[id] = client /\ \A j \in DOMAIN built : j # id => built'[j] = built[j]
  BY <1>1, <1>2, <1>3, ExceptSeq
<1> QED  BY <1>4, <1>5, <1>6 DEF client

\* A new client comes after those built before.
LEMMA AppendType ==
  ASSUME TypeOK, NEW a \in Addresses, built' = Append(built, New(a))
  PROVE  /\ built' \in Seq(Client)
         /\ Len(built') = Len(built) + 1 /\ DOMAIN built' = 1..(Len(built) + 1)
         /\ built'[Len(built) + 1] = New(a)
         /\ \A j \in DOMAIN built : built'[j] = built[j]
<1>1. New(a) \in Client  BY ConfigTypes
<1>2. built \in Seq(Client) /\ DOMAIN built = 1..Len(built) /\ Len(built) \in Nat
  BY LenProperties DEF TypeOK
<1> QED  BY <1>1, <1>2, AppendProperties

\* A restart closes connections, and leaves the clients what they are otherwise.
LEMMA RestartType ==
  ASSUME TypeOK, NEW e \in Endpoints, NEW cert, Restart(e, cert)
  PROVE  /\ built' \in Seq(Client)
         /\ Len(built') = Len(built) /\ DOMAIN built' = DOMAIN built
         /\ \A j \in DOMAIN built :
              /\ built'[j].addr = built[j].addr /\ built'[j].version = built[j].version
              /\ built'[j].config = built[j].config
              /\ built'[j].conn \in {None, built[j].conn}
<1>1. built \in Seq(Client) /\ DOMAIN built = 1..Len(built) /\ Len(built) \in Nat
  BY LenProperties DEF TypeOK
<1>2. DOMAIN built' = 1..Len(built)  BY <1>1 DEF Restart
<1>3. ASSUME NEW j \in DOMAIN built
      PROVE  /\ built'[j] \in Client
             /\ built'[j].addr = built[j].addr /\ built'[j].version = built[j].version
             /\ built'[j].config = built[j].config
             /\ built'[j].conn \in {None, built[j].conn}
  <2>1. built[j] \in Client  BY BuiltAt
  <2>2. built'[j] = [built[j] EXCEPT !.conn = None] \/ built'[j] = built[j]
    BY DEF Restart
  <2> QED  BY <2>1, <2>2 DEF Client
<1>4. built' \in [1..Len(built) -> Client]  BY <1>1, <1>2, <1>3 DEF Restart
<1>5. built' \in Seq(Client)  BY <1>1, <1>4, SeqDef
<1>6. Len(built') = Len(built)  BY <1>1, <1>2, <1>5, LenProperties
<1> QED  BY <1>1, <1>2, <1>3, <1>5, <1>6

\* Steps that only move a request on, to a record r of the right shape.
LEMMA OnlyNowType ==
  ASSUME TypeOK, NEW t \in Threads, NEW r \in Request, Now(t, r),
         r.pc # "idle" => r.addr \in Addresses,
         r.pc \in {"send", "done"} => r.client \in DOMAIN built,
         reachable' \in BOOLEAN,
         UNCHANGED <<tls, clients, built, token, selected, server, version, reports>>
  PROVE  TypeOK'
<1>1. DOMAIN built' = DOMAIN built  OBVIOUS
<1> QED  BY <1>1, NowType DEF TypeOK

LEMMA FailedStep ==
  ASSUME TypeOK, NEW t \in Threads, NEW cause \in Seq(Layers), Failed(t, cause),
         th[t].pc = "send",
         UNCHANGED <<tls, clients, built, reachable, token, selected, server, version,
                     reports>>
  PROVE  TypeOK'
<1> DEFINE r == [th[t] EXCEPT !.pc = "done", !.err = <<"url">> \o cause]
<1>1. th[t] \in Request /\ th[t].addr \in Addresses /\ th[t].client \in DOMAIN built
  BY DEF TypeOK
<1>2. r \in Request  BY <1>1, FailedType
<1>3. r.addr = th[t].addr /\ r.client = th[t].client  BY <1>1 DEF Request
<1>4. Now(t, r)  BY DEF Failed
<1>5. reachable' \in BOOLEAN  BY DEF TypeOK
<1> HIDE DEF r
<1> QED  BY <1>1, <1>2, <1>3, <1>4, <1>5, OnlyNowType

LEMMA PutType ==
  ASSUME TypeOK, NEW a \in Addresses, NEW config \in Config, Put(a, config),
         clients' = [clients EXCEPT ![a] = 0]
  PROVE  TypeOK'
<1>1. tls' \in [Addresses -> Config]  BY DEF TypeOK, Put
<1>2. version' \in [Addresses -> 0..MaxConfigs]
  BY ApiClientAssumption DEF TypeOK, Put
<1>3. Len(built) \in Nat  BY LenProperties DEF TypeOK
<1>4. clients' \in [Addresses -> 0..Len(built)]  BY <1>3 DEF TypeOK
<1> QED  BY <1>1, <1>2, <1>4 DEF TypeOK, Put

LEMMA ConfigureType ==
  ASSUME TypeOK, NEW a \in Addresses, Configure(a)
  PROVE  TypeOK'
<1>1. CASE \E config \in Configs : ConfigureTLS(a, config)
  BY <1>1, ConfigTypes, PutType DEF ConfigureTLS
<1>2. CASE \E dial \in Endpoints \cup {None} : ConfigureDialAddress(a, dial)
  BY <1>2, ConfigTypes, PutType DEF ConfigureDialAddress
<1>3. CASE ClearTLS(a)  BY <1>3, IdleType, PutType DEF ClearTLS
<1> QED  BY <1>1, <1>2, <1>3 DEF Configure

LEMMA StartType ==
  ASSUME TypeOK, NEW t \in Threads, NEW op \in {"do", "public", "raw", "probe"},
         NEW a \in Addresses, StartRequest(t, op, a)
  PROVE  TypeOK'
<1> DEFINE r == [Idle EXCEPT !.op = op, !.addr = a, !.start = version[a],
                   !.pc = IF Authenticated(op) THEN "header" ELSE "lookup"]
<1>1. version[a] \in Nat  BY ApiClientAssumption DEF TypeOK
<1>2. r \in Request  BY <1>1, IdleType DEF Request, Pcs
<1>3. r.addr \in Addresses /\ r.pc \notin {"send", "done"}  BY DEF Idle
<1>4. Now(t, r) /\ reachable' \in BOOLEAN  BY DEF StartRequest, TypeOK
<1> HIDE DEF r
<1> QED  BY <1>2, <1>3, <1>4, OnlyNowType DEF StartRequest

LEMMA BuildType ==
  ASSUME TypeOK, NEW t \in Threads, Build(t)
  PROVE  TypeOK'
<1> DEFINE a == th[t].addr
           id == Len(built) + 1
<1>1. th[t] \in Request /\ a \in Addresses /\ th[t].pc = "build"
  BY DEF TypeOK, Build
<1>2. Len(built) \in Nat /\ DOMAIN built = 1..Len(built)  BY LenProperties DEF TypeOK
<1>3. reachable \in BOOLEAN /\ clients[a] \in 0..Len(built)  BY <1>1 DEF TypeOK
<1>4. CASE clients[a] # 0 /\ Now(t, [th[t] EXCEPT !.client = clients[a], !.pc = "send"])
           /\ UNCHANGED <<clients, built>>
  <2> DEFINE r == [th[t] EXCEPT !.client = clients[a], !.pc = "send"]
  <2>1. r \in Request /\ r.addr = a /\ r.client \in DOMAIN built
    <3>1. clients[a] \in Nat /\ clients[a] \in DOMAIN built  BY <1>2, <1>3, <1>4
    <3> HIDE DEF a
    <3>3. r \in Request /\ r.addr = th[t].addr /\ r.client = clients[a]
      BY <1>1, <3>1 DEF Request, Pcs
    <3> QED  BY <3>1, <3>3 DEF a
  <2> HIDE DEF r
  <2>2. Now(t, r)  BY <1>4 DEF r
  <2> QED  BY <1>1, <1>3, <1>4, <2>1, <2>2, OnlyNowType DEF Build
<1>5. CASE Now(t, Idle) /\ UNCHANGED <<clients, built>>
  <2>1. Idle.pc = "idle"  BY DEF Idle
  <2> QED  BY <1>3, <1>5, <2>1, IdleType, OnlyNowType DEF Build
<1>6. CASE built' = Append(built, New(a)) /\ clients' = [clients EXCEPT ![a] = id]
           /\ Now(t, [th[t] EXCEPT !.client = id, !.pc = "send"])
  <2> DEFINE r == [th[t] EXCEPT !.client = id, !.pc = "send"]
  <2>1. /\ built' \in Seq(Client) /\ Len(built') = id
        /\ DOMAIN built' = 1..id /\ DOMAIN built \subseteq DOMAIN built'
    BY <1>1, <1>2, <1>6, AppendType
  <2>2. r \in Request /\ r.addr = a /\ r.client \in DOMAIN built'
    <3>1. id \in Nat /\ id \in DOMAIN built'  BY <1>2, <2>1
    <3> HIDE DEF id
    <3> QED  BY <1>1, <3>1 DEF Request, Pcs
  <2>3. clients' \in [Addresses -> 0..Len(built')]
    BY <1>1, <1>2, <1>6, <2>1 DEF TypeOK
  <2>4. Now(t, r)  BY <1>6
  <2> HIDE DEF r
  <2>5. /\ th' \in [Threads -> Request]
        /\ \A u \in Threads :
              /\ th'[u].pc # "idle" => th'[u].addr \in Addresses
              /\ th'[u].pc \in {"send", "done"} => th'[u].client \in DOMAIN built'
    BY <1>1, <2>1, <2>2, <2>4, NowType
  <2> QED  BY <2>1, <2>3, <2>5 DEF TypeOK, Build
<1> QED  BY <1>4, <1>5, <1>6 DEF Build

LEMMA HandshakeType ==
  ASSUME TypeOK, NEW t \in Threads, Handshake(t)
  PROVE  TypeOK'
<1> DEFINE id == th[t].client
           client == built[id]
           cert == server[Endpoint(client)]
<1>1. id \in DOMAIN built /\ client \in Client  BY BuiltAt DEF TypeOK, Handshake
<1>2. cert.key \in Keys  BY <1>1, EndpointType, CertKey DEF Handshake
<1>3. built' \in Seq(Client) /\ Len(built') = Len(built) /\ DOMAIN built' = DOMAIN built
  BY <1>1, <1>2, ConnType DEF Handshake
<1>4. <<client.addr, client.version, cert.key>> \in Addresses \X Nat \X Keys
  BY <1>1, <1>2 DEF Client
<1>5. reports' \subseteq Addresses \X Nat \X Keys  BY <1>4 DEF Handshake, TypeOK
<1> QED  BY <1>3, <1>5 DEF TypeOK, Handshake

LEMMA ExchangeType ==
  ASSUME TypeOK, NEW t \in Threads, Exchange(t)
  PROVE  TypeOK'
<1> DEFINE key == built[th[t].client].conn
           r == [th[t] EXCEPT !.pc = "done", !.peer = key]
<1>1. /\ th[t] \in Request /\ th[t].addr \in Addresses
      /\ th[t].client \in DOMAIN built
  BY DEF TypeOK, Exchange
<1>2. key \in Keys \cup {None}  BY <1>1, BuiltAt DEF Client
<1>3. r \in Request /\ r.addr = th[t].addr /\ r.client = th[t].client
  BY <1>1, <1>2 DEF Request, Pcs
<1>4. Now(t, r) /\ reachable' \in BOOLEAN  BY DEF Exchange, Answered, TypeOK
<1> HIDE DEF r
<1> QED  BY <1>1, <1>3, <1>4, OnlyNowType DEF Exchange

LEMMA DroppedType ==
  ASSUME TypeOK, NEW t \in Threads, Dropped(t)
  PROVE  TypeOK'
<1> DEFINE id == th[t].client
           r == [th[t] EXCEPT !.pc = "done", !.err = <<"url">> \o <<"eof">>]
<1>1. th[t] \in Request /\ th[t].addr \in Addresses /\ id \in DOMAIN built
  BY DEF TypeOK, Dropped
<1>2. built' \in Seq(Client) /\ Len(built') = Len(built) /\ DOMAIN built' = DOMAIN built
  BY <1>1, ConnType DEF Dropped
<1>3. r \in Request  BY <1>1, Causes, FailedType
<1>4. r.addr = th[t].addr /\ r.client = id  BY <1>1 DEF Request
<1>5. Now(t, r)  BY DEF Dropped, Failed
<1> HIDE DEF r
<1>6. /\ th' \in [Threads -> Request]
      /\ \A u \in Threads :
           /\ th'[u].pc # "idle" => th'[u].addr \in Addresses
           /\ th'[u].pc \in {"send", "done"} => th'[u].client \in DOMAIN built'
  BY <1>1, <1>2, <1>3, <1>4, <1>5, NowType
<1> QED  BY <1>2, <1>6 DEF TypeOK, Dropped

LEMMA StepType ==
  ASSUME TypeOK, NEW t \in Threads, Step(t) \/ Trouble(t)
  PROVE  TypeOK'
<1>1. th[t] \in Request /\ reachable \in BOOLEAN  BY DEF TypeOK
<1>2. CASE SetHeader(t)
  <2> DEFINE r == [th[t] EXCEPT !.pc = "lookup", !.token = token]
  <2>1. r \in Request /\ r.addr = th[t].addr /\ r.pc = "lookup"
    BY <1>1 DEF TypeOK, Request, Pcs
  <2>2. Now(t, r) /\ th[t].addr \in Addresses  BY <1>2 DEF SetHeader, TypeOK
  <2> HIDE DEF r
  <2> QED  BY <1>1, <1>2, <2>1, <2>2, OnlyNowType DEF SetHeader
<1>3. CASE Lookup(t)
  <2> DEFINE id == clients[th[t].addr]
             r == [th[t] EXCEPT !.client = id, !.pc = IF id = 0 THEN "build" ELSE "send"]
  <2>1. th[t].addr \in Addresses  BY <1>3 DEF Lookup, TypeOK
  <2>2. id \in 0..Len(built) /\ Len(built) \in Nat /\ DOMAIN built = 1..Len(built)
    BY <2>1, LenProperties DEF TypeOK
  <2> DEFINE pc == IF id = 0 THEN "build" ELSE "send"
  <2>6. id \in Nat /\ pc \in Pcs /\ r = [th[t] EXCEPT !.client = id, !.pc = pc]
    BY <2>2 DEF Pcs, pc
  <2>7. pc \in {"send", "done"} => id \in DOMAIN built  BY <2>2
  <2> HIDE DEF id, pc
  <2>3. r \in Request /\ r.addr = th[t].addr /\ r.client = id /\ r.pc = pc
    BY <1>1, <2>6 DEF Request
  <2> HIDE DEF r
  <2>4. r.pc \in {"send", "done"} => id \in DOMAIN built  BY <2>3, <2>7
  <2> USE DEF id, r
  <2>5. Now(t, r)  BY <1>3 DEF Lookup
  <2> HIDE DEF r
  <2> QED  BY <1>1, <1>3, <2>1, <2>3, <2>4, <2>5, OnlyNowType DEF Lookup
<1>4. CASE Build(t)  BY <1>4, BuildType
<1>5. CASE Handshake(t)  BY <1>5, HandshakeType
<1>6. CASE Exchange(t)  BY <1>6, ExchangeType
<1>7. CASE DialFails(t)  BY <1>7, Causes, FailedStep DEF DialFails
<1>8. CASE Refused(t)  BY <1>8, Causes, FailedStep DEF Refused
<1>9. CASE Return(t)
  <2>1. reachable' \in BOOLEAN  BY <1>1, <1>9 DEF Return, Flag
  <2>2. Idle.pc = "idle"  BY DEF Idle
  <2> QED  BY <1>9, <2>1, <2>2, IdleType, OnlyNowType DEF Return
<1>10. CASE Alert(t)  BY <1>10, Causes, FailedStep DEF Alert
<1>11. CASE Dropped(t)  BY <1>11, DroppedType
<1>12. CASE Timeout(t)  BY <1>12, Causes, FailedStep DEF Timeout
<1>13. CASE SaveFails(t)
  <2> DEFINE client == built[th[t].client]
             cert == server[Endpoint(client)]
             r == [th[t] EXCEPT !.pc = "done", !.err = <<"url">> \o <<"verify", "save">>]
  <2>1. th[t].addr \in Addresses /\ th[t].client \in DOMAIN built
    BY <1>13 DEF SaveFails, TypeOK
  <2>2. client \in Client  BY <2>1, BuiltAt
  <2>3. cert.key \in Keys  BY <1>13, <2>2, EndpointType, CertKey DEF SaveFails
  <2>4. <<client.addr, client.version, cert.key>> \in Addresses \X Nat \X Keys
    BY <2>2, <2>3 DEF Client
  <2>5. reports' \subseteq Addresses \X Nat \X Keys  BY <1>13, <2>4 DEF SaveFails, TypeOK
  <2>6. r \in Request  BY <1>1, Causes, FailedType
  <2>7. r.addr = th[t].addr /\ r.client = th[t].client  BY <1>1 DEF Request
  <2>8. Now(t, r)  BY <1>13 DEF SaveFails, Failed
  <2> HIDE DEF r
  <2>9. DOMAIN built' = DOMAIN built  BY <1>13 DEF SaveFails
  <2>10. /\ th' \in [Threads -> Request]
         /\ \A u \in Threads :
              /\ th'[u].pc # "idle" => th'[u].addr \in Addresses
              /\ th'[u].pc \in {"send", "done"} => th'[u].client \in DOMAIN built'
    BY <2>1, <2>6, <2>7, <2>8, <2>9, NowType
  <2> QED  BY <1>13, <2>5, <2>10 DEF TypeOK, SaveFails
<1> QED
  BY <1>2, <1>3, <1>4, <1>5, <1>6, <1>7, <1>8, <1>9, <1>10, <1>11, <1>12, <1>13
  DEF Step, Trouble

LEMMA TypeStep ==
  ASSUME TypeOK, [Next]_vars
  PROVE  TypeOK'
<1>1. CASE \E a \in Addresses : Configure(a)  BY <1>1, ConfigureType
<1>2. CASE \E x \in {"session", None} : SetToken(x)  BY <1>2 DEF SetToken, TypeOK
<1>3. CASE \E a \in Addresses \cup {None} : Select(a)  BY <1>3 DEF Select, TypeOK
<1>4. CASE \E t \in Threads, op \in Ops \ {"probe"}, a \in Addresses :
             StartRequest(t, op, a)
  BY <1>4, StartType, ApiClientAssumption
<1>5. CASE \E t \in Threads : HealthCheck(t)
  <2> PICK t \in Threads : HealthCheck(t)  BY <1>5
  <2>1. CASE selected # None /\ StartRequest(t, "probe", selected)
    <3>1. selected \in Addresses  BY <2>1 DEF TypeOK
    <3> QED  BY <2>1, <3>1, StartType
  <2>2. CASE reachable' = FALSE
             /\ UNCHANGED <<tls, clients, built, token, selected, server, th, version, reports>>
    BY <2>2 DEF TypeOK
  <2> QED  BY <2>1, <2>2 DEF HealthCheck
<1>6. CASE \E t \in Threads : Step(t) \/ Trouble(t)  BY <1>6, StepType
<1>7. CASE \E e \in Endpoints, cert \in Certs \cup {None} : Restart(e, cert)
  <2> PICK e \in Endpoints, cert \in Certs \cup {None} : Restart(e, cert)  BY <1>7
  <2>1. built' \in Seq(Client) /\ Len(built') = Len(built) /\ DOMAIN built' = DOMAIN built
    BY RestartType
  <2> QED  BY <2>1 DEF TypeOK, Restart
<1>8. CASE UNCHANGED vars  BY <1>8 DEF vars, TypeOK
<1> QED  BY <1>1, <1>2, <1>3, <1>4, <1>5, <1>6, <1>7, <1>8 DEF Next

LEMMA TypeInit == Init => TypeOK
<1> SUFFICES ASSUME Init  PROVE TypeOK
  OBVIOUS
<1>1. built \in Seq(Client) /\ Len(built) = 0  BY EmptySeq DEF Init
<1>2. Idle.pc = "idle"  BY DEF Idle
<1>3. tls \in [Addresses -> Config] /\ th \in [Threads -> Request]
  BY IdleType DEF Init
<1>4. /\ clients \in [Addresses -> 0..Len(built)]
      /\ version \in [Addresses -> 0..MaxConfigs]
  BY <1>1, ApiClientAssumption DEF Init
<1> QED  BY <1>1, <1>2, <1>3, <1>4 DEF Init, TypeOK

\* The state has its shape in every reachable state.
THEOREM TypeCorrect == Spec => []TypeOK
<1>1. TypeOK /\ [Next]_vars => TypeOK'  BY TypeStep
<1> QED  BY <1>1, TypeInit, PTL DEF Spec

--------------------------------------------------------------------------------
(* Trust *)

\* The clients built before are what they were, up to their connections, and
\* what was reported stays reported.
ClientsKept ==
  /\ \A j \in DOMAIN built :
       /\ j \in DOMAIN built'
       /\ built'[j].addr = built[j].addr
       /\ built'[j].version = built[j].version
       /\ built'[j].config = built[j].config
  /\ reports \subseteq reports'

LEMMA CacheKept ==
  ASSUME TypeOK, CacheInv, OneClientPerConfig, ClientsKept, DOMAIN built' = DOMAIN built,
         UNCHANGED <<tls, clients, version>>
  PROVE  CacheInv' /\ OneClientPerConfig'
<1>1. ASSUME NEW a \in Addresses, clients[a] # 0  PROVE clients[a] \in DOMAIN built
  BY <1>1, LenProperties DEF TypeOK
<1>2. CacheInv'  BY <1>1 DEF CacheInv, ClientsKept
<1>3. OneClientPerConfig'  BY DEF OneClientPerConfig, ClientsKept
<1> QED  BY <1>2, <1>3

\* Connections that stay are still trusted; a new one has to be.
LEMMA ConnsKept ==
  ASSUME ConnInv, ClientsKept,
         \A j \in DOMAIN built' :
           \/ built'[j].conn = None
           \/ j \in DOMAIN built /\ built'[j].conn = built[j].conn
           \/ Trusted(built[j], built[j].conn)'
  PROVE  ConnInv'
<1> SUFFICES ASSUME NEW j \in DOMAIN built', built'[j].conn # None
             PROVE  Trusted(built[j], built[j].conn)'
  BY DEF ConnInv
<1>1. CASE j \in DOMAIN built /\ built'[j].conn = built[j].conn
  <2>1. Trusted(built[j], built[j].conn)  BY <1>1 DEF ConnInv
  <2> QED  BY <1>1, <2>1 DEF ClientsKept, Trusted
<1> QED  BY <1>1

\* The requests of other goroutines keep what they rely on.
LEMMA RequestsKept ==
  ASSUME TypeOK, RequestInv, ClientsKept, NEW t \in Threads,
         \A u \in Threads \ {t} : th'[u] = th[u],
         UNCHANGED version,
         th'[t].pc # "idle" => th'[t].start <= version[th'[t].addr],
         th'[t].pc \in {"send", "done"} =>
           /\ built'[th'[t].client].addr = th'[t].addr
           /\ built'[th'[t].client].version >= th'[t].start,
         th'[t].peer # None =>
           th'[t].pc = "done" /\ Trusted(built[th[t].client], th[t].peer)'
  PROVE  RequestInv'
<1> SUFFICES ASSUME NEW u \in Threads, u # t
             PROVE  /\ th[u].pc # "idle" => th[u].start <= version[th[u].addr]
                    /\ th[u].pc \in {"send", "done"} =>
                         /\ built'[th[u].client].addr = th[u].addr
                         /\ built'[th[u].client].version >= th[u].start
                    /\ th[u].peer # None =>
                         th[u].pc = "done" /\ Trusted(built[th[u].client], th[u].peer)'
  BY DEF RequestInv
<1>1. /\ th[u].pc # "idle" => th[u].start <= version[th[u].addr]
      /\ th[u].pc \in {"send", "done"} =>
           /\ built[th[u].client].addr = th[u].addr
           /\ built[th[u].client].version >= th[u].start
      /\ th[u].peer # None =>
           th[u].pc = "done" /\ Trusted(built[th[u].client], th[u].peer)
  BY DEF RequestInv
<1>2. th[u].pc \in {"send", "done"} => th[u].client \in DOMAIN built  BY DEF TypeOK
<1>3. th'[u] = th[u]  OBVIOUS
<1>4. ASSUME th[u].peer # None
      PROVE  th[u].pc = "done" /\ Trusted(built[th[u].client], th[u].peer)'
  BY <1>1, <1>2, <1>3, <1>4 DEF ClientsKept, Trusted
<1> QED  BY <1>1, <1>2, <1>4 DEF ClientsKept

Cached == CacheInv /\ OneClientPerConfig

LEMMA PutInv ==
  ASSUME ClientInv, NEW a \in Addresses, NEW config, Put(a, config),
         clients' = [clients EXCEPT ![a] = 0]
  PROVE  Cached' /\ ConnInv' /\ RequestInv'
<1>1. /\ version[a] \in Nat /\ version'[a] = version[a] + 1
      /\ \A b \in Addresses \ {a} : version'[b] = version[b] /\ tls'[b] = tls[b]
  BY ApiClientAssumption DEF ClientInv, TypeOK, Put
<1>2. clients'[a] = 0 /\ \A b \in Addresses \ {a} : clients'[b] = clients[b]
  BY DEF ClientInv, TypeOK
<1>3. ASSUME NEW b \in Addresses
      PROVE  /\ version[b] \in Nat /\ version'[b] \in Nat
             /\ version[b] <= version'[b]
  <2>1. version[b] \in Nat  BY ApiClientAssumption DEF ClientInv, TypeOK
  <2>2. CASE b = a  BY <1>1, <2>2
  <2>3. CASE b # a  BY <1>1, <2>1, <2>3
  <2> QED  BY <2>1, <2>2, <2>3
<1>4. UNCHANGED <<built, reports, th>>  BY DEF Put
<1>5. CacheInv'
  <2>1. ASSUME NEW i \in DOMAIN built
        PROVE  /\ built[i].version <= version'[built[i].addr]
               /\ built[i].version = version'[built[i].addr] => clients'[built[i].addr] = i
    <3>1. built[i].addr \in Addresses /\ built[i].version \in Nat
      BY BuiltAt DEF ClientInv, Client
    <3>2. /\ built[i].version <= version[built[i].addr]
          /\ built[i].version = version[built[i].addr] => clients[built[i].addr] = i
      BY DEF ClientInv, CacheInv
    <3>3. CASE built[i].addr = a  BY <1>1, <3>1, <3>2, <3>3
    <3>4. CASE built[i].addr # a  BY <1>1, <1>2, <3>1, <3>2, <3>4
    <3> QED  BY <3>3, <3>4
  <2>2. ASSUME NEW b \in Addresses, clients'[b] # 0
        PROVE  /\ built[clients'[b]].addr = b
               /\ built[clients'[b]].config = tls'[b]
               /\ built[clients'[b]].version = version'[b]
    <3>1. b # a  BY <1>2, <2>2
    <3> QED  BY <1>1, <1>2, <2>2, <3>1 DEF ClientInv, CacheInv
  <2> QED  BY <1>4, <2>1, <2>2 DEF CacheInv
<1>6. OneClientPerConfig' /\ ConnInv'
  BY <1>4 DEF ClientInv, OneClientPerConfig, ConnInv, Trusted
<1>7. RequestInv'
  <2> SUFFICES ASSUME NEW t \in Threads, th[t].pc # "idle"
               PROVE  th[t].start <= version'[th[t].addr]
    BY <1>4 DEF ClientInv, RequestInv, Trusted
  <2>1. th[t].addr \in Addresses /\ th[t].start \in Nat
    BY DEF ClientInv, TypeOK, Request
  <2>2. th[t].start <= version[th[t].addr]  BY DEF ClientInv, RequestInv
  <2> DEFINE b == th[t].addr
  <2>3. version[b] \in Nat /\ version'[b] \in Nat /\ version[b] <= version'[b]
    BY <1>3, <2>1
  <2> QED  BY <2>1, <2>2, <2>3
<1> QED  BY <1>5, <1>6, <1>7 DEF Cached

\* Steps that only move one request on.
LEMMA OnlyNowInv ==
  ASSUME ClientInv, NEW t \in Threads, NEW r, Now(t, r),
         r.pc # "idle" => r.start <= version[r.addr],
         r.pc \in {"send", "done"} =>
           built[r.client].addr = r.addr /\ built[r.client].version >= r.start,
         r.peer # None => r.pc = "done" /\ Trusted(built[r.client], r.peer),
         UNCHANGED <<tls, clients, built, version>>,
         reports \subseteq reports'
  PROVE  Cached' /\ ConnInv' /\ RequestInv'
<1>1. TypeOK /\ CacheInv /\ OneClientPerConfig /\ ConnInv /\ RequestInv  BY DEF ClientInv
<1>2. th'[t] = r /\ \A u \in Threads \ {t} : th'[u] = th[u]
  BY <1>1 DEF TypeOK, Now
<1>3. ClientsKept /\ DOMAIN built' = DOMAIN built  BY DEF ClientsKept
<1>4. Cached'  BY <1>1, <1>3, CacheKept DEF Cached
<1>5. ConnInv'  BY <1>1, <1>3, ConnsKept
<1>6. th'[t].peer # None =>
        th'[t].pc = "done" /\ Trusted(built[th[t].client], th[t].peer)'
  BY <1>2 DEF Trusted
<1>7. RequestInv'  BY <1>1, <1>2, <1>3, <1>6, RequestsKept
<1> QED  BY <1>4, <1>5, <1>7

\* A request that fails keeps its client and has no peer.
LEMMA FailedFields ==
  ASSUME NEW r \in Request, NEW cause
  PROVE  LET q == [r EXCEPT !.pc = "done", !.err = cause]
         IN  /\ q.pc = "done" /\ q.addr = r.addr /\ q.start = r.start
             /\ q.client = r.client /\ q.peer = r.peer
BY DEF Request

LEMMA FailedInv ==
  ASSUME ClientInv, NEW t \in Threads, NEW cause, Failed(t, cause),
         th[t].pc = "send", UNCHANGED <<tls, clients, built, version>>,
         reports \subseteq reports'
  PROVE  Cached' /\ ConnInv' /\ RequestInv'
<1> DEFINE r == [th[t] EXCEPT !.pc = "done", !.err = <<"url">> \o cause]
<1>1. th[t] \in Request  BY DEF ClientInv, TypeOK
<1>2. /\ th[t].start <= version[th[t].addr]
      /\ built[th[t].client].addr = th[t].addr
      /\ built[th[t].client].version >= th[t].start
      /\ th[t].peer = None
  BY DEF ClientInv, RequestInv
<1>3. /\ r.pc = "done" /\ r.addr = th[t].addr /\ r.start = th[t].start
      /\ r.client = th[t].client /\ r.peer = th[t].peer
  BY <1>1, FailedFields
<1>4. Now(t, r)  BY DEF Failed
<1> HIDE DEF r
<1> QED  BY <1>2, <1>3, <1>4, OnlyNowInv

LEMMA StartInv ==
  ASSUME ClientInv, NEW t \in Threads, NEW op, NEW a \in Addresses, StartRequest(t, op, a)
  PROVE  Cached' /\ ConnInv' /\ RequestInv'
<1> DEFINE r == [Idle EXCEPT !.op = op, !.addr = a, !.start = version[a],
                   !.pc = IF Authenticated(op) THEN "header" ELSE "lookup"]
<1>1. /\ r.pc \in {"header", "lookup"} /\ r.addr = a /\ r.start = version[a]
      /\ r.peer = None
  BY DEF Idle
<1>2. version[a] <= version[a]  BY ApiClientAssumption DEF ClientInv, TypeOK
<1>3. Now(t, r)  BY DEF StartRequest
<1> HIDE DEF r
<1> QED  BY <1>1, <1>2, <1>3, OnlyNowInv DEF StartRequest

\* A request that is given the cached client gets one of the current version.
LEMMA BuildInv ==
  ASSUME ClientInv, NEW t \in Threads, Lookup(t) \/ Build(t)
  PROVE  Cached' /\ ConnInv' /\ RequestInv'
<1> DEFINE a == th[t].addr
           id == Len(built) + 1
<1>1. /\ TypeOK /\ CacheInv /\ OneClientPerConfig /\ ConnInv /\ RequestInv
      /\ th[t] \in Request /\ th[t].pc \in {"lookup", "build"} /\ a \in Addresses
  BY DEF ClientInv, TypeOK, Lookup, Build
<1>2. th[t].start <= version[a] /\ th[t].peer = None  BY <1>1 DEF RequestInv
<1>3. /\ th[t].start \in Nat /\ version[a] \in Nat
      /\ Len(built) \in Nat /\ DOMAIN built = 1..Len(built)
      /\ clients[a] \in 0..Len(built)
  BY <1>1, LenProperties, ApiClientAssumption DEF TypeOK, Request
<1>4. CASE clients[a] # 0 /\ Now(t, [th[t] EXCEPT !.client = clients[a], !.pc = "send"])
           /\ UNCHANGED <<tls, clients, built, version, reports>>
  <2> DEFINE r == [th[t] EXCEPT !.client = clients[a], !.pc = "send"]
  <2>1. /\ r.pc = "send" /\ r.addr = a /\ r.start = th[t].start
        /\ r.client = clients[a] /\ r.peer = None
    BY <1>1, <1>2 DEF Request
  <2>2. built[clients[a]].addr = a /\ built[clients[a]].version = version[a]
    BY <1>1, <1>4 DEF CacheInv
  <2>3. Now(t, r)  BY <1>4
  <2> HIDE DEF r
  <2> QED  BY <1>2, <1>3, <1>4, <2>1, <2>2, <2>3, OnlyNowInv
<1>5. CASE Now(t, Idle) /\ UNCHANGED <<tls, clients, built, version, reports>>
  <2>1. Idle.pc = "idle" /\ Idle.peer = None  BY DEF Idle
  <2> QED  BY <1>5, <2>1, OnlyNowInv
<1>6. CASE Now(t, [th[t] EXCEPT !.client = 0, !.pc = "build"])
           /\ UNCHANGED <<tls, clients, built, version, reports>>
  <2> DEFINE r == [th[t] EXCEPT !.client = 0, !.pc = "build"]
  <2>1. r.pc = "build" /\ r.addr = a /\ r.start = th[t].start /\ r.peer = None
    BY <1>1, <1>2 DEF Request
  <2>2. Now(t, r)  BY <1>6
  <2> HIDE DEF r
  <2> QED  BY <1>2, <1>6, <2>1, <2>2, OnlyNowInv
<1>7. CASE /\ clients[a] = 0 /\ built' = Append(built, New(a))
           /\ clients' = [clients EXCEPT ![a] = id]
           /\ Now(t, [th[t] EXCEPT !.client = id, !.pc = "send"])
           /\ UNCHANGED <<tls, version, reports>>
  <2> DEFINE r == [th[t] EXCEPT !.client = id, !.pc = "send"]
  <2>1. /\ DOMAIN built' = 1..id /\ built'[id] = New(a)
        /\ \A j \in DOMAIN built : j \in DOMAIN built' /\ built'[j] = built[j]
    BY <1>1, <1>3, <1>7, AppendType
  <2>2. /\ New(a).addr = a /\ New(a).version = version[a] /\ New(a).config = tls[a]
        /\ New(a).conn = None
    BY DEF New
  <2>3. ClientsKept  BY <1>7, <2>1 DEF ClientsKept
  <2>4. clients'[a] = id /\ \A b \in Addresses \ {a} : clients'[b] = clients[b]
    BY <1>1, <1>7 DEF TypeOK
  <2>5. \A j \in DOMAIN built : built[j].addr = a => built[j].version # version[a]
    BY <1>1, <1>3, <1>7 DEF CacheInv
  <2>6. CacheInv'
    <3>1. ASSUME NEW b \in Addresses, clients'[b] # 0
          PROVE  /\ built'[clients'[b]].addr = b
                 /\ built'[clients'[b]].config = tls[b]
                 /\ built'[clients'[b]].version = version[b]
      <4>1. CASE b = a  BY <2>1, <2>2, <2>4, <4>1
      <4>2. CASE b # a
        <5>1. clients[b] \in DOMAIN built /\ clients'[b] = clients[b]
          BY <1>1, <1>3, <2>4, <3>1, <4>2 DEF TypeOK
        <5> QED  BY <1>1, <2>1, <3>1, <5>1 DEF CacheInv
      <4> QED  BY <4>1, <4>2
    <3>2. ASSUME NEW i \in DOMAIN built'
          PROVE  /\ built'[i].version <= version[built'[i].addr]
                 /\ built'[i].version = version[built'[i].addr]
                      => clients'[built'[i].addr] = i
      <4>1. CASE i = id  BY <1>3, <2>1, <2>2, <2>4, <4>1
      <4>2. CASE i # id
        <5>1. i \in DOMAIN built /\ built'[i] = built[i]  BY <1>3, <2>1, <4>2
        <5>2. built[i].addr \in Addresses  BY <1>1, <5>1, BuiltAt DEF Client
        <5> QED  BY <1>1, <2>4, <2>5, <5>1, <5>2 DEF CacheInv
      <4> QED  BY <4>1, <4>2
    <3> QED  BY ZenonT(60), <1>7, <3>1, <3>2 DEF CacheInv
  <2>7. OneClientPerConfig'
    <3> SUFFICES ASSUME NEW i \in DOMAIN built', NEW j \in DOMAIN built',
                        built'[i].addr = built'[j].addr,
                        built'[i].version = built'[j].version, i # j
                 PROVE  FALSE
      BY DEF OneClientPerConfig
    <3>1. i \in DOMAIN built \/ i = id  BY <1>3, <2>1
    <3>2. j \in DOMAIN built \/ j = id  BY <1>3, <2>1
    <3>3. CASE i \in DOMAIN built /\ j \in DOMAIN built
      BY <1>1, <2>1, <3>3 DEF OneClientPerConfig
    <3>4. CASE i = id /\ j \in DOMAIN built  BY <2>1, <2>2, <2>5, <3>4
    <3>5. CASE j = id /\ i \in DOMAIN built  BY <2>1, <2>2, <2>5, <3>5
    <3> QED  BY <3>1, <3>2, <3>3, <3>4, <3>5
  <2>8. ConnInv'
    <3>1. \A j \in DOMAIN built' :
            built'[j].conn = None \/ (j \in DOMAIN built /\ built'[j].conn = built[j].conn)
      BY <1>3, <2>1, <2>2
    <3> QED  BY <1>1, <2>3, <3>1, ConnsKept
  <2>9. RequestInv'
    <3>1. /\ r.pc = "send" /\ r.addr = a /\ r.start = th[t].start
          /\ r.client = id /\ r.peer = None
      BY <1>1, <1>2, <1>3 DEF Request
    <3>2. Now(t, r)  BY <1>7
    <3> HIDE DEF r
    <3>3. th'[t] = r /\ \A u \in Threads \ {t} : th'[u] = th[u]
      BY <1>1, <3>2 DEF TypeOK, Now
    <3>4. built'[r.client].addr = r.addr /\ built'[r.client].version >= r.start
      BY <1>2, <1>3, <2>1, <2>2, <3>1
    <3> QED  BY <1>1, <1>2, <1>7, <2>3, <3>1, <3>3, <3>4, RequestsKept
  <2> QED  BY <2>6, <2>7, <2>8, <2>9 DEF Cached
<1> QED  BY <1>4, <1>5, <1>6, <1>7 DEF Lookup, Build

LEMMA ExchangeInv ==
  ASSUME ClientInv, NEW t \in Threads, Exchange(t)
  PROVE  Cached' /\ ConnInv' /\ RequestInv'
<1> DEFINE key == built[th[t].client].conn
           r == [th[t] EXCEPT !.pc = "done", !.peer = key]
<1>1. th[t] \in Request /\ th[t].client \in DOMAIN built
  BY DEF ClientInv, TypeOK, Exchange
<1>2. /\ th[t].start <= version[th[t].addr]
      /\ built[th[t].client].addr = th[t].addr
      /\ built[th[t].client].version >= th[t].start
  BY DEF ClientInv, RequestInv, Exchange
<1>3. Trusted(built[th[t].client], key)
  BY <1>1 DEF ClientInv, ConnInv, Exchange
<1>4. /\ r.pc = "done" /\ r.addr = th[t].addr /\ r.start = th[t].start
      /\ r.client = th[t].client /\ r.peer = key
  BY <1>1 DEF Request
<1>5. Now(t, r)  BY DEF Exchange, Answered
<1> HIDE DEF r, key
<1> QED  BY <1>2, <1>3, <1>4, <1>5, OnlyNowInv DEF Exchange

\* Steps that change connections only, and may report a key.
LEMMA ConnStepInv ==
  ASSUME ClientInv, ClientsKept, DOMAIN built' = DOMAIN built,
         UNCHANGED <<tls, clients, version, th>>,
         \A j \in DOMAIN built :
           \/ built'[j].conn \in {None, built[j].conn}
           \/ Trusted(built[j], built[j].conn)'
  PROVE  Cached' /\ ConnInv' /\ RequestInv'
<1>1. TypeOK /\ CacheInv /\ OneClientPerConfig /\ ConnInv /\ RequestInv  BY DEF ClientInv
<1>2. Cached'  BY <1>1, CacheKept DEF Cached
<1>3. ConnInv'  BY <1>1, ConnsKept
<1>4. ASSUME NEW t \in Threads
      PROVE  /\ th[t].pc # "idle" => th[t].start <= version[th[t].addr]
             /\ th[t].pc \in {"send", "done"} =>
                  /\ built'[th[t].client].addr = th[t].addr
                  /\ built'[th[t].client].version >= th[t].start
             /\ th[t].peer # None =>
                  th[t].pc = "done" /\ Trusted(built[th[t].client], th[t].peer)'
  <2>1. th[t].pc \in {"send", "done"} => th[t].client \in DOMAIN built
    BY <1>1 DEF TypeOK
  <2>2. th[t].peer # None =>
          th[t].pc = "done" /\ Trusted(built[th[t].client], th[t].peer)
    BY <1>1 DEF RequestInv
  <2>3. th[t].peer # None => Trusted(built[th[t].client], th[t].peer)'
    BY <2>1, <2>2 DEF ClientsKept, Trusted
  <2> QED  BY <1>1, <2>1, <2>2, <2>3 DEF RequestInv, ClientsKept
<1>5. RequestInv'  BY <1>4 DEF RequestInv
<1> QED  BY <1>2, <1>3, <1>5

LEMMA HandshakeInv ==
  ASSUME ClientInv, NEW t \in Threads, Handshake(t)
  PROVE  Cached' /\ ConnInv' /\ RequestInv'
<1> DEFINE id == th[t].client
           client == built[id]
           cert == server[Endpoint(client)]
<1>1. TypeOK /\ id \in DOMAIN built  BY DEF ClientInv, TypeOK, Handshake
<1>2. client \in Client  BY <1>1, BuiltAt
<1>3. cert.key \in Keys  BY <1>1, <1>2, EndpointType, CertKey DEF Handshake
<1>4. /\ DOMAIN built' = DOMAIN built
      /\ built'[id] = [client EXCEPT !.conn = cert.key]
      /\ \A j \in DOMAIN built : j # id => built'[j] = built[j]
  BY <1>1, <1>3, ConnType DEF Handshake
<1>5. /\ built'[id].addr = client.addr /\ built'[id].version = client.version
      /\ built'[id].config = client.config /\ built'[id].conn = cert.key
  BY <1>2, <1>4 DEF Client
<1>6. ClientsKept  BY <1>4, <1>5 DEF ClientsKept, Handshake
<1>7. Trusted(built[id], built[id].conn)'
  <2>1. /\ client.config.fp \in {None, cert.key}
        /\ client.config.fp = None => Verdict(client.config, cert) = "new"
    BY DEF Handshake, Verdict
  <2>2. client.config.fp = None => <<client.addr, client.version, cert.key>> \in reports'
    BY <2>1 DEF Handshake
  <2>3. th' = th  BY DEF Handshake
  <2> QED  BY <1>5, <2>1, <2>2, <2>3 DEF Trusted
<1>8. \A j \in DOMAIN built :
        \/ built'[j].conn \in {None, built[j].conn}
        \/ Trusted(built[j], built[j].conn)'
  <2> SUFFICES ASSUME NEW j \in DOMAIN built
               PROVE  \/ built'[j].conn \in {None, built[j].conn}
                      \/ Trusted(built[j], built[j].conn)'
    OBVIOUS
  <2>1. CASE j = id
    <3>1. th' = th  BY DEF Handshake
    <3> QED  BY <1>7, <2>1, <3>1 DEF Trusted
  <2>2. CASE j # id  BY <1>4, <2>2
  <2> QED  BY <2>1, <2>2
<1> HIDE DEF id, client, cert
<1> QED  BY <1>4, <1>6, <1>8, ConnStepInv DEF Handshake

LEMMA DroppedInv ==
  ASSUME ClientInv, NEW t \in Threads, Dropped(t)
  PROVE  Cached' /\ ConnInv' /\ RequestInv'
<1> DEFINE id == th[t].client
           r == [th[t] EXCEPT !.pc = "done", !.err = <<"url">> \o <<"eof">>]
<1>1. /\ TypeOK /\ CacheInv /\ OneClientPerConfig /\ ConnInv /\ RequestInv
      /\ th[t] \in Request /\ id \in DOMAIN built /\ th[t].pc = "send"
  BY DEF ClientInv, TypeOK, Dropped
<1>2. built[id] \in Client  BY <1>1, BuiltAt
<1>3. /\ DOMAIN built' = DOMAIN built
      /\ built'[id] = [built[id] EXCEPT !.conn = None]
      /\ \A j \in DOMAIN built : j # id => built'[j] = built[j]
  BY <1>1, ConnType DEF Dropped
<1>4. /\ built'[id].addr = built[id].addr /\ built'[id].version = built[id].version
      /\ built'[id].config = built[id].config /\ built'[id].conn = None
  BY <1>2, <1>3 DEF Client
<1>5. ClientsKept /\ UNCHANGED <<tls, clients, version>>
  BY <1>3, <1>4 DEF ClientsKept, Dropped
<1>6. Cached'  BY <1>1, <1>3, <1>5, CacheKept DEF Cached
<1>7. ConnInv'  BY <1>1, <1>3, <1>4, <1>5, ConnsKept
<1>8. RequestInv'
  <2>1. /\ th[t].start <= version[th[t].addr] /\ th[t].peer = None
        /\ built[id].addr = th[t].addr /\ built[id].version >= th[t].start
    BY <1>1 DEF RequestInv
  <2>2. /\ r.pc = "done" /\ r.addr = th[t].addr /\ r.start = th[t].start
        /\ r.client = id /\ r.peer = th[t].peer
    BY <1>1, FailedFields
  <2>3. Now(t, r)  BY DEF Dropped, Failed
  <2> HIDE DEF r, id
  <2>4. th'[t] = r /\ \A u \in Threads \ {t} : th'[u] = th[u]
    BY <1>1, <2>3 DEF TypeOK, Now
  <2> QED  BY <1>1, <1>4, <1>5, <2>1, <2>2, <2>4, RequestsKept
<1> QED  BY <1>6, <1>7, <1>8

LEMMA StepInv ==
  ASSUME ClientInv, NEW t \in Threads, Step(t) \/ Trouble(t)
  PROVE  Cached' /\ ConnInv' /\ RequestInv'
<1>1. CASE SetHeader(t)
  <2> DEFINE r == [th[t] EXCEPT !.pc = "lookup", !.token = token]
  <2>1. th[t] \in Request  BY DEF ClientInv, TypeOK
  <2>2. th[t].start <= version[th[t].addr] /\ th[t].peer = None
    BY <1>1 DEF ClientInv, RequestInv, SetHeader
  <2>3. /\ r.pc = "lookup" /\ r.addr = th[t].addr /\ r.start = th[t].start
        /\ r.peer = th[t].peer
    BY <2>1 DEF Request
  <2>4. Now(t, r)  BY <1>1 DEF SetHeader
  <2> HIDE DEF r
  <2> QED  BY <1>1, <2>2, <2>3, <2>4, OnlyNowInv DEF SetHeader
<1>2. CASE Lookup(t) \/ Build(t)  BY <1>2, BuildInv
<1>3. CASE Handshake(t)  BY <1>3, HandshakeInv
<1>4. CASE Exchange(t)  BY <1>4, ExchangeInv
<1>5. CASE DialFails(t)  BY <1>5, FailedInv DEF DialFails
<1>6. CASE Refused(t)  BY <1>6, FailedInv DEF Refused
<1>7. CASE Return(t)
  <2>1. Idle.pc = "idle" /\ Idle.peer = None  BY DEF Idle
  <2> QED  BY <1>7, <2>1, OnlyNowInv DEF Return
<1>8. CASE Alert(t)  BY <1>8, FailedInv DEF Alert
<1>9. CASE Dropped(t)  BY <1>9, DroppedInv
<1>10. CASE Timeout(t)  BY <1>10, FailedInv DEF Timeout
<1>11. CASE SaveFails(t)  BY <1>11, FailedInv DEF SaveFails
<1> QED
  BY <1>1, <1>2, <1>3, <1>4, <1>5, <1>6, <1>7, <1>8, <1>9, <1>10, <1>11
  DEF Step, Trouble

LEMMA RestartInv ==
  ASSUME ClientInv, NEW e \in Endpoints, NEW cert, Restart(e, cert)
  PROVE  Cached' /\ ConnInv' /\ RequestInv'
<1>1. /\ DOMAIN built' = DOMAIN built
      /\ \A j \in DOMAIN built :
           /\ built'[j].addr = built[j].addr /\ built'[j].version = built[j].version
           /\ built'[j].config = built[j].config
           /\ built'[j].conn \in {None, built[j].conn}
  BY RestartType DEF ClientInv
<1>2. ClientsKept  BY <1>1 DEF ClientsKept, Restart
<1> QED  BY <1>1, <1>2, ConnStepInv DEF Restart

LEMMA SameInv ==
  ASSUME ClientInv, UNCHANGED <<tls, clients, built, th, version, reports>>
  PROVE  Cached' /\ ConnInv' /\ RequestInv'
<1>1. ClientsKept  BY DEF ClientsKept
<1> QED  BY <1>1, ConnStepInv

LEMMA InvStep ==
  ASSUME ClientInv, [Next]_vars
  PROVE  ClientInv'
<1> SUFFICES Cached' /\ ConnInv' /\ RequestInv'
  BY TypeStep DEF ClientInv, Cached
<1>1. CASE \E a \in Addresses : Configure(a)
  BY <1>1, PutInv DEF Configure, ConfigureTLS, ConfigureDialAddress, ClearTLS
<1>2. CASE \E x \in {"session", None} : SetToken(x)  BY <1>2, SameInv DEF SetToken
<1>3. CASE \E a \in Addresses \cup {None} : Select(a)  BY <1>3, SameInv DEF Select
<1>4. CASE \E t \in Threads, op \in Ops \ {"probe"}, a \in Addresses :
             StartRequest(t, op, a)
  BY <1>4, StartInv
<1>5. CASE \E t \in Threads : HealthCheck(t)
  <2> PICK t \in Threads : HealthCheck(t)  BY <1>5
  <2>1. CASE selected # None /\ StartRequest(t, "probe", selected)
    <3>1. selected \in Addresses  BY <2>1 DEF ClientInv, TypeOK
    <3> QED  BY <2>1, <3>1, StartInv
  <2>2. CASE UNCHANGED <<tls, clients, built, token, selected, server, th, version, reports>>
    BY <2>2, SameInv
  <2> QED  BY <2>1, <2>2 DEF HealthCheck
<1>6. CASE \E t \in Threads : Step(t) \/ Trouble(t)  BY <1>6, StepInv
<1>7. CASE \E e \in Endpoints, cert \in Certs \cup {None} : Restart(e, cert)
  BY <1>7, RestartInv
<1>8. CASE UNCHANGED vars  BY <1>8, SameInv DEF vars
<1> QED  BY <1>1, <1>2, <1>3, <1>4, <1>5, <1>6, <1>7, <1>8 DEF Next

\* The strengthening of the trust properties holds in every reachable state.
THEOREM ClientInvariant == Spec => []ClientInv
<1>1. Init => ClientInv
  <2> SUFFICES ASSUME Init, TypeOK  PROVE CacheInv /\ OneClientPerConfig /\ ConnInv /\ RequestInv
    BY TypeInit DEF ClientInv
  <2>1. DOMAIN built = {}  BY DEF Init
  <2>2. Idle.pc = "idle" /\ Idle.peer = None  BY DEF Idle
  <2> QED  BY <2>1, <2>2 DEF Init, CacheInv, OneClientPerConfig, ConnInv, RequestInv
<1>2. ClientInv /\ [Next]_vars => ClientInv'  BY InvStep
<1> QED  BY <1>1, <1>2, PTL DEF Spec

\* A cached client always has the configuration in force.
THEOREM CacheCurrent == Spec => []CacheMatchesConfig
<1>1. ClientInv => CacheMatchesConfig  BY DEF ClientInv, CacheInv, CacheMatchesConfig
<1> QED  BY <1>1, ClientInvariant, PTL

\* However many goroutines race to build it, a configuration has one client.
THEOREM OneClient == Spec => []OneClientPerConfig
<1>1. ClientInv => OneClientPerConfig  BY DEF ClientInv
<1> QED  BY <1>1, ClientInvariant, PTL

\* No request is answered under a configuration replaced before it began, nor by a
\* server whose key that configuration does not accept.
THEOREM CurrentTrust == Spec => []AnsweredUnderCurrentTrust
<1>1. ClientInv => AnsweredUnderCurrentTrust
  BY DEF ClientInv, RequestInv, Trusted, AnsweredUnderCurrentTrust
<1> QED  BY <1>1, ClientInvariant, PTL

\* Under trust on first use, the caller has seen the key of every server that
\* answers.
THEOREM KeyReported == Spec => []AnsweredKeyReported
<1>1. ClientInv => AnsweredKeyReported
  BY DEF ClientInv, RequestInv, Trusted, AnsweredKeyReported
<1> QED  BY <1>1, ClientInvariant, PTL

--------------------------------------------------------------------------------
(* The reachability flag *)

LEMMA RefusalNoNetwork == ~IsConnectionError(<<"url", "verify">>)
<1> DEFINE err == <<"url", "verify">>
<1>1. DOMAIN err = 1..2 /\ err[1] = "url" /\ err[2] = "verify"  OBVIOUS
<1> HIDE DEF err
<1>2. ~IsConnectionError(err)  BY <1>1 DEF IsConnectionError
<1> QED  BY <1>2 DEF err

\* Only the end of a request and a health check move the flag.
LEMMA FlagMoves ==
  ASSUME [Next]_vars
  PROVE  \/ UNCHANGED reachable \/ UNCHANGED th
         \/ \E t \in Threads : Return(t)
<1>1. ASSUME NEW t \in Threads, Step(t) \/ Trouble(t), ~Return(t)
      PROVE  UNCHANGED reachable
  BY <1>1 DEF Step, Trouble, SetHeader, Lookup, Build, Handshake, Exchange, DialFails,
              Refused, Alert, Dropped, Timeout, SaveFails
<1>2. ASSUME NEW t \in Threads, HealthCheck(t)
      PROVE  UNCHANGED reachable \/ UNCHANGED th
  BY <1>2 DEF HealthCheck, StartRequest
<1>3. ASSUME NEW a \in Addresses, Configure(a)  PROVE UNCHANGED reachable
  BY <1>3 DEF Configure, ConfigureTLS, ConfigureDialAddress, ClearTLS, Put
<1>4. ASSUME NEW t \in Threads, NEW op, NEW a, StartRequest(t, op, a)
      PROVE  UNCHANGED reachable
  BY <1>4 DEF StartRequest
<1>5. ASSUME NEW e, NEW cert, Restart(e, cert)  PROVE UNCHANGED reachable
  BY <1>5 DEF Restart
<1>6. ASSUME NEW x, SetToken(x) \/ Select(x)  PROVE UNCHANGED reachable
  BY <1>6 DEF SetToken, Select
<1>7. CASE UNCHANGED vars  BY <1>7 DEF vars
<1> QED  BY <1>1, <1>2, <1>3, <1>4, <1>5, <1>6, <1>7 DEF Next

\* A server whose certificate is refused is not held to be unreachable.
THEOREM RefusalNeutral == Spec => RefusalLeavesFlag
<1>1. TypeOK /\ [Next]_vars =>
        [\A t \in Threads :
           th[t].pc = "done" /\ th'[t].pc = "idle" /\ th[t].err = <<"url", "verify">>
             => reachable' = reachable]_vars
  <2> SUFFICES ASSUME TypeOK, [Next]_vars, NEW t \in Threads,
                      th[t].pc = "done", th'[t].pc = "idle",
                      th[t].err = <<"url", "verify">>
               PROVE  reachable' = reachable
    OBVIOUS
  <2>1. th \in [Threads -> Request] /\ reachable \in BOOLEAN  BY DEF TypeOK
  <2>2. CASE \E u \in Threads : Return(u)
    <3>1. PICK u \in Threads : Return(u)  BY <2>2
    <3>2. u = t  BY <2>1, <3>1 DEF Return, Now
    <3>3. th[t].err # <<>>  OBVIOUS
    <3>4. reachable' = Flag(th[t].op, th[t].err)  BY <3>1, <3>2 DEF Return
    <3>5. ~IsConnectionError(th[t].err)  BY RefusalNoNetwork
    <3> QED  BY <2>1, <3>3, <3>4, <3>5 DEF Flag
  <2> QED  BY <2>2, FlagMoves
<1> QED  BY <1>1, TypeCorrect, PTL DEF Spec, RefusalLeavesFlag

================================================================================
