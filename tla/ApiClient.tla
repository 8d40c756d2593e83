------------------------------- MODULE ApiClient -------------------------------
(***************************************************************************)
(* The HTTPS client all services share: src/api/client.go, and doRaw of     *)
(* src/api/vault.go.  One TLS configuration and one cached http.Client per  *)
(* server address, both under a read-write lock; trust on first use of the  *)
(* server's key; and one reachability flag, which every request and the     *)
(* health probe move.                                                      *)
(*                                                                         *)
(* A section under the lock is one step.  Between two steps of a goroutine  *)
(* the configuration may change, the server may restart with another key,   *)
(* and other goroutines may send requests.  Token is read without the lock. *)
(***************************************************************************)
EXTENDS Integers, Sequences, FiniteSets

CONSTANTS
  Threads,     \* goroutines that use the client
  Addresses,   \* server addresses, keys of tlsConfigs and clients
  Endpoints,   \* TCP endpoints
  Home,        \* Home[a]: the endpoint the address a itself resolves to
  Certs,       \* certificates servers may present: [key, valid]
  Configs,     \* TLS configurations callers pass to ConfigureTLS
  None,        \* empty fingerprint, dial address, key, token; no server selected
  Ops,         \* the operations that are called
  MaxConfigs,  \* bound: configuration changes of one address
  Faults       \* what may go wrong

\* "do": Get, Query, Post, ... with a token; "public": without; "raw": doRaw;
\* "probe": CheckReachability.
\* "slow":   a request is not answered in time;
\* "alert":  the server ends the handshake;
\* "drop":   the server closes the connection without an answer;
\* "save":   OnFirstTrust returns an error;
\* "logout": the token is cleared.

Keys == {c.key : c \in Certs}
Config == [set : BOOLEAN, fp : Keys \cup {None}, onTrust : BOOLEAN,
           dial : Endpoints \cup {None}]
NoConfig == [set |-> FALSE, fp |-> None, onTrust |-> FALSE, dial |-> None]

ASSUME ApiClientAssumption ==
  /\ None \notin Endpoints \cup Keys \cup Addresses \cup Certs
  /\ Home \in [Addresses -> Endpoints]
  /\ \A c \in Certs : DOMAIN c = {"key", "valid"} /\ c.valid \in BOOLEAN
  /\ Configs \subseteq {config \in Config : config.set}
  /\ Ops \subseteq {"do", "public", "raw", "probe"}
  /\ MaxConfigs \in Nat
  /\ Faults \subseteq {"slow", "alert", "drop", "save", "logout"}

VARIABLES
  tls,        \* tlsConfigs[a], or NoConfig
  clients,    \* clients[a]: index in built, or 0
  built,      \* every http.Client built, with the key of its open connection
  reachable,  \* the flag
  token,      \* the session token, or None
  selected,   \* the address of the selected remote source, or None
  server,     \* server[e]: the certificate presented at endpoint e, None: down
  th,         \* th[t]: the request goroutine t is making
  version,    \* history: configuration changes of an address
  reports     \* history: the keys passed to OnFirstTrust, by address and version

vars == <<tls, clients, built, reachable, token, selected, server, th, version,
          reports>>

--------------------------------------------------------------------------------
Authenticated(op) == op \in {"do", "raw"}

Pcs == {"idle", "header", "lookup", "build", "send", "done"}
Layers == {"url", "op", "dns", "net", "errno", "verify", "save", "alert", "eof"}
Request == [pc : Pcs, op : {"do", "public", "raw", "probe"},
            addr : Addresses \cup {None}, start : Nat, client : Nat,
            token : {"session", None}, peer : Keys \cup {None}, err : Seq(Layers)]
Idle == [pc |-> "idle", op |-> "do", addr |-> None, start |-> 0, client |-> 0,
         token |-> None, peer |-> None, err |-> <<>>]

Init ==
  /\ tls = [a \in Addresses |-> NoConfig]
  /\ clients = [a \in Addresses |-> 0]
  /\ built = <<>>
  /\ reachable = FALSE
  /\ token = None
  /\ selected = None
  /\ server \in [Endpoints -> Certs \cup {None}]
  /\ th = [t \in Threads |-> Idle]
  /\ version = [a \in Addresses |-> 0]
  /\ reports = {}

--------------------------------------------------------------------------------
(* Configuration *)

Put(a, config) ==
  /\ version[a] < MaxConfigs
  /\ version' = [version EXCEPT ![a] = @ + 1]
  /\ tls' = [tls EXCEPT ![a] = config]
  /\ UNCHANGED <<built, reachable, token, selected, server, th, reports>>

\* The dial address registered before stays when the new configuration has none.
Merged(a, config) ==
  IF config.dial = None THEN [config EXCEPT !.dial = tls[a].dial] ELSE config

\* Faulty ConfigureTLS: the client built with the old configuration stays.
ConfigureTLSKeepsClient(a, config) ==
  /\ Put(a, Merged(a, config))
  /\ UNCHANGED clients

ConfigureTLS(a, config) ==
  /\ Put(a, Merged(a, config))
  /\ clients' = [clients EXCEPT ![a] = 0]

\* On an address without configuration this makes one that trusts nobody.
Dialed(a, dial) ==
  [set |-> TRUE, fp |-> tls[a].fp, onTrust |-> tls[a].onTrust, dial |-> dial]

\* Faulty ConfigureDialAddress: the client built with the old address stays.
ConfigureDialAddressKeepsClient(a, dial) ==
  /\ Put(a, Dialed(a, dial))
  /\ UNCHANGED clients

ConfigureDialAddress(a, dial) ==
  /\ Put(a, Dialed(a, dial))
  /\ clients' = [clients EXCEPT ![a] = 0]

ClearTLS(a) ==
  /\ tls[a].set
  /\ Put(a, NoConfig)
  /\ clients' = [clients EXCEPT ![a] = 0]

SetToken(x) ==
  /\ token' = x
  /\ UNCHANGED <<tls, clients, built, reachable, selected, server, th, version,
                 reports>>

\* The application selects a source of truth; None stands for a local one.
Select(a) ==
  /\ selected' = a
  /\ UNCHANGED <<tls, clients, built, reachable, token, server, th, version,
                 reports>>

--------------------------------------------------------------------------------
(* Requests *)

Now(t, request) == th' = [th EXCEPT ![t] = request]

StartRequest(t, op, a) ==
  /\ th[t].pc = "idle"
  /\ Authenticated(op) => token # None
  /\ Now(t, [Idle EXCEPT !.op = op, !.addr = a, !.start = version[a],
                          !.pc = IF Authenticated(op) THEN "header" ELSE "lookup"])
  /\ UNCHANGED <<tls, clients, built, reachable, token, selected, server, version,
                 reports>>

\* health.Service.CheckReachability.
HealthCheck(t) ==
  \/ "probe" \in Ops /\ selected # None /\ StartRequest(t, "probe", selected)
  \/ /\ selected = None
     /\ th[t].pc = "idle"
     /\ reachable' = FALSE
     /\ UNCHANGED <<tls, clients, built, token, selected, server, th, version, reports>>

\* The token is read a second time for the header.
SetHeader(t) ==
  /\ th[t].pc = "header"
  /\ Now(t, [th[t] EXCEPT !.pc = "lookup", !.token = token])
  /\ UNCHANGED <<tls, clients, built, reachable, token, selected, server, version,
                 reports>>

\* Faulty Lookup: what the map holds is used as it is.
LookupUnchecked(t) ==
  /\ th[t].pc = "lookup"
  /\ Now(t, [th[t] EXCEPT !.client = clients[th[t].addr], !.pc = "send"])
  /\ UNCHANGED <<tls, clients, built, reachable, token, selected, server, version,
                 reports>>

\* httpClient under the read lock.
Lookup(t) ==
  /\ th[t].pc = "lookup"
  /\ LET id == clients[th[t].addr]
     IN  Now(t, [th[t] EXCEPT !.client = id,
                              !.pc = IF id = 0 THEN "build" ELSE "send"])
  /\ UNCHANGED <<tls, clients, built, reachable, token, selected, server, version,
                 reports>>

Client == [addr : Addresses, version : Nat, config : Config,
           conn : Keys \cup {None}]
New(a) == [addr |-> a, version |-> version[a], config |-> tls[a], conn |-> None]

\* Faulty Build: the map is not looked at again under the write lock.
BuildNoRecheck(t) ==
  LET a == th[t].addr
      id == Len(built) + 1
  IN  /\ th[t].pc = "build"
      /\ \/ /\ ~tls[a].set
            /\ Now(t, Idle)
            /\ UNCHANGED <<clients, built>>
         \/ /\ tls[a].set
            /\ built' = Append(built, New(a))
            /\ clients' = [clients EXCEPT ![a] = id]
            /\ Now(t, [th[t] EXCEPT !.client = id, !.pc = "send"])
      /\ UNCHANGED <<tls, reachable, token, selected, server, version, reports>>

\* httpClient under the write lock: another goroutine may have built the client.
Build(t) ==
  LET a == th[t].addr
      id == Len(built) + 1
  IN  /\ th[t].pc = "build"
      /\ \/ /\ clients[a] # 0
            /\ Now(t, [th[t] EXCEPT !.client = clients[a], !.pc = "send"])
            /\ UNCHANGED <<clients, built>>
         \/ /\ clients[a] = 0 /\ ~tls[a].set
            /\ Now(t, Idle)
            /\ UNCHANGED <<clients, built>>
         \/ /\ clients[a] = 0 /\ tls[a].set
            /\ built' = Append(built, New(a))
            /\ clients' = [clients EXCEPT ![a] = id]
            /\ Now(t, [th[t] EXCEPT !.client = id, !.pc = "send"])
      /\ UNCHANGED <<tls, reachable, token, selected, server, version, reports>>

Endpoint(client) ==
  IF client.config.dial = None THEN Home[client.addr] ELSE client.config.dial

Answered(t, key) == Now(t, [th[t] EXCEPT !.pc = "done", !.peer = key])
\* http.Client.Do wraps what went wrong, the rest of the chain, in a url.Error.
Failed(t, cause) ==
  Now(t, [th[t] EXCEPT !.pc = "done", !.err = <<"url">> \o cause])

DialFails(t) ==
  /\ th[t].pc = "send"
  /\ server[Endpoint(built[th[t].client])] = None
  /\ Failed(t, <<"op", "errno">>)
  /\ UNCHANGED <<tls, clients, built, reachable, token, selected, server, version,
                 reports>>

\* verifyTLSConnection: is the certificate accepted, refused, or new?
Verdict(config, cert) ==
  IF ~cert.valid \/ (config.fp = None /\ ~config.onTrust) THEN "refused"
  ELSE IF config.fp = None THEN "new"
  ELSE IF config.fp = cert.key THEN "accepted" ELSE "refused"

\* Faulty Handshake: OnFirstTrust is not called.
HandshakeUnreported(t) ==
  LET id == th[t].client
      client == built[id]
      cert == server[Endpoint(client)]
  IN  /\ th[t].pc = "send"
      /\ cert # None
      /\ Verdict(client.config, cert) # "refused"
      /\ UNCHANGED reports
      /\ built' = [built EXCEPT ![id].conn = cert.key]
      /\ UNCHANGED <<tls, clients, reachable, token, selected, server, th, version>>

\* The transport opens a connection; a new key goes to OnFirstTrust first.
Handshake(t) ==
  LET id == th[t].client
      client == built[id]
      cert == server[Endpoint(client)]
  IN  /\ th[t].pc = "send"
      /\ cert # None
      /\ Verdict(client.config, cert) # "refused"
      /\ reports' = IF Verdict(client.config, cert) = "new"
                    THEN reports \cup {<<client.addr, client.version, cert.key>>}
                    ELSE reports
      /\ built' = [built EXCEPT ![id].conn = cert.key]
      /\ UNCHANGED <<tls, clients, reachable, token, selected, server, th, version>>

Refused(t) ==
  LET client == built[th[t].client]
      cert == server[Endpoint(client)]
  IN  /\ th[t].pc = "send"
      /\ cert # None
      /\ Verdict(client.config, cert) = "refused"
      /\ Failed(t, <<"verify">>)
      /\ UNCHANGED <<tls, clients, built, reachable, token, selected, server, version,
                     reports>>

\* OnFirstTrust was called and returned an error, which verifyTLSConnection wraps.
SaveFails(t) ==
  LET client == built[th[t].client]
      cert == server[Endpoint(client)]
  IN  /\ "save" \in Faults
      /\ th[t].pc = "send"
      /\ cert # None
      /\ Verdict(client.config, cert) = "new"
      /\ reports' = reports \cup {<<client.addr, client.version, cert.key>>}
      /\ Failed(t, <<"verify", "save">>)
      /\ UNCHANGED <<tls, clients, built, reachable, token, selected, server, version>>

\* The request is sent over an open connection of the client, and answered.
Exchange(t) ==
  LET client == built[th[t].client]
  IN  /\ th[t].pc = "send"
      /\ client.conn # None
      /\ Answered(t, client.conn)
      /\ UNCHANGED <<tls, clients, built, reachable, token, selected, server, version,
                     reports>>

\* The server ends the handshake: crypto/tls returns the alert as a net.OpError.
Alert(t) ==
  /\ "alert" \in Faults
  /\ th[t].pc = "send"
  /\ server[Endpoint(built[th[t].client])] # None
  /\ Failed(t, <<"op", "alert">>)
  /\ UNCHANGED <<tls, clients, built, reachable, token, selected, server, version,
                 reports>>

\* The server closes the connection: the transport reports io.EOF.
Dropped(t) ==
  LET id == th[t].client
  IN  /\ "drop" \in Faults
      /\ th[t].pc = "send"
      /\ built[id].conn # None
      /\ built' = [built EXCEPT ![id].conn = None]
      /\ Failed(t, <<"eof">>)
      /\ UNCHANGED <<tls, clients, reachable, token, selected, server, version, reports>>

\* The time limit of the client or of the probe passes.
Timeout(t) ==
  /\ "slow" \in Faults
  /\ th[t].pc = "send"
  /\ Failed(t, <<"net">>)
  /\ UNCHANGED <<tls, clients, built, reachable, token, selected, server, version,
                 reports>>

\* Faulty isConnectionError: a url.Error is itself a net.Error.
IsConnectionErrorOuter(err) ==
  \E i \in DOMAIN err : err[i] \in {"url", "op", "dns", "net", "errno"}

\* isConnectionError: the chain below the last url.Error holds a network error.
IsConnectionError(err) ==
  \E i \in DOMAIN err :
    /\ err[i] \in {"op", "dns", "net", "errno"}
    /\ \A j \in i..Len(err) : err[j] # "url"

\* What the end of a request makes of the flag: doRaw leaves it alone.
Flag(op, err) ==
  IF op = "raw" THEN reachable
  ELSE IF err = <<>> THEN TRUE
  ELSE reachable /\ ~IsConnectionError(err)

\* Faulty Return: an answered probe does not set the flag.
ReturnProbeSilent(t) ==
  /\ th[t].pc = "done"
  /\ reachable' = IF th[t].op = "probe" /\ th[t].err = <<>> THEN reachable
                  ELSE Flag(th[t].op, th[t].err)
  /\ Now(t, Idle)
  /\ UNCHANGED <<tls, clients, built, token, selected, server, version, reports>>

\* The end of do, doRaw and CheckReachability, with SetReachable.
Return(t) ==
  /\ th[t].pc = "done"
  /\ reachable' = Flag(th[t].op, th[t].err)
  /\ Now(t, Idle)
  /\ UNCHANGED <<tls, clients, built, token, selected, server, version, reports>>

--------------------------------------------------------------------------------
\* A server stops, starts, or starts again with another certificate: the
\* connections to it are closed.
Restart(e, cert) ==
  /\ server[e] # cert
  /\ server' = [server EXCEPT ![e] = cert]
  /\ built' = [id \in DOMAIN built |->
                 IF Endpoint(built[id]) = e THEN [built[id] EXCEPT !.conn = None]
                 ELSE built[id]]
  /\ UNCHANGED <<tls, clients, reachable, token, selected, th, version, reports>>

Configure(a) ==
  \/ \E config \in Configs : ConfigureTLS(a, config)
  \/ \E dial \in Endpoints \cup {None} : ConfigureDialAddress(a, dial)
  \/ ClearTLS(a)

\* A step of a request that meets no trouble but a server that is down.
Step(t) ==
  \/ SetHeader(t) \/ Lookup(t) \/ Build(t)
  \/ Handshake(t) \/ Exchange(t) \/ DialFails(t) \/ Refused(t)
  \/ Return(t)

Trouble(t) == Alert(t) \/ Dropped(t) \/ Timeout(t) \/ SaveFails(t)

Next ==
  \/ \E a \in Addresses : Configure(a)
  \/ token = None /\ (\E op \in Ops : Authenticated(op)) /\ SetToken("session")
  \/ "logout" \in Faults /\ token # None /\ SetToken(None)
  \/ \E a \in Addresses \cup {None} : selected # a /\ Select(a)
  \/ \E t \in Threads :
       \/ \E op \in Ops \ {"probe"}, a \in Addresses : StartRequest(t, op, a)
       \/ HealthCheck(t)
       \/ Step(t) \/ Trouble(t)
  \/ \E e \in Endpoints, cert \in Certs \cup {None} : Restart(e, cert)

Spec == Init /\ [][Next]_vars

\* Requests go on, the application polls the health check, and from some time on
\* no request times out and no handshake is cut.
Fairness ==
  /\ \A t \in Threads : WF_vars(Step(t))
  /\ SF_vars(\E t \in Threads : HealthCheck(t))
  /\ <>[][\A t \in Threads : ~Trouble(t)]_vars

FairSpec == Spec /\ Fairness

--------------------------------------------------------------------------------
(* Properties *)

\* The state has its shape.
TypeOK ==
  /\ tls \in [Addresses -> Config]
  /\ built \in Seq(Client)
  /\ clients \in [Addresses -> 0..Len(built)]
  /\ reachable \in BOOLEAN
  /\ token \in {"session", None}
  /\ selected \in Addresses \cup {None}
  /\ server \in [Endpoints -> Certs \cup {None}]
  /\ version \in [Addresses -> 0..MaxConfigs]
  /\ reports \subseteq Addresses \X Nat \X Keys
  /\ th \in [Threads -> Request]
  /\ \A t \in Threads :
       /\ th[t].pc # "idle" => th[t].addr \in Addresses
       /\ th[t].pc \in {"send", "done"} => th[t].client \in DOMAIN built

\* A cached client was built with the configuration now in force: it pins the
\* fingerprint and dials the endpoint the application last asked for.
CacheMatchesConfig ==
  \A a \in Addresses :
    clients[a] # 0 => /\ built[clients[a]].addr = a
                      /\ built[clients[a]].config = tls[a]

\* Goroutines that find no client at the same time share the one that is built:
\* one pool of connections per configuration.
OneClientPerConfig ==
  \A i, j \in DOMAIN built :
    built[i].addr = built[j].addr /\ built[i].version = built[j].version => i = j

\* A request is answered only under a configuration in force since the call
\* began, by a server whose key that configuration accepts: once ConfigureTLS has
\* returned, no new request is served under what it replaced.
AnsweredUnderCurrentTrust ==
  \A t \in Threads :
    th[t].peer # None =>
      LET client == built[th[t].client]
      IN  /\ client.version >= th[t].start
          /\ client.config.fp \in {None, th[t].peer}

\* Without a pinned fingerprint, the caller's OnFirstTrust has seen the key of a
\* server before any request to it is answered.
AnsweredKeyReported ==
  \A t \in Threads :
    th[t].peer # None =>
      LET client == built[th[t].client]
      IN  client.config.fp = None =>
            <<client.addr, client.version, th[t].peer>> \in reports

\* A certificate that verifyTLSConnection refuses leaves the flag unchanged.
RefusalLeavesFlag ==
  [][\A t \in Threads :
       th[t].pc = "done" /\ th'[t].pc = "idle" /\ th[t].err = <<"url", "verify">>
         => reachable' = reachable]_vars

\* As long as all requests go to the selected server, the flag settles: when that
\* server stays up and trusted it becomes true for good, and when it stays down, or
\* the selected source is local, false for good.
Target(a) == IF tls[a].dial = None THEN Home[a] ELSE tls[a].dial
Aimed == \A t \in Threads : th[t].pc # "idle" => th[t].addr = selected
Serving ==
  \E a \in Addresses :
    /\ selected = a /\ tls[a].set
    /\ server[Target(a)] # None
    /\ Verdict(tls[a], server[Target(a)]) # "refused"
Dark ==
  \/ selected = None
  \/ \E a \in Addresses :
       selected = a /\ tls[a].set /\ server[Target(a)] = None
ReachabilitySettles ==
  /\ <>[](Aimed /\ Serving) => <>[]reachable
  /\ <>[](Aimed /\ Dark) => <>[]~reachable

--------------------------------------------------------------------------------
(* The inductive invariant behind the trust properties (see ApiClientProofs). *)

\* The key is accepted by the configuration of client, and known to the caller.
Trusted(client, key) ==
  /\ client.config.fp \in {None, key}
  /\ client.config.fp = None => <<client.addr, client.version, key>> \in reports

\* A client of the configuration in force is the one in the map.
CacheInv ==
  /\ \A a \in Addresses :
       clients[a] # 0 => /\ built[clients[a]].addr = a
                         /\ built[clients[a]].config = tls[a]
                         /\ built[clients[a]].version = version[a]
  /\ \A i \in DOMAIN built :
       /\ built[i].version <= version[built[i].addr]
       /\ built[i].version = version[built[i].addr] => clients[built[i].addr] = i

ConnInv ==
  \A i \in DOMAIN built : built[i].conn # None => Trusted(built[i], built[i].conn)

RequestInv ==
  \A t \in Threads :
    /\ th[t].pc # "idle" => th[t].start <= version[th[t].addr]
    /\ th[t].pc \in {"send", "done"} =>
         /\ built[th[t].client].addr = th[t].addr
         /\ built[th[t].client].version >= th[t].start
    /\ th[t].peer # None =>
         th[t].pc = "done" /\ Trusted(built[th[t].client], th[t].peer)

ClientInv == TypeOK /\ CacheInv /\ OneClientPerConfig /\ ConnInv /\ RequestInv

--------------------------------------------------------------------------------
(* What comments of the source say, and the code does not do. *)

\* "TLS or local errors leave it unchanged": a handshake that fails, for whatever
\* reason, does not move the flag.
HandshakeErrorsLeaveFlag ==
  [][\A t \in Threads :
       /\ th[t].pc = "done" /\ th'[t].pc = "idle"
       /\ \E i \in DOMAIN th[t].err : th[t].err[i] = "alert"
         => reachable' = reachable]_vars

\* "authentication token is required": no authenticated request goes out with an
\* empty one.
SentWithToken ==
  \A t \in Threads :
    th[t].pc \in {"lookup", "build", "send", "done"} /\ Authenticated(th[t].op) =>
      th[t].token # None

================================================================================
