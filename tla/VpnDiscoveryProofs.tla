-------------------------- MODULE VpnDiscoveryProofs --------------------------
(***************************************************************************)
(* Proofs about VpnDiscovery, for any subnets, workers and capacity.        *)
(***************************************************************************)
EXTENDS VpnDiscovery, FiniteSetTheorems, FunctionTheorems, SequenceTheorems,
        WellFoundedInduction, TLAPS

--------------------------------------------------------------------------------
(* Facts about the hosts and the pools of workers *)

LEMMA HostFacts ==
  /\ Len(Hosts) \in Nat /\ Subnets = 1 .. Len(Hosts)
  /\ \A k \in Subnets :
       /\ Len(Hosts[k]) \in Nat /\ DOMAIN Hosts[k] = 1 .. Len(Hosts[k])
       /\ PoolSize(k) \in Nat
       /\ \A i \in DOMAIN Hosts[k] : Hosts[k][i] \in AllHosts
       /\ Hosts[k] # <<>> => Len(Hosts[k]) > 0
<1>1. Hosts \in Seq(Seq(AllHosts)) /\ Workers \in Nat  BY VpnDiscoveryAssumption
<1>2. Len(Hosts) \in Nat /\ Subnets = 1 .. Len(Hosts)  BY <1>1 DEF Subnets
<1>3. ASSUME NEW k \in Subnets  PROVE Hosts[k] \in Seq(AllHosts)
  BY <1>1, <1>2
<1>4. ASSUME NEW k \in Subnets
      PROVE  /\ Len(Hosts[k]) \in Nat /\ DOMAIN Hosts[k] = 1 .. Len(Hosts[k])
             /\ \A i \in DOMAIN Hosts[k] : Hosts[k][i] \in AllHosts
             /\ Hosts[k] # <<>> => Len(Hosts[k]) > 0
  BY <1>3, <1>4
<1>5. ASSUME NEW k \in Subnets  PROVE PoolSize(k) \in Nat
  BY <1>1, <1>4, <1>5 DEF PoolSize
<1> QED  BY <1>2, <1>4, <1>5

LEMMA PoolFacts ==
  ASSUME NEW k \in Subnets
  PROVE  /\ IsFiniteSet(Pool(k)) /\ Cardinality(Pool(k)) = PoolSize(k)
         /\ Pool(k) \subseteq Worker
         /\ \A w \in Pool(k) : w[1] = k
<1> DEFINE f == [i \in 1 .. PoolSize(k) |-> <<k, i>>]
<1>1. PoolSize(k) \in Nat  BY HostFacts
<1>2. IsFiniteSet(1 .. PoolSize(k)) /\ Cardinality(1 .. PoolSize(k)) = PoolSize(k)
  BY <1>1, FS_Interval
<1>3. f \in Bijection(1 .. PoolSize(k), Pool(k))
  BY DEF Bijection, Injection, Surjection, IsInjective, Pool
<1>4. ExistsBijection(1 .. PoolSize(k), Pool(k))  BY <1>3 DEF ExistsBijection
<1>5. IsFiniteSet(Pool(k)) /\ Cardinality(Pool(k)) = PoolSize(k)
  BY <1>2, <1>4, FS_Bijection
<1> QED  BY <1>5 DEF Worker, Pool

LEMMA WorkerFacts == \A w \in Worker : w[1] \in Subnets /\ w \in Pool(w[1])
BY DEF Worker, Pool

--------------------------------------------------------------------------------
(* What the steps of a worker do to the pool *)

Active == {"idle", "query", "send"}

LEMMA StateFacts ==
  /\ Idle \in WorkerState /\ Gone \in WorkerState /\ NotStarted \in WorkerState
  /\ Idle.pc = "idle" /\ Gone.pc = "gone" /\ NotStarted.pc = "none"
  /\ \A h \in AllHosts : Query(h) \in WorkerState /\ Query(h).pc = "query"
  /\ \A a \in Answers : Sending(a) \in WorkerState /\ Sending(a).pc = "send"
  /\ \A s \in WorkerState : s.pc = "query" => s.host \in AllHosts
  /\ \A s \in WorkerState :
       s.pc = "send" => s.answer \in Answers /\ s = Sending(s.answer)
<1>1. Idle \in WorkerState /\ Gone \in WorkerState /\ NotStarted \in WorkerState
  BY DEF WorkerState
<1>2. Idle.pc = "idle" /\ Gone.pc = "gone" /\ NotStarted.pc = "none"
  BY DEF Idle, Gone, NotStarted
<1>3. \A h : Query(h).pc = "query" /\ Query(h).host = h  BY DEF Query
<1>4. \A a : Sending(a).pc = "send" /\ Sending(a).answer = a  BY DEF Sending
<1>5. \A h \in AllHosts : Query(h) \in WorkerState  BY Zenon DEF WorkerState
<1>6. \A a \in Answers : Sending(a) \in WorkerState  BY Zenon DEF WorkerState
<1>7. ASSUME NEW s \in WorkerState
      PROVE  \/ s \in {NotStarted, Idle, Gone}
             \/ \E h \in AllHosts : s = Query(h)
             \/ \E a \in Answers : s = Sending(a)
  BY Zenon DEF WorkerState
<1>8. \A s \in WorkerState : s.pc = "query" => s.host \in AllHosts
  BY <1>2, <1>3, <1>4, <1>7
<1>9. \A s \in WorkerState :
        s.pc = "send" => s.answer \in Answers /\ s = Sending(s.answer)
  BY <1>2, <1>3, <1>4, <1>7
<1> QED  BY <1>1, <1>2, <1>3, <1>4, <1>5, <1>6, <1>8, <1>9

\* A worker that goes on.
LEMMA Moves ==
  ASSUME ScanInv, NEW w \in Worker, NEW s \in WorkerState,
         worker[w].pc \in Active, s.pc \in Active,
         worker' = [worker EXCEPT ![w] = s]
  PROVE  /\ worker' \in [Worker -> WorkerState]
         /\ worker'[w] = s /\ \A v \in Worker \ {w} : worker'[v] = worker[v]
         /\ Running' = Running /\ Running # {}
<1>1. worker \in [Worker -> WorkerState]  BY DEF ScanInv, TypeOK
<1>2. /\ worker' \in [Worker -> WorkerState]
      /\ worker'[w] = s /\ \A v \in Worker \ {w} : worker'[v] = worker[v]
  BY <1>1
<1> QED  BY <1>2 DEF Running, Active

\* A worker that ends.
LEMMA Exits ==
  ASSUME ScanInv, NEW w \in Worker, worker[w].pc \in Active, Exit(w)
  PROVE  /\ worker' \in [Worker -> WorkerState]
         /\ worker'[w] = Gone /\ \A v \in Worker \ {w} : worker'[v] = worker[v]
         /\ IsFiniteSet(Running') /\ wg' = Cardinality(Running')
         /\ wg' \in Nat /\ Running # {}
<1>1. worker \in [Worker -> WorkerState]  BY DEF ScanInv, TypeOK
<1>2. /\ worker' \in [Worker -> WorkerState]
      /\ worker'[w] = Gone /\ \A v \in Worker \ {w} : worker'[v] = worker[v]
  BY <1>1, StateFacts DEF Exit
<1>3. w \in Running /\ Running' = Running \ {w}
  BY <1>2, StateFacts DEF Running, Active
<1>4. IsFiniteSet(Running) /\ wg = Cardinality(Running)  BY DEF ScanInv, CloseInv
<1>5. IsFiniteSet(Running') /\ Cardinality(Running') = wg - 1
  BY <1>3, <1>4, FS_RemoveElement
<1>6. Cardinality(Running') \in Nat  BY <1>5, FS_CardinalityType
<1> QED  BY <1>2, <1>3, <1>5, <1>6 DEF Exit

--------------------------------------------------------------------------------
LEMMA ScanInit == Init => ScanInv
<1> SUFFICES ASSUME Init PROVE ScanInv  OBVIOUS
<1>1. TypeOK
  <2>1. worker \in [Worker -> WorkerState]  BY StateFacts DEF Init
  <2>2. results \in Seq(Answers) /\ Len(results) <= Cap
    BY VpnDiscoveryAssumption DEF Init
  <2>3. found \in [Keys -> AllHosts \cup {None}]  BY DEF Init
  <2>4. jobs \in [Subnets -> {"none", "open", "closed"}]  BY DEF Init
  <2>5. main \in [pc : {"subnet", "feed", "collect", "done"}, subnet : Nat \ {0},
                  next : Nat \ {0}]
    BY DEF Init
  <2>6. silent \subseteq MaySilent /\ wg \in Nat /\ closed \in BOOLEAN /\ late \in BOOLEAN
        /\ asked = {} /\ answered = {}
    BY DEF Init
  <2> QED  BY <2>1, <2>2, <2>3, <2>4, <2>5, <2>6 DEF TypeOK
<1>2. MainInv  BY HostFacts DEF Init, MainInv
<1>3. Running = {}  BY DEF Init, Running, NotStarted
<1>4. CloseInv  BY <1>3, FS_EmptySet DEF Init, CloseInv
<1>5. AskedInv  BY HostFacts DEF Init, AskedInv
<1>6. AnswerInv  BY DEF Init, AnswerInv, NotStarted
<1> QED  BY <1>1, <1>2, <1>4, <1>5, <1>6 DEF ScanInv

\* The steps of main that start or end a subnet.
LEMMA SpawnStep == ScanInv /\ Spawn => ScanInv'
<1> SUFFICES ASSUME ScanInv, Spawn PROVE ScanInv'  OBVIOUS
<1> DEFINE k == main.subnet
<1>0. /\ k \in Subnets /\ main.pc = "subnet" /\ Hosts[k] # <<>>
      /\ main' = [pc |-> "feed", subnet |-> k, next |-> 1]
      /\ UNCHANGED <<silent, results, closed, late, found, asked, answered>>
  BY DEF Spawn, At, channels, history
<1>1. /\ IsFiniteSet(Pool(k)) /\ Cardinality(Pool(k)) = PoolSize(k)
      /\ Pool(k) \subseteq Worker /\ PoolSize(k) \in Nat
      /\ \A w \in Pool(k) : worker[w] = NotStarted
  BY <1>0, PoolFacts, HostFacts DEF ScanInv, MainInv
<1>2. \A w \in Worker : worker'[w] = IF w \in Pool(k) THEN Idle ELSE worker[w]
  BY DEF Spawn
<1>3. worker' \in [Worker -> WorkerState]
  BY StateFacts DEF Spawn, ScanInv, TypeOK
<1>4. Running' = Running \cup Pool(k) /\ Running \cap Pool(k) = {}
  BY <1>1, <1>2, StateFacts DEF Running
<1>5. /\ IsFiniteSet(Running) /\ wg = Cardinality(Running) /\ wg \in Nat
      /\ wg' = wg + PoolSize(k)
  BY DEF ScanInv, CloseInv, TypeOK, Spawn
<1>6. IsFiniteSet(Running') /\ wg' = Cardinality(Running') /\ wg' \in Nat
  <2>1. Cardinality({}) = 0  BY FS_EmptySet
  <2> DEFINE P == Pool(k)
  <2>2. /\ IsFiniteSet(Running) /\ IsFiniteSet(P)
        /\ Cardinality(P) = PoolSize(k) /\ Cardinality(Running \cap P) = 0
        /\ Running' = Running \cup P
    BY <1>1, <1>4, <1>5, <2>1
  <2> HIDE DEF P
  <2>3. /\ IsFiniteSet(Running \cup P)
        /\ Cardinality(Running \cup P)
             = Cardinality(Running) + Cardinality(P) - Cardinality(Running \cap P)
    BY <2>2, FS_Union
  <2> QED  BY <1>1, <1>5, <2>2, <2>3
<1>7. TypeOK'
  <2>1. jobs' \in [Subnets -> {"none", "open", "closed"}]
    BY DEF ScanInv, TypeOK, Spawn
  <2>2. main' \in [pc : {"subnet", "feed", "collect", "done"}, subnet : Nat \ {0},
                   next : Nat \ {0}]
    BY <1>0, HostFacts
  <2> QED  BY <1>0, <1>3, <1>6, <2>1, <2>2 DEF ScanInv, TypeOK
<1>8. MainInv'
  <2>1. \A w \in Worker : w[1] > k => w \notin Pool(k)
    BY <1>0, PoolFacts, HostFacts
  <2>2. \A w \in Worker : w[1] > k => worker'[w] = NotStarted
    BY <1>2, <2>1 DEF ScanInv, MainInv
  <2> QED  BY <1>0, <2>2, HostFacts DEF MainInv
<1>9. CloseInv'  BY <1>0, <1>6 DEF ScanInv, CloseInv
<1>10. AskedInv'  BY <1>0, HostFacts DEF ScanInv, AskedInv
<1>11. AnswerInv'
  <2>1. \A w \in Worker :
          worker'[w].pc = "send" => w \notin Pool(k) /\ worker'[w] = worker[w]
    BY <1>2, StateFacts
  <2>2. \A a : \A w \in Worker :
          worker[w] = Sending(a) => worker'[w] = Sending(a)
    BY <1>1, <1>2 DEF NotStarted, Sending
  <2> QED  BY <1>0, <2>1, <2>2 DEF ScanInv, AnswerInv
<1> QED  BY <1>7, <1>8, <1>9, <1>10, <1>11 DEF ScanInv

\* The steps of main between and after the subnets.
LEMMA MainOnly ==
  ASSUME ScanInv,
         UNCHANGED <<silent, worker, wg, results, closed, late, found, asked, answered>>,
         jobs' \in [Subnets -> {"none", "open", "closed"}],
         main' \in [pc : {"subnet", "feed", "collect", "done"}, subnet : Nat \ {0},
                    next : Nat \ {0}],
         MainInv', AskedInv', closed => main'.pc \in {"collect", "done"},
         main'.pc = "done" => closed /\ results = <<>>
  PROVE  ScanInv'
<1>1. TypeOK'  BY DEF ScanInv, TypeOK
<1>2. CloseInv'  BY DEF ScanInv, CloseInv, Running
<1>3. AnswerInv'  BY DEF ScanInv, AnswerInv
<1> QED  BY <1>1, <1>2, <1>3 DEF ScanInv

LEMMA MainSteps ==
  ScanInv /\ (SkipSubnet \/ GiveUp \/ CloseJobs \/ StartCollecting \/ Return) => ScanInv'
<1> SUFFICES ASSUME ScanInv,
                    SkipSubnet \/ GiveUp \/ CloseJobs \/ StartCollecting \/ Return
             PROVE  ScanInv'
  OBVIOUS
<1>0. UNCHANGED <<silent, worker, wg, results, closed, late, found, asked, answered>>
  BY DEF SkipSubnet, GiveUp, CloseJobs, StartCollecting, Return, channels, history
<1>1. jobs' \in [Subnets -> {"none", "open", "closed"}]
  BY DEF ScanInv, TypeOK, SkipSubnet, GiveUp, CloseJobs, StartCollecting, Return
<1>2. /\ main.subnet \in 1 .. Len(Hosts) + 1
      /\ main.pc = "feed" => /\ main.subnet \in Subnets
                             /\ main.next \in 1 .. Len(Hosts[main.subnet]) + 1
      /\ closed => main.pc \in {"collect", "done"}
  BY DEF ScanInv, MainInv, CloseInv
<1>3. CASE SkipSubnet
  <2>1. /\ main.pc = "subnet" /\ main.subnet \in Subnets /\ Hosts[main.subnet] = <<>>
        /\ main' = [pc |-> "subnet", subnet |-> main.subnet + 1, next |-> 1]
    BY <1>3 DEF SkipSubnet, At
  <2>2. \A i \in DOMAIN Hosts[main.subnet] : FALSE  BY <2>1
  <2>3. MainInv'  BY <1>0, <2>1, HostFacts, WorkerFacts DEF ScanInv, MainInv
  <2>4. AskedInv'  BY <1>0, <1>2, <2>1, <2>2, HostFacts DEF ScanInv, AskedInv
  <2> QED  BY <1>0, <1>1, <1>2, <2>1, <2>3, <2>4, HostFacts, MainOnly
<1>4. CASE GiveUp
  <2>1. /\ main.pc = "feed" /\ late
        /\ main' = [pc |-> "feed", subnet |-> main.subnet,
                    next |-> Len(Hosts[main.subnet]) + 1]
    BY <1>4 DEF GiveUp, Feeding, At
  <2>3. MainInv'  BY <1>0, <1>2, <2>1, HostFacts, WorkerFacts DEF ScanInv, MainInv
  <2>4. AskedInv'  BY <1>0, <2>1 DEF AskedInv
  <2> QED  BY <1>0, <1>1, <1>2, <2>1, <2>3, <2>4, HostFacts, MainOnly
<1>5. CASE CloseJobs
  <2>1. /\ main.pc = "feed" /\ main.next \notin DOMAIN Hosts[main.subnet]
        /\ main' = [pc |-> "subnet", subnet |-> main.subnet + 1, next |-> 1]
    BY <1>5 DEF CloseJobs, Feeding, At
  <2>2. main.next = Len(Hosts[main.subnet]) + 1  BY SMTT(40), <1>2, <2>1, HostFacts
  <2>3. MainInv'  BY <1>0, <1>2, <2>1, HostFacts, WorkerFacts DEF ScanInv, MainInv
  <2>4. AskedInv'  BY <1>0, <1>2, <2>1, <2>2, HostFacts DEF ScanInv, AskedInv
  <2> QED  BY <1>0, <1>1, <1>2, <2>1, <2>3, <2>4, HostFacts, MainOnly
<1>6. CASE StartCollecting
  <2>1. /\ main.pc = "subnet" /\ main.subnet = Len(Hosts) + 1
        /\ main' = [pc |-> "collect", subnet |-> main.subnet, next |-> 1]
    BY <1>2, <1>6, HostFacts DEF StartCollecting, At
  <2>3. MainInv'  BY <1>0, <1>2, <2>1, HostFacts, WorkerFacts DEF ScanInv, MainInv
  <2>4. AskedInv'  BY <1>0, <1>2, <2>1, HostFacts DEF ScanInv, AskedInv
  <2> QED  BY <1>0, <1>1, <1>2, <2>1, <2>3, <2>4, HostFacts, MainOnly
<1>7. CASE Return
  <2>1. /\ main.pc = "collect" /\ closed /\ results = <<>>
        /\ main' = [pc |-> "done", subnet |-> main.subnet, next |-> 1]
    BY <1>7 DEF Return, At
  <2>3. MainInv'  BY <1>0, <1>2, <2>1, HostFacts, WorkerFacts DEF ScanInv, MainInv
  <2>4. AskedInv'  BY <1>0, <1>2, <2>1, HostFacts DEF ScanInv, AskedInv
  <2> QED  BY <1>0, <1>1, <1>2, <2>1, <2>3, <2>4, HostFacts, MainOnly
<1> QED  BY <1>3, <1>4, <1>5, <1>6, <1>7

LEMMA HandOutStep ==
  ASSUME ScanInv, NEW w \in Worker, HandOut(w)
  PROVE  ScanInv'
<1> DEFINE k == main.subnet
           h == Hosts[k][main.next]
<1>0. /\ main.pc = "feed" /\ k \in Subnets /\ main.next \in DOMAIN Hosts[k]
      /\ w \in Pool(k) /\ worker[w] = Idle
      /\ worker' = [worker EXCEPT ![w] = Query(h)]
      /\ asked' = asked \cup {<<k, main.next>>}
      /\ main' = [pc |-> "feed", subnet |-> k, next |-> main.next + 1]
      /\ UNCHANGED <<silent, jobs, wg, results, closed, late, found, answered>>
  BY DEF HandOut, Feeding, At, channels, ScanInv, MainInv
<1>1. h \in AllHosts /\ main.next \in 1 .. Len(Hosts[k]) /\ Len(Hosts[k]) \in Nat
  BY <1>0, HostFacts
<1>2. /\ worker' \in [Worker -> WorkerState]
      /\ worker'[w] = Query(h) /\ \A v \in Worker \ {w} : worker'[v] = worker[v]
      /\ Running' = Running /\ Running # {}
  BY <1>0, <1>1, StateFacts, Moves DEF Active
<1>3. TypeOK'
  <2>1. <<k, main.next>> \in Job  BY <1>0 DEF Job
  <2>2. main' \in [pc : {"subnet", "feed", "collect", "done"}, subnet : Nat \ {0},
                   next : Nat \ {0}]
    BY SMTT(40), <1>0, <1>1, HostFacts
  <2> QED  BY <1>0, <1>2, <2>1, <2>2 DEF ScanInv, TypeOK
<1>4. MainInv'
  <2>1. w[1] = k  BY <1>0, PoolFacts
  <2> QED  BY SMTT(40), <1>0, <1>1, <1>2, <2>1, HostFacts, WorkerFacts DEF ScanInv, MainInv
<1>5. CloseInv'  BY <1>0, <1>2 DEF ScanInv, CloseInv
<1>6. AskedInv'  BY <1>0, <1>1, HostFacts DEF ScanInv, AskedInv
<1>7. AnswerInv'
  <2>1. \A v \in Worker : worker'[v].pc = "send" => worker'[v] = worker[v]
    BY <1>1, <1>2, StateFacts
  <2>2. \A a \in Answers : \A v \in Worker :
          worker[v] = Sending(a) => worker'[v] = Sending(a)
    BY <1>0, <1>2, StateFacts
  <2>3. answered \subseteq Answers  BY DEF ScanInv, TypeOK
  <2> QED  BY <1>0, <2>1, <2>2, <2>3 DEF ScanInv, AnswerInv
<1> QED  BY <1>3, <1>4, <1>5, <1>6, <1>7 DEF ScanInv

LEMMA CloseStep == ScanInv /\ CloseResults => ScanInv'
<1> SUFFICES ASSUME ScanInv, CloseResults PROVE ScanInv'  OBVIOUS
<1>0. /\ main.pc = "collect" /\ wg = 0 /\ closed' = TRUE
      /\ UNCHANGED <<silent, main, jobs, worker, wg, results, late, found, asked, answered>>
  BY DEF CloseResults, history
<1>1. Running = {}  BY <1>0, FS_EmptySet DEF ScanInv, CloseInv
<1>2. Running' = Running  BY <1>0 DEF Running
<1>3. TypeOK'  BY <1>0 DEF ScanInv, TypeOK
<1>4. MainInv'  BY <1>0 DEF ScanInv, MainInv
<1>5. CloseInv'  BY <1>0, <1>1, <1>2 DEF ScanInv, CloseInv
<1>6. AskedInv'  BY <1>0 DEF ScanInv, AskedInv
<1>7. AnswerInv'  BY <1>0 DEF ScanInv, AnswerInv
<1> QED  BY <1>3, <1>4, <1>5, <1>6, <1>7 DEF ScanInv

\* The answer at the head of the channel gets into the map, the others stay.
LEMMA ReceiveStep == ScanInv /\ Receive => ScanInv'
<1> SUFFICES ASSUME ScanInv, Receive PROVE ScanInv'  OBVIOUS
<1> DEFINE a == Head(results)
<1>0. /\ main.pc = "collect" /\ results # <<>>
      /\ found' = [found EXCEPT ![a.key] = a.host] /\ results' = Tail(results)
      /\ UNCHANGED <<silent, main, jobs, worker, wg, closed, late, asked, answered>>
  BY DEF Receive, history
<1>1. /\ results \in Seq(Answers) /\ Len(results) <= Cap /\ Len(results) > 0
      /\ Cap \in Nat /\ None \notin AllHosts
  BY <1>0, VpnDiscoveryAssumption DEF ScanInv, TypeOK
<1>2. /\ results' \in Seq(Answers) /\ Len(results') = Len(results) - 1
      /\ a \in Answers /\ a = results[1]
      /\ \A i \in 1 .. Len(results) - 1 : results'[i] = results[i + 1]
  BY <1>0, <1>1
<1>3. /\ a.key \in Keys /\ a.host \in AllHosts /\ a \in answered
      /\ a = [host |-> a.host, key |-> a.key]
  BY SMTT(40), <1>1, <1>2 DEF ScanInv, AnswerInv, Answers
<1>4. /\ found' \in [Keys -> AllHosts \cup {None}]
      /\ found'[a.key] = a.host
      /\ \A key \in Keys \ {a.key} : found'[key] = found[key]
  BY <1>0, <1>3 DEF ScanInv, TypeOK
<1>5. TypeOK'  BY <1>0, <1>1, <1>2, <1>4 DEF ScanInv, TypeOK
<1>6. MainInv'  BY <1>0 DEF ScanInv, MainInv
<1>7. CloseInv'  BY <1>0 DEF ScanInv, CloseInv, Running
<1>8. AskedInv'  BY <1>0 DEF ScanInv, AskedInv
<1>9. AnswerInv'
  <2>1. ASSUME NEW i \in DOMAIN results'  PROVE results'[i] \in answered
    <3>1. i \in 1 .. Len(results) - 1  BY <1>1, <1>2
    <3>2. i + 1 \in DOMAIN results  BY <1>1, <3>1
    <3> QED  BY <1>2, <3>1, <3>2 DEF ScanInv, AnswerInv
  <2>2. \A key \in Keys :
          found'[key] # None => [host |-> found'[key], key |-> key] \in answered
    BY <1>3, <1>4 DEF ScanInv, AnswerInv
  <2>3. ASSUME NEW b \in answered, ~late
        PROVE  \/ found'[b.key] # None
               \/ \E i \in DOMAIN results' : results'[i] = b
               \/ \E w \in Worker : worker[w] = Sending(b)
    <3>1. b.key \in Keys  BY DEF ScanInv, TypeOK, Answers
    <3>2. CASE found[b.key] # None  BY <1>1, <1>3, <1>4, <3>1, <3>2
    <3>3. CASE \E i \in DOMAIN results : results[i] = b
      <4>1. PICK i \in DOMAIN results : results[i] = b  BY <3>3
      <4>2. CASE i = 1  BY <1>1, <1>2, <1>3, <1>4, <4>1, <4>2
      <4>3. CASE i # 1
        <5>1. i - 1 \in DOMAIN results' /\ results'[i - 1] = b
          BY <1>1, <1>2, <4>1, <4>3
        <5> QED  BY <5>1
      <4> QED  BY <4>2, <4>3
    <3>4. CASE \E w \in Worker : worker[w] = Sending(b)  BY <3>4
    <3> QED  BY <2>3, <3>2, <3>3, <3>4 DEF ScanInv, AnswerInv
  <2>4. \A w \in Worker : worker[w].pc = "send" => worker[w].answer \in answered
    BY DEF ScanInv, AnswerInv
  <2> QED  BY <1>0, <2>1, <2>2, <2>3, <2>4 DEF AnswerInv
<1> QED  BY <1>5, <1>6, <1>7, <1>8, <1>9 DEF ScanInv

--------------------------------------------------------------------------------
(* The steps of a worker *)

\* What every step of a worker keeps.
LEMMA WorkerFrame ==
  ASSUME ScanInv, NEW w \in Worker, worker[w].pc \in Active,
         \A v \in Worker \ {w} : worker'[v] = worker[v],
         UNCHANGED <<main, jobs, late, asked>>
  PROVE  MainInv' /\ AskedInv'
<1>1. worker[w] # NotStarted  BY StateFacts DEF Active
<1>2. MainInv'  BY <1>1, WorkerFacts, HostFacts DEF ScanInv, MainInv
<1>3. AskedInv'  BY DEF ScanInv, AskedInv
<1> QED  BY <1>2, <1>3

LEMMA ExitStep ==
  ASSUME ScanInv, NEW w \in Worker, worker[w].pc \in Active, Exit(w),
         late \/ worker[w].pc # "send",
         UNCHANGED <<silent, main, jobs, results, closed, late, found, asked, answered>>
  PROVE  ScanInv'
<1>1. /\ worker' \in [Worker -> WorkerState]
      /\ worker'[w] = Gone /\ \A v \in Worker \ {w} : worker'[v] = worker[v]
      /\ IsFiniteSet(Running') /\ wg' = Cardinality(Running')
      /\ wg' \in Nat /\ Running # {}
  BY Exits
<1>2. TypeOK'  BY <1>1 DEF ScanInv, TypeOK
<1>3. MainInv' /\ AskedInv'  BY <1>1, WorkerFrame
<1>4. CloseInv'  BY <1>1 DEF ScanInv, CloseInv
<1>5. AnswerInv'
  <2>1. \A v \in Worker : worker'[v].pc = "send" => worker'[v] = worker[v]
    BY <1>1, StateFacts
  <2>2. ASSUME ~late, NEW a \in Answers, NEW v \in Worker, worker[v] = Sending(a)
        PROVE  worker'[v] = Sending(a)
    BY <1>1, <2>2, StateFacts
  <2>3. answered \subseteq Answers  BY DEF ScanInv, TypeOK
  <2> QED  BY <2>1, <2>2, <2>3 DEF ScanInv, AnswerInv
<1> QED  BY <1>2, <1>3, <1>4, <1>5 DEF ScanInv

LEMMA WorkerSteps ==
  ASSUME ScanInv, NEW w \in Worker, WorkerStep(w)
  PROVE  ScanInv'
<1>1. CASE Leave(w)
  BY <1>1, StateFacts, ExitStep DEF Leave, Active, channels, history
<1>2. CASE SendCancelled(w)
  BY <1>2, ExitStep DEF SendCancelled, Active, channels, history
<1>3. ASSUME NEW key \in Keys, QueryAnswered(w, key)  PROVE ScanInv'
  <2> DEFINE a == [host |-> worker[w].host, key |-> key]
  <2>0. /\ worker[w].pc = "query" /\ answered' = answered \cup {a}
        /\ worker' = [worker EXCEPT ![w] = Sending(a)]
        /\ UNCHANGED <<silent, main, jobs, wg, results, closed, late, found, asked>>
    BY <1>3 DEF QueryAnswered, channels
  <2>1. worker[w] \in WorkerState  BY DEF ScanInv, TypeOK
  <2>2. a \in Answers  BY <2>0, <2>1, StateFacts DEF Answers
  <2>3. /\ worker' \in [Worker -> WorkerState]
        /\ worker'[w] = Sending(a) /\ \A v \in Worker \ {w} : worker'[v] = worker[v]
        /\ Running' = Running /\ Running # {}
    BY <2>0, <2>2, StateFacts, Moves DEF Active
  <2>4. TypeOK'  BY <2>0, <2>2, <2>3 DEF ScanInv, TypeOK
  <2>5. MainInv' /\ AskedInv'  BY <2>0, <2>3, WorkerFrame DEF Active
  <2>6. CloseInv'  BY <2>0, <2>3 DEF ScanInv, CloseInv
  <2>7. AnswerInv'
    <3>1. \A v \in Worker : worker'[v].pc = "send" => worker'[v].answer \in answered'
      BY <2>0, <2>3 DEF ScanInv, AnswerInv, Sending
    <3>2. \A b \in Answers : \A v \in Worker :
            worker[v] = Sending(b) => worker'[v] = Sending(b)
      BY <2>0, <2>3, StateFacts
    <3>3. answered \subseteq Answers  BY DEF ScanInv, TypeOK
    <3> QED  BY <2>0, <2>3, <3>1, <3>2, <3>3 DEF ScanInv, AnswerInv
  <2> QED  BY <2>4, <2>5, <2>6, <2>7 DEF ScanInv
<1>4. CASE QueryFailed(w)
  <2>0. /\ worker[w].pc = "query" /\ worker' = [worker EXCEPT ![w] = Idle]
        /\ UNCHANGED <<silent, main, jobs, wg, results, closed, late, found, asked, answered>>
    BY <1>4 DEF QueryFailed, channels, history
  <2>1. /\ worker' \in [Worker -> WorkerState]
        /\ worker'[w] = Idle /\ \A v \in Worker \ {w} : worker'[v] = worker[v]
        /\ Running' = Running /\ Running # {}
    BY <2>0, StateFacts, Moves DEF Active
  <2>2. TypeOK'  BY <2>0, <2>1 DEF ScanInv, TypeOK
  <2>3. MainInv' /\ AskedInv'  BY <2>0, <2>1, WorkerFrame DEF Active
  <2>4. CloseInv'  BY <2>0, <2>1 DEF ScanInv, CloseInv
  <2>5. AnswerInv'
    <3>1. \A v \in Worker : worker'[v].pc = "send" => worker'[v] = worker[v]
      BY <2>1, StateFacts
    <3>2. \A b \in Answers : \A v \in Worker :
            worker[v] = Sending(b) => worker'[v] = Sending(b)
      BY <2>0, <2>1, StateFacts
    <3>3. answered \subseteq Answers  BY DEF ScanInv, TypeOK
    <3> QED  BY <2>0, <3>1, <3>2, <3>3 DEF ScanInv, AnswerInv
  <2> QED  BY <2>2, <2>3, <2>4, <2>5 DEF ScanInv
<1>5. CASE Send(w)
  <2> DEFINE a == worker[w].answer
  <2>0. /\ worker[w].pc = "send" /\ Len(results) < Cap
        /\ results' = Append(results, a)
        /\ worker' = [worker EXCEPT ![w] = Idle]
        /\ UNCHANGED <<silent, main, jobs, wg, closed, late, found, asked, answered>>
    BY <1>5 DEF Send, history
  <2>1. worker[w] \in WorkerState /\ results \in Seq(Answers) /\ Cap \in Nat
    BY VpnDiscoveryAssumption DEF ScanInv, TypeOK
  <2>2. a \in Answers /\ worker[w] = Sending(a) /\ a \in answered
    BY <2>0, <2>1, StateFacts DEF ScanInv, AnswerInv
  <2>3. /\ results' \in Seq(Answers) /\ Len(results') = Len(results) + 1
        /\ Len(results') <= Cap /\ results'[Len(results')] = a
        /\ Len(results') \in DOMAIN results'
        /\ \A i \in DOMAIN results : i \in DOMAIN results' /\ results'[i] = results[i]
        /\ \A i \in DOMAIN results' : i = Len(results') \/ i \in DOMAIN results
    BY <2>0, <2>1, <2>2
  <2>4. /\ worker' \in [Worker -> WorkerState]
        /\ worker'[w] = Idle /\ \A v \in Worker \ {w} : worker'[v] = worker[v]
        /\ Running' = Running /\ Running # {}
    BY <2>0, StateFacts, Moves DEF Active
  <2>5. TypeOK'  BY <2>0, <2>3, <2>4 DEF ScanInv, TypeOK
  <2>6. MainInv' /\ AskedInv'  BY <2>0, <2>4, WorkerFrame DEF Active
  <2>7. CloseInv'
    <3>1. ~closed  BY <2>4 DEF ScanInv, CloseInv
    <3> QED  BY <2>0, <2>4, <3>1 DEF ScanInv, CloseInv
  <2>8. AnswerInv'
    <3>1. \A v \in Worker : worker'[v].pc = "send" => worker'[v].answer \in answered
      BY <2>4, StateFacts DEF ScanInv, AnswerInv
    <3>2. \A i \in DOMAIN results' : results'[i] \in answered
      BY <2>2, <2>3 DEF ScanInv, AnswerInv
    <3>3. ASSUME ~late, NEW b \in answered
          PROVE  \/ found[b.key] # None
                 \/ \E i \in DOMAIN results' : results'[i] = b
                 \/ \E v \in Worker : worker'[v] = Sending(b)
      <4>1. b \in Answers  BY DEF ScanInv, TypeOK
      <4>2. CASE \E i \in DOMAIN results : results[i] = b  BY <2>3, <4>2
      <4>3. CASE \E v \in Worker : worker[v] = Sending(b)
        <5>1. PICK v \in Worker : worker[v] = Sending(b)  BY <4>3
        <5>2. CASE v = w
          <6>1. a = b  BY <2>2, <5>1, <5>2 DEF Sending
          <6> QED  BY <2>3, <6>1
        <5>3. CASE v # w  BY <2>4, <5>1, <5>3
        <5> QED  BY <5>2, <5>3
      <4> QED  BY <3>3, <4>2, <4>3 DEF ScanInv, AnswerInv
    <3>4. \A key \in Keys :
            found[key] # None => [host |-> found[key], key |-> key] \in answered
      BY DEF ScanInv, AnswerInv
    <3> QED  BY <2>0, <3>1, <3>2, <3>3, <3>4 DEF AnswerInv
  <2> QED  BY <2>5, <2>6, <2>7, <2>8 DEF ScanInv
<1> QED  BY <1>1, <1>2, <1>3, <1>4, <1>5 DEF WorkerStep

--------------------------------------------------------------------------------
LEMMA StillStep == ScanInv /\ (Deadline \/ UNCHANGED vars) => ScanInv'
<1> SUFFICES ASSUME ScanInv, Deadline \/ UNCHANGED vars PROVE ScanInv'  OBVIOUS
<1>0. /\ UNCHANGED <<silent, main, jobs, worker, wg, results, closed, found, asked, answered>>
      /\ late' = late \/ late' = TRUE
  BY DEF Deadline, vars, channels, history
<1>1. TypeOK'  BY <1>0 DEF ScanInv, TypeOK
<1>2. MainInv'  BY <1>0 DEF ScanInv, MainInv
<1>3. CloseInv'  BY <1>0 DEF ScanInv, CloseInv, Running
<1>4. AskedInv'  BY <1>0 DEF ScanInv, AskedInv
<1>5. AnswerInv'  BY <1>0 DEF ScanInv, AnswerInv
<1> QED  BY <1>1, <1>2, <1>3, <1>4, <1>5 DEF ScanInv

\* The inductive invariant of a discovery.
THEOREM ScanInvariant == Spec => []ScanInv
<1>1. ScanInv /\ [Next]_vars => ScanInv'
  BY SpawnStep, MainSteps, HandOutStep, CloseStep, ReceiveStep, WorkerSteps, StillStep
  DEF Next, MainStep, Returned
<1> QED  BY <1>1, ScanInit, PTL DEF Spec

\* Every reachable state has its shape: in particular the WaitGroup never falls below
\* zero and the results channel never holds more than it has room for.
THEOREM TypeCorrect == Spec => []TypeOK
<1>1. ScanInv => TypeOK  BY DEF ScanInv
<1> QED  BY <1>1, ScanInvariant, PTL

\* No worker is left when the results channel is closed, however many there are and
\* whenever the deadline comes.
THEOREM NoLateSender == Spec => []NoWorkerAfterClose
<1>1. ScanInv => NoWorkerAfterClose  BY DEF ScanInv, CloseInv, NoWorkerAfterClose
<1> QED  BY <1>1, ScanInvariant, PTL

\* A Discover that returns before its deadline has asked every host of every subnet
\* and lists every server that answered.
THEOREM Complete == Spec => []EarlyResultComplete
<1>1. ASSUME ScanInv, main.pc = "done", ~late
      PROVE  /\ asked = Job
             /\ \A a \in answered : [host |-> found[a.key], key |-> a.key] \in answered
  <2>1. main.subnet = Len(Hosts) + 1 /\ results = <<>> /\ Running = {}
    BY <1>1 DEF ScanInv, MainInv, CloseInv
  <2>2. Job \subseteq asked
    BY <1>1, <2>1, HostFacts DEF ScanInv, AskedInv, Job
  <2>3. \A w \in Worker : worker[w].pc # "send"  BY <2>1 DEF Running
  <2>4. ASSUME NEW a \in answered
        PROVE  [host |-> found[a.key], key |-> a.key] \in answered
    <3>0. a \in Answers  BY <1>1, <2>4 DEF ScanInv, TypeOK
    <3>1. a.key \in Keys  BY <3>0 DEF Answers
    <3>2. \A w \in Worker : worker[w] # Sending(a)  BY <2>3, <3>0, StateFacts
    <3>3. \A i \in DOMAIN results : FALSE  BY <2>1
    <3>4. found[a.key] # None
      BY <1>1, <3>2, <3>3 DEF ScanInv, AnswerInv
    <3> QED  BY <1>1, <3>1, <3>4 DEF ScanInv, AnswerInv
  <2> QED  BY <1>1, <2>2, <2>4 DEF ScanInv, TypeOK
<1>2. ScanInv => EarlyResultComplete  BY <1>1 DEF EarlyResultComplete
<1> QED  BY <1>2, ScanInvariant, PTL

--------------------------------------------------------------------------------
(* Induction and recursion over the natural numbers, stated with sets: they     *)
(* follow from the well-foundedness of the order, and take no predicate.        *)

LEMMA LeastOf ==
  ASSUME NEW T \in SUBSET Nat, T # {}
  PROVE  \E x \in T : \A y \in T : x <= y
<1>1. PICK x \in T : \A y \in T : ~ (<<y, x>> \in OpToRel(<, Nat))
  BY WFMin, NatLessThanWellFounded, ZenonT(30)
<1>2. \A y \in T : ~ (y < x)  BY <1>1 DEF OpToRel
<1> QED  BY <1>2

LEMMA SetInduction ==
  ASSUME NEW T \in SUBSET Nat, 0 \in T, \A n \in T : n + 1 \in T
  PROVE  T = Nat
<1> DEFINE U == Nat \ T
<1> SUFFICES ASSUME U # {}  PROVE FALSE
  OBVIOUS
<1>1. U \in SUBSET Nat  OBVIOUS
<1> HIDE DEF U
<1>2. PICK x \in U : \A y \in U : x <= y  BY <1>1, LeastOf
<1>3. x \in Nat /\ x # 0 /\ x \notin T  BY <1>2 DEF U
<1>4. x - 1 \in Nat /\ x - 1 \notin T  BY <1>3
<1>5. x - 1 \in U  BY <1>4 DEF U
<1> QED  BY <1>2, <1>3, <1>5

\* The first n + 1 values of a sequence that starts at a and goes on by step.
Starts(S, a, step, n) ==
  {g \in [0 .. n -> S] :
     g[0] = a /\ \A i \in 0 .. n - 1 : g[i + 1] = step[<<i, g[i]>>]}

LEMMA StartsExist ==
  ASSUME NEW S, NEW a \in S, NEW step \in [Nat \X S -> S]
  PROVE  \A n \in Nat : Starts(S, a, step, n) # {}
<1> DEFINE T == {n \in Nat : Starts(S, a, step, n) # {}}
<1>1. 0 \in T
  <2>1. [i \in 0 .. 0 |-> a] \in Starts(S, a, step, 0)  BY DEF Starts
  <2> QED  BY <2>1
<1>2. ASSUME NEW n \in T  PROVE n + 1 \in T
  <2>1. n \in Nat /\ Starts(S, a, step, n) # {}  OBVIOUS
  <2>2. PICK g \in [0 .. n -> S] :
          g[0] = a /\ \A i \in 0 .. n - 1 : g[i + 1] = step[<<i, g[i]>>]
    BY <2>1 DEF Starts
  <2> DEFINE h == [i \in 0 .. n + 1 |-> IF i <= n THEN g[i] ELSE step[<<n, g[n]>>]]
  <2>3. n \in 0 .. n /\ g[n] \in S  BY <2>1, <2>2
  <2>4. step[<<n, g[n]>>] \in S
    <3>1. <<n, g[n]>> \in Nat \X S  BY <2>1, <2>3
    <3> QED  BY <3>1
  <2>5. h \in [0 .. n + 1 -> S]  BY <2>1, <2>2, <2>4
  <2>6. h[0] = a  BY <2>1, <2>2
  <2>7. \A i \in 0 .. n : h[i] = g[i]  BY <2>1
  <2>8. h[n + 1] = step[<<n, g[n]>>]  BY <2>1
  <2> HIDE DEF h
  <2>9. ASSUME NEW i \in 0 .. (n + 1) - 1  PROVE h[i + 1] = step[<<i, h[i]>>]
    <3>1. CASE i = n  BY <2>3, <2>7, <2>8, <3>1
    <3>2. CASE i # n
      <4>1. i \in 0 .. n - 1 /\ i \in 0 .. n /\ i + 1 \in 0 .. n  BY <2>1, <3>2
      <4> QED  BY <2>2, <2>7, <4>1
    <3> QED  BY <3>1, <3>2
  <2>10. h \in Starts(S, a, step, n + 1)  BY <2>5, <2>6, <2>9 DEF Starts
  <2> QED  BY <2>1, <2>10
<1> HIDE DEF T
<1>3. T = Nat  BY <1>1, <1>2, SetInduction DEF T
<1> QED  BY <1>3 DEF T

LEMMA StartsAgree ==
  ASSUME NEW S, NEW a, NEW step, NEW m \in Nat, NEW n \in Nat, m <= n,
         NEW g \in Starts(S, a, step, m), NEW h \in Starts(S, a, step, n)
  PROVE  \A i \in 0 .. m : g[i] = h[i]
<1> DEFINE T == {i \in Nat : i <= m => g[i] = h[i]}
<1>1. 0 \in T  BY DEF Starts
<1>2. ASSUME NEW i \in T  PROVE i + 1 \in T
  <2> SUFFICES ASSUME i + 1 <= m  PROVE g[i + 1] = h[i + 1]
    OBVIOUS
  <2>1. i \in 0 .. m - 1 /\ i \in 0 .. n - 1 /\ g[i] = h[i]  OBVIOUS
  <2> QED  BY <2>1 DEF Starts
<1> HIDE DEF T
<1>3. T = Nat  BY <1>1, <1>2, SetInduction DEF T
<1> QED  BY <1>3 DEF T

\* The functions that start at a and go on by step: there is one.
Goes(S, a, step) ==
  {f \in [Nat -> S] : f[0] = a /\ \A n \in Nat : f[n + 1] = step[<<n, f[n]>>]}

LEMMA NatRecursion ==
  ASSUME NEW S, NEW a \in S, NEW step \in [Nat \X S -> S]
  PROVE  Goes(S, a, step) # {}
<1> DEFINE G(n) == CHOOSE g : g \in Starts(S, a, step, n)
           f == [n \in Nat |-> G(n)[n]]
<1>1. \A n \in Nat : G(n) \in Starts(S, a, step, n)  BY StartsExist
<1> HIDE DEF G
<1>2. ASSUME NEW n \in Nat
      PROVE  G(n) \in [0 .. n -> S] /\ G(n)[0] = a
             /\ \A i \in 0 .. n - 1 : G(n)[i + 1] = step[<<i, G(n)[i]>>]
  BY <1>1 DEF Starts
<1>3. f \in [Nat -> S]
  <2> SUFFICES ASSUME NEW n \in Nat  PROVE G(n)[n] \in S
    OBVIOUS
  <2>1. n \in 0 .. n  OBVIOUS
  <2> QED  BY <1>2, <2>1
<1>4. f[0] = a  BY <1>2
<1>5. ASSUME NEW n \in Nat  PROVE f[n + 1] = step[<<n, f[n]>>]
  <2>1. n + 1 \in Nat /\ n \in 0 .. n /\ n \in 0 .. (n + 1) - 1 /\ n <= n + 1  OBVIOUS
  <2>2. G(n)[n] = G(n + 1)[n]
    <3>1. \A i \in 0 .. n : G(n)[i] = G(n + 1)[i]  BY <1>1, <2>1, StartsAgree
    <3> QED  BY <2>1, <3>1
  <2>3. G(n + 1)[n + 1] = step[<<n, G(n + 1)[n]>>]  BY <1>2, <2>1
  <2> QED  BY <2>1, <2>2, <2>3
<1> HIDE DEF f
<1>6. f \in Goes(S, a, step)  BY <1>3, <1>4, <1>5 DEF Goes
<1> QED  BY <1>6

LEMMA Pow2Def ==
  /\ Pow2 \in [Nat -> Nat] /\ Pow2[0] = 1
  /\ \A n \in Nat : Pow2[n + 1] = 2 * Pow2[n]
<1> DEFINE step == [p \in Nat \X Nat |-> 2 * p[2]]
           Is(f) == f = [n \in Nat |-> IF n = 0 THEN 1 ELSE 2 * f[n - 1]]
<1>1. step \in [Nat \X Nat -> Nat]  OBVIOUS
<1>2. PICK f \in [Nat -> Nat] :
        f[0] = 1 /\ \A n \in Nat : f[n + 1] = step[<<n, f[n]>>]
  <2>1. 1 \in Nat  OBVIOUS
  <2> HIDE DEF step
  <2>2. Goes(Nat, 1, step) # {}  BY <1>1, <2>1, NatRecursion
  <2> QED  BY <2>2 DEF Goes
<1>3. \A n \in Nat : f[n + 1] = 2 * f[n]  BY <1>2
<1>4. \A n \in Nat : f[n] = IF n = 0 THEN 1 ELSE 2 * f[n - 1]
  <2> SUFFICES ASSUME NEW n \in Nat, n # 0  PROVE f[n] = 2 * f[n - 1]
    BY <1>2
  <2>1. n - 1 \in Nat /\ (n - 1) + 1 = n  OBVIOUS
  <2> QED  BY <1>3, <2>1
<1>5. Is(f)  BY <1>2, <1>4
<1>6. Is(Pow2)  BY <1>5 DEF Pow2
<1> HIDE DEF Is
<1>7. \A n \in Nat : Pow2[n] = IF n = 0 THEN 1 ELSE 2 * Pow2[n - 1]  BY <1>6 DEF Is
<1>8. ASSUME NEW n \in Nat  PROVE Pow2[n + 1] = 2 * Pow2[n]
  <2>1. n + 1 \in Nat /\ n + 1 # 0 /\ (n + 1) - 1 = n  OBVIOUS
  <2> QED  BY <1>7, <2>1
<1> DEFINE T == {n \in Nat : Pow2[n] \in Nat}
<1>9. Pow2[0] = 1  BY <1>7
<1>10. T = Nat
  <2>1. 0 \in T  BY <1>9
  <2>2. \A n \in T : n + 1 \in T  BY <1>8
  <2> HIDE DEF T
  <2> QED  BY <2>1, <2>2, SetInduction DEF T
<1>11. \A n \in Nat : Pow2[n] \in Nat  BY <1>10
<1>12. DOMAIN Pow2 = Nat /\ Pow2 = [n \in DOMAIN Pow2 |-> Pow2[n]]  BY <1>6 DEF Is
<1> QED  BY <1>8, <1>9, <1>11, <1>12

LEMMA Pow2Facts ==
  /\ \A m, n \in Nat : Pow2[m + n] = Pow2[m] * Pow2[n]
  /\ \A n \in Nat : Pow2[n] >= 1
  /\ \A n \in Nat : n >= 2 => Pow2[n] >= 4
<1>1. ASSUME NEW m \in Nat, NEW n \in Nat  PROVE Pow2[m + n] = Pow2[m] * Pow2[n]
  <2> DEFINE T == {i \in Nat : Pow2[m + i] = Pow2[m] * Pow2[i]}
  <2>1. 0 \in T
    <3>1. Pow2[m] \in Nat /\ Pow2[0] = 1 /\ m + 0 = m  BY Pow2Def
    <3> QED  BY <3>1
  <2>2. ASSUME NEW i \in T  PROVE i + 1 \in T
    <3>1. /\ i \in Nat /\ Pow2[m] \in Nat /\ Pow2[i] \in Nat
          /\ Pow2[m + i] = Pow2[m] * Pow2[i]
      BY Pow2Def
    <3>2. m + i \in Nat /\ m + (i + 1) = (m + i) + 1  BY <3>1
    <3>3. Pow2[m + (i + 1)] = 2 * (Pow2[m] * Pow2[i])  BY <3>1, <3>2, Pow2Def
    <3>4. Pow2[i + 1] = 2 * Pow2[i]  BY <3>1, Pow2Def
    <3>5. \A x, y \in Nat : 2 * (x * y) = x * (2 * y)  OBVIOUS
    <3>6. Pow2[m + (i + 1)] = Pow2[m] * Pow2[i + 1]  BY <3>1, <3>3, <3>4, <3>5
    <3> QED  BY <3>1, <3>6
  <2> HIDE DEF T
  <2>3. T = Nat  BY <2>1, <2>2, SetInduction DEF T
  <2> QED  BY <2>3 DEF T
<1>2. ASSUME NEW n \in Nat  PROVE Pow2[n] >= 1
  <2> DEFINE T == {i \in Nat : Pow2[i] >= 1}
  <2>1. 0 \in T  BY Pow2Def
  <2>2. \A i \in T : i + 1 \in T  BY Pow2Def
  <2> HIDE DEF T
  <2>3. T = Nat  BY <2>1, <2>2, SetInduction DEF T
  <2> QED  BY <2>3 DEF T
<1>3. ASSUME NEW n \in Nat, n >= 2  PROVE Pow2[n] >= 4
  <2>1. n - 2 \in Nat /\ n - 1 \in Nat /\ (n - 2) + 1 = n - 1 /\ (n - 1) + 1 = n
    BY <1>3
  <2>2. Pow2[n] = 2 * Pow2[n - 1] /\ Pow2[n - 1] = 2 * Pow2[n - 2]
    BY <2>1, Pow2Def
  <2> QED  BY <1>2, <2>1, <2>2, Pow2Def
<1> QED  BY <1>1, <1>2, <1>3

\* The block of P addresses from base on, which ip is in, below W.
Block(ip, base, P, W) ==
  /\ base \in Nat /\ base <= ip /\ ip < base + P /\ base + P <= W
  /\ \A a \in Nat : a \div P = ip \div P <=> base <= a /\ a < base + P

LEMMA BlockFacts ==
  ASSUME NEW P \in Nat, P >= 1, NEW Q \in Nat, NEW ip \in 0 .. P * Q - 1
  PROVE  Block(ip, ip - (ip % P), P, P * Q)
<1> DEFINE q == ip \div P
           base == ip - (ip % P)
<1>1. P * Q \in Nat /\ ip \in Nat /\ ip < P * Q  OBVIOUS
<1>2. \A a \in Nat : /\ a \div P \in Nat /\ a % P \in 0 .. P - 1
                     /\ a = P * (a \div P) + (a % P)
  OBVIOUS
<1>3. q \in Nat /\ base = P * q  BY <1>1, <1>2
<1>4. \A x, y \in Nat : x < y => P * x + P <= P * y
  <2> SUFFICES ASSUME NEW x \in Nat, NEW y \in Nat, x < y  PROVE P * x + P <= P * y
    OBVIOUS
  <2>1. x + 1 <= y  OBVIOUS
  <2>2. P * (x + 1) <= P * y  BY <2>1
  <2>3. P * (x + 1) = P * x + P  OBVIOUS
  <2> QED  BY <2>2, <2>3
<1>5. base \in Nat /\ base <= ip /\ ip < base + P  BY <1>1, <1>2, <1>3
<1>6. q < Q
  <2> SUFFICES ASSUME Q <= q  PROVE FALSE
    BY <1>3
  <2>1. P * Q <= P * q  BY <1>3
  <2> QED  BY <1>1, <1>3, <1>5, <2>1
<1>7. base + P <= P * Q  BY <1>3, <1>4, <1>6
<1>8. ASSUME NEW a \in Nat  PROVE a \div P = q <=> base <= a /\ a < base + P
  <2> DEFINE r == a \div P
  <2>1. /\ r \in Nat /\ P * r <= a /\ a < P * r + P /\ P * r \in Nat /\ P * q \in Nat
    BY <1>2, <1>3
  <2> HIDE DEF r, q, base
  <2>2. r = q => base <= a /\ a < base + P  BY <1>3, <2>1
  <2>3. r < q => P * r + P <= P * q  BY <1>3, <1>4, <2>1
  <2>4. q < r => P * q + P <= P * r  BY <1>3, <1>4, <2>1
  <2>5. base <= a /\ a < base + P => r = q  BY <1>3, <2>1, <2>3, <2>4
  <2> QED  BY <2>2, <2>5 DEF r
<1> QED  BY <1>5, <1>7, <1>8 DEF Block

\* The loop, round by round.
Round(ip, ones, n) ==
  LET current == Add(Masked(ip, ones), n + 1)
      before == Collected(ip, ones, n)
  IN  IF current = ip THEN before ELSE Append(before, current)

LEMMA CollectedDef ==
  ASSUME NEW ip \in Nat, NEW ones, \A i \in Nat : Add(Masked(ip, ones), i) \in Nat
  PROVE  /\ Collected(ip, ones, 0) = <<>>
         /\ \A n \in Nat : Collected(ip, ones, n + 1) = Round(ip, ones, n)
<1> DEFINE A(i) == Add(Masked(ip, ones), i)
           Is(f) == f = [i \in Nat |->
                           IF i = 0 THEN <<>>
                           ELSE IF A(i) = ip THEN f[i - 1] ELSE Append(f[i - 1], A(i))]
           step == [p \in Nat \X Seq(Nat) |->
                      IF A(p[1] + 1) = ip THEN p[2] ELSE Append(p[2], A(p[1] + 1))]
           list == CHOOSE f : Is(f)
<1>1. \A i \in Nat : A(i) \in Nat  OBVIOUS
<1>2. Collected(ip, ones, 0) = list[0] /\ \A n \in Nat : Collected(ip, ones, n) = list[n]
  BY DEF Collected
<1> HIDE DEF A
<1>3. step \in [Nat \X Seq(Nat) -> Seq(Nat)]
  <2> SUFFICES ASSUME NEW p \in Nat \X Seq(Nat)
               PROVE  (IF A(p[1] + 1) = ip THEN p[2] ELSE Append(p[2], A(p[1] + 1)))
                        \in Seq(Nat)
    OBVIOUS
  <2>1. PICK n \in Nat, s \in Seq(Nat) : p = <<n, s>>  OBVIOUS
  <2>2. n + 1 \in Nat /\ p[1] = n /\ p[2] = s  BY <2>1
  <2>3. A(n + 1) \in Nat  BY <1>1, <2>2
  <2>4. Append(s, A(n + 1)) \in Seq(Nat)  BY <2>3
  <2> QED  BY <2>2, <2>4
<1>4. PICK f \in [Nat -> Seq(Nat)] :
        f[0] = <<>> /\ \A n \in Nat : f[n + 1] = step[<<n, f[n]>>]
  <2>1. <<>> \in Seq(Nat)  OBVIOUS
  <2> HIDE DEF step
  <2>2. Goes(Seq(Nat), <<>>, step) # {}  BY <1>3, <2>1, NatRecursion
  <2> QED  BY <2>2 DEF Goes
<1>5. \A n \in Nat :
        f[n + 1] = IF A(n + 1) = ip THEN f[n] ELSE Append(f[n], A(n + 1))
  BY <1>4
<1> HIDE DEF step
<1>6. ASSUME NEW i \in Nat, i # 0
      PROVE  f[i] = IF A(i) = ip THEN f[i - 1] ELSE Append(f[i - 1], A(i))
  <2>1. PICK n \in Nat : i = n + 1 /\ i - 1 = n
    <3>1. i - 1 \in Nat /\ i = (i - 1) + 1  BY <1>6
    <3> QED  BY <3>1
  <2> QED  BY <1>5, <2>1
<1>7. Is(f)  BY <1>4, <1>6
<1>8. Is(list)  
  <2> HIDE DEF Is
  <2> QED  BY <1>7
<1> HIDE DEF list
<1>9. list[0] = <<>>  BY <1>8
<1>10. ASSUME NEW n \in Nat
       PROVE  list[n + 1] = IF A(n + 1) = ip THEN list[n] ELSE Append(list[n], A(n + 1))
  <2>1. n + 1 \in Nat /\ n + 1 # 0 /\ (n + 1) - 1 = n  OBVIOUS
  <2> QED  BY <1>8, <2>1
<1>11. \A n \in Nat : n + 1 \in Nat  OBVIOUS
<1> QED  BY <1>2, <1>9, <1>10, <1>11 DEF A, Round

\* s holds the addresses from base + 1 to base + n but ip, in ascending order.
HoldsUpTo(s, base, n, ip) ==
  /\ s \in Seq(Nat)
  /\ \A i \in 1 .. Len(s) : base < s[i] /\ s[i] <= base + n /\ s[i] # ip
  /\ \A a \in Nat : base < a /\ a <= base + n /\ a # ip => \E i \in 1 .. Len(s) : s[i] = a
  /\ \A i, j \in 1 .. Len(s) : i < j => s[i] < s[j]

LEMMA HoldsNext ==
  ASSUME NEW s, NEW base \in Nat, NEW n \in Nat, NEW ip \in Nat,
         HoldsUpTo(s, base, n, ip), base + (n + 1) # ip
  PROVE  HoldsUpTo(Append(s, base + (n + 1)), base, n + 1, ip)
<1> DEFINE b == base + (n + 1)
           t == Append(s, b)
<1>1. s \in Seq(Nat) /\ b \in Nat /\ b # ip /\ b > base + n  BY DEF HoldsUpTo
<1>2. /\ t \in Seq(Nat) /\ Len(t) = Len(s) + 1 /\ Len(s) \in Nat
      /\ \A i \in 1 .. Len(s) : t[i] = s[i]
      /\ t[Len(s) + 1] = b
  BY <1>1
<1>3. \A i \in 1 .. Len(s) : s[i] \in Nat  BY <1>1
<1>4. \A i \in 1 .. Len(t) : i = Len(s) + 1 \/ i \in 1 .. Len(s)  BY <1>2
<1>5. \A i \in 1 .. Len(s) : base < s[i] /\ s[i] <= base + n /\ s[i] # ip
  BY DEF HoldsUpTo
<1> HIDE DEF t
<1>6. ASSUME NEW i \in 1 .. Len(t)  PROVE base < t[i] /\ t[i] <= b /\ t[i] # ip
  <2>1. CASE i = Len(s) + 1  BY <1>1, <1>2, <2>1
  <2>2. CASE i \in 1 .. Len(s)
    <3>1. t[i] = s[i] /\ s[i] \in Nat  BY <1>2, <1>3, <2>2
    <3> QED  BY <1>5, <2>2, <3>1
  <2> QED  BY <1>4, <2>1, <2>2
<1>7. ASSUME NEW a \in Nat, base < a, a <= b, a # ip
      PROVE  \E i \in 1 .. Len(t) : t[i] = a
  <2>1. CASE a = b
    <3>1. Len(s) + 1 \in 1 .. Len(t)  BY <1>2
    <3> QED  BY <1>2, <2>1, <3>1
  <2>2. CASE a # b
    <3>1. a <= base + n  BY <1>7, <2>2
    <3>2. PICK i \in 1 .. Len(s) : s[i] = a  BY <1>7, <3>1 DEF HoldsUpTo
    <3>3. i \in 1 .. Len(t) /\ t[i] = a  BY <1>2, <3>2
    <3> QED  BY <3>3
  <2> QED  BY <2>1, <2>2
<1>8. ASSUME NEW i \in 1 .. Len(t), NEW j \in 1 .. Len(t), i < j  PROVE t[i] < t[j]
  <2>1. i \in 1 .. Len(s) /\ t[i] = s[i] /\ s[i] \in Nat /\ s[i] < b
    <3>1. i \in 1 .. Len(s)  BY <1>2, <1>8
    <3> QED  BY <1>1, <1>2, <1>3, <1>5, <3>1
  <2>2. CASE j = Len(s) + 1  BY <1>2, <2>1, <2>2
  <2>3. CASE j \in 1 .. Len(s)
    <3>1. t[j] = s[j]  BY <1>2, <2>3
    <3> QED  BY <1>8, <2>1, <2>3, <3>1 DEF HoldsUpTo
  <2> QED  BY <1>4, <2>2, <2>3
<1> QED  BY <1>2, <1>6, <1>7, <1>8 DEF HoldsUpTo, t

LEMMA HoldsSkip ==
  ASSUME NEW s, NEW base \in Nat, NEW n \in Nat, NEW ip \in Nat,
         HoldsUpTo(s, base, n, ip), base + (n + 1) = ip
  PROVE  HoldsUpTo(s, base, n + 1, ip)
<1>1. \A i \in 1 .. Len(s) : s[i] \in Nat  BY DEF HoldsUpTo
<1>2. \A a \in Nat : a <= base + (n + 1) /\ a # ip => a <= base + n  OBVIOUS
<1>3. \A a \in Nat : a <= base + n => a <= base + (n + 1)  OBVIOUS
<1> QED  BY <1>1, <1>2, <1>3 DEF HoldsUpTo

\* After n rounds the list holds the first n addresses of the subnet but ip.
LEMMA LoopHolds ==
  ASSUME NEW ip \in Nat, NEW ones, NEW P \in Nat,
         \A i \in Nat : Add(Masked(ip, ones), i) \in Nat,
         Masked(ip, ones) \in Nat,
         \A i \in 0 .. P : Add(Masked(ip, ones), i) = Masked(ip, ones) + i
  PROVE  \A n \in 0 .. P : HoldsUpTo(Collected(ip, ones, n), Masked(ip, ones), n, ip)
<1> DEFINE base == Masked(ip, ones)
           C(n) == Collected(ip, ones, n)
           A(i) == Add(base, i)
           T == {n \in Nat : n <= P => HoldsUpTo(C(n), base, n, ip)}
<1>1. /\ C(0) = <<>>
      /\ \A n \in Nat : C(n + 1) = IF A(n + 1) = ip THEN C(n) ELSE Append(C(n), A(n + 1))
  <2>1. C(0) = <<>>  BY CollectedDef
  <2>2. ASSUME NEW n \in Nat
        PROVE  C(n + 1) = IF A(n + 1) = ip THEN C(n) ELSE Append(C(n), A(n + 1))
    <3>1. C(n + 1) = Round(ip, ones, n)  BY CollectedDef
    <3> QED  BY <3>1 DEF Round
  <2> QED  BY <2>1, <2>2
<1>2. base \in Nat /\ \A i \in 0 .. P : A(i) = base + i  OBVIOUS
<1> HIDE DEF base, C, A
<1>3. 0 \in T
  <2>1. HoldsUpTo(<<>>, base, 0, ip)  BY <1>2 DEF HoldsUpTo
  <2> QED  BY <1>1, <2>1
<1>4. ASSUME NEW n \in T  PROVE n + 1 \in T
  <2> SUFFICES ASSUME n + 1 <= P  PROVE HoldsUpTo(C(n + 1), base, n + 1, ip)
    OBVIOUS
  <2>1. n \in Nat /\ HoldsUpTo(C(n), base, n, ip) /\ n + 1 \in 0 .. P  OBVIOUS
  <2>2. A(n + 1) = base + (n + 1)  BY <1>2, <2>1
  <2>3. CASE A(n + 1) = ip
    <3>1. C(n + 1) = C(n)  BY <1>1, <2>1, <2>3
    <3>2. base + (n + 1) = ip  BY <2>2, <2>3
    <3>3. HoldsUpTo(C(n), base, n + 1, ip)  BY <1>2, <2>1, <3>2, HoldsSkip
    <3> QED  BY <3>1, <3>3
  <2>4. CASE A(n + 1) # ip
    <3>1. C(n + 1) = Append(C(n), base + (n + 1))  BY <1>1, <2>1, <2>2, <2>4
    <3>2. HoldsUpTo(Append(C(n), base + (n + 1)), base, n + 1, ip)
      BY <1>2, <2>1, <2>2, <2>4, HoldsNext
    <3> QED  BY <3>1, <3>2
  <2> QED  BY <2>3, <2>4
<1> HIDE DEF T
<1>5. T = Nat  BY <1>3, <1>4, SetInduction DEF T
<1>6. \A n \in 0 .. P : n \in Nat /\ n <= P  OBVIOUS
<1>7. \A n \in 0 .. P : HoldsUpTo(C(n), base, n, ip)  BY <1>5, <1>6 DEF T
<1> QED  BY <1>7 DEF C, base

\* A subnet of a size to scan: its addresses are those from the masked address on,
\* none of them beyond the end of the address space.
LEMMA SubnetFacts ==
  ASSUME NEW ip \in Addresses, NEW ones \in 0 .. Width, Width - ones >= 2
  PROVE  LET size == Pow2[Width - ones]
             base == Masked(ip, ones)
         IN  /\ size \in Nat /\ size >= 4
             /\ ip \in Nat /\ base \in Nat /\ base <= ip /\ ip < base + size
             /\ \A a \in Nat : a \in Addresses /\ a \div size = ip \div size
                                 <=> base <= a /\ a < base + size
             /\ \A i \in Nat : Add(base, i) \in Nat
             /\ \A i \in 0 .. size - 1 : Add(base, i) = base + i
<1> DEFINE P == Pow2[Width - ones]
           Q == Pow2[ones]
           W == Pow2[Width]
           base == ip - (ip % P)
<1>1. Width \in Nat /\ ones \in Nat /\ Width - ones \in Nat /\ (Width - ones) + ones = Width
  BY SubnetHostsAssumption
<1>2. P \in Nat /\ Q \in Nat /\ W \in Nat /\ P >= 4 /\ W >= 1 /\ W = P * Q
  BY <1>1, Pow2Def, Pow2Facts
<1>3. ip \in 0 .. W - 1 /\ Addresses = 0 .. W - 1  BY DEF Addresses
<1>4. Masked(ip, ones) = base /\ \A i \in Nat : Add(base, i) = (base + i) % W
  BY DEF Masked, Add
<1> HIDE DEF P, Q, W
<1>5. /\ base \in Nat /\ base <= ip /\ ip < base + P /\ base + P <= W
      /\ \A a \in Nat : a \div P = ip \div P <=> base <= a /\ a < base + P
  <2>1. P >= 1 /\ ip \in 0 .. P * Q - 1  BY <1>2, <1>3
  <2>2. Block(ip, base, P, P * Q)  BY <1>2, <2>1, BlockFacts
  <2> QED  BY <1>2, <2>2 DEF Block
<1> HIDE DEF base
<1>6. \A a \in Nat : a \in Addresses /\ a \div P = ip \div P
                       <=> base <= a /\ a < base + P
  <2> DEFINE Same(a) == a \div P = ip \div P
  <2>1. \A a \in Nat : Same(a) <=> base <= a /\ a < base + P  BY <1>5
  <2> HIDE DEF Same
  <2>2. \A a \in Nat : a < base + P => a \in Addresses  BY <1>2, <1>3, <1>5
  <2>3. \A a \in Nat : a \in Addresses /\ Same(a) <=> base <= a /\ a < base + P
    BY <2>1, <2>2
  <2> QED  BY <2>3 DEF Same
<1>7. \A i \in Nat : Add(base, i) \in Nat
  <2>1. \A x \in Nat : x % W \in Nat  BY <1>2
  <2> QED  BY <1>4, <1>5, <2>1
<1>8. \A i \in 0 .. P - 1 : Add(base, i) = base + i
  <2>1. \A x \in Nat : x < W => x % W = x  BY <1>2
  <2>2. \A i \in 0 .. P - 1 : i \in Nat /\ base + i \in Nat /\ base + i < W
    BY <1>2, <1>5
  <2> QED  BY <1>4, <2>1, <2>2
<1>9. ip \in Nat  BY <1>2, <1>3
<1> QED  BY <1>2, <1>4, <1>5, <1>6, <1>7, <1>8, <1>9 DEF P

LEMMA NeighboursExact ==
  ASSUME NEW ip \in Addresses, NEW ones \in 0 .. Width, Width - ones >= 2
  PROVE  Exact(Neighbours(ip, ones), ip, ones)
<1> DEFINE P == Pow2[Width - ones]
           base == Masked(ip, ones)
           hosts == Neighbours(ip, ones)
           subnet == {a \in Addresses : a \div P = ip \div P}
           wanted == {a \in subnet : /\ a # ip
                                     /\ \E b \in subnet : b < a
                                     /\ \E b \in subnet : a < b}
<1>1. /\ P \in Nat /\ P >= 4
      /\ ip \in Nat /\ base \in Nat /\ base <= ip /\ ip < base + P
      /\ \A a \in Nat : a \in Addresses /\ a \div P = ip \div P
                          <=> base <= a /\ a < base + P
      /\ \A i \in Nat : Add(base, i) \in Nat
      /\ \A i \in 0 .. P - 1 : Add(base, i) = base + i
  BY SubnetFacts
<1>2. Addresses \subseteq Nat  BY SubnetHostsAssumption, Pow2Def DEF Addresses
<1>3. hosts = Collected(ip, ones, P - 2)  BY DEF Neighbours
<1>4. HoldsUpTo(hosts, base, P - 2, ip)
  <2>1. P - 2 \in Nat /\ P - 2 \in 0 .. P - 2 /\ \A i \in 0 .. P - 2 : i \in 0 .. P - 1
    BY <1>1
  <2> HIDE DEF P
  <2>2. \A n \in 0 .. P - 2 : HoldsUpTo(Collected(ip, ones, n), Masked(ip, ones), n, ip)
    BY <1>1, <2>1, LoopHolds
  <2> QED  BY <1>3, <2>1, <2>2
<1> HIDE DEF P, base, hosts
<1>5. \A a \in Nat : a \in subnet <=> base <= a /\ a < base + P  BY <1>1
<1>6. subnet \subseteq Nat  BY <1>2
<1> HIDE DEF subnet
<1>7. base \in subnet /\ base + P - 1 \in subnet  BY <1>1, <1>5
<1>8. \A a \in Nat : a \in wanted <=> a # ip /\ base < a /\ a <= base + (P - 2)
  <2>1. ASSUME NEW a \in Nat, a \in wanted
        PROVE  a # ip /\ base < a /\ a <= base + (P - 2)
    <3>1. PICK b \in subnet, c \in subnet : b < a /\ a < c  BY <2>1
    <3>2. b \in Nat /\ c \in Nat /\ base <= b /\ c < base + P  BY <1>5, <1>6, <3>1
    <3> QED  BY <1>1, <2>1, <3>1, <3>2
  <2>2. ASSUME NEW a \in Nat, a # ip, base < a, a <= base + (P - 2)
        PROVE  a \in wanted
    <3>1. a \in subnet /\ a < base + P - 1  BY <1>1, <1>5, <2>2
    <3> QED  BY <1>7, <2>2, <3>1
  <2> QED  BY <2>1, <2>2
<1>9. wanted \subseteq Nat  BY <1>6
<1> HIDE DEF wanted
<1>10. /\ hosts \in Seq(Nat) /\ DOMAIN hosts = 1 .. Len(hosts)
       /\ \A i \in 1 .. Len(hosts) : hosts[i] \in Nat
  BY <1>4 DEF HoldsUpTo
<1>11. {hosts[i] : i \in DOMAIN hosts} = wanted
  <2>1. ASSUME NEW i \in DOMAIN hosts  PROVE hosts[i] \in wanted
    BY <1>4, <1>8, <1>10 DEF HoldsUpTo
  <2>2. ASSUME NEW a \in wanted  PROVE \E i \in DOMAIN hosts : hosts[i] = a
    BY <1>4, <1>8, <1>9, <1>10 DEF HoldsUpTo
  <2> QED  BY <2>1, <2>2
<1>12. \A i, j \in DOMAIN hosts : i < j => hosts[i] < hosts[j]
  BY <1>4, <1>10 DEF HoldsUpTo
<1> QED  BY <1>11, <1>12 DEF Exact, wanted, subnet, P, hosts

\* The hosts of every subnet are the right ones: for addresses of any width, and any
\* largest size to scan.
THEOREM HostsAreExact == Spec => []HostsExact
<1>1. ASSUME NEW ip \in Addresses, NEW ones \in 0 .. Width
      PROVE  IF Width - ones \in 2 .. ScanBits THEN Exact(HostsOf(ip, ones), ip, ones)
             ELSE HostsOf(ip, ones) = <<>>
  <2>1. Width - ones \in 2 .. ScanBits => Width - ones >= 2  BY SubnetHostsAssumption
  <2> QED  BY <2>1, NeighboursExact DEF HostsOf
<1>2. HostsExact  BY <1>1 DEF HostsExact
<1> QED  BY <1>2, PTL

================================================================================
