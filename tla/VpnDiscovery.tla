----------------------------- MODULE VpnDiscovery -----------------------------
(***************************************************************************)
(* Discovery of servers in the subnets of a VPN interface:                  *)
(* src/internal/discovery/vpn/discover.go.  Discover goes through the       *)
(* subnets; for each it starts workers and hands them the hosts one by one  *)
(* over an unbuffered channel.  A worker asks its host over UDP and puts    *)
(* the answer into a bounded channel, which Discover reads only after the   *)
(* last host is handed out.  One deadline ends everything that waits.       *)
(***************************************************************************)
EXTENDS SubnetHosts, FiniteSets

CONSTANTS
  Hosts,    \* Hosts[k]: the hosts of the k-th subnet, in order; none if it is
            \* too small or too large to scan (see SubnetHosts)
  Workers,  \* Discoverer.Workers: the most goroutines for one subnet (32)
  Cap,      \* capacity of the results channel (64)
  Keys,     \* names and ports that answers carry
  MaySilent, \* hosts that may turn out to be silent (see silent)
  None      \* a key nobody answered with

AllHosts == UNION {{Hosts[k][i] : i \in DOMAIN Hosts[k]} : k \in DOMAIN Hosts}

ASSUME VpnDiscoveryAssumption ==
  /\ Hosts \in Seq(Seq(AllHosts))
  /\ Workers \in Nat \ {0}
  /\ Cap \in Nat \ {0}
  /\ None \notin AllHosts

VARIABLES
  silent,    \* hosts that never answer, nor refuse the datagram; it does not change
  main,      \* where Discover stands: its subnet and its next host in it
  jobs,      \* jobs[k]: the channel that hands out the hosts of subnet k
  worker,    \* worker[w]: goroutine w, what it does and with which host
  wg,        \* counter of the WaitGroup
  results,   \* the results channel
  closed,    \* the results channel is closed
  late,      \* the deadline of the context has passed
  found,     \* the map of servers: found[key] is the host that answered with key
  asked,     \* history: the jobs that were handed out
  answered   \* history: the answers that were read

vars == <<silent, main, jobs, worker, wg, results, closed, late, found, asked,
          answered>>

--------------------------------------------------------------------------------
Subnets == DOMAIN Hosts
Job == UNION {{<<k, i>> : i \in DOMAIN Hosts[k]} : k \in Subnets}
Answers == [host : AllHosts, key : Keys]

PoolSize(k) == IF Workers > Len(Hosts[k]) THEN Len(Hosts[k]) ELSE Workers
Pool(k) == {<<k, i>> : i \in 1 .. PoolSize(k)}
Worker == UNION {Pool(k) : k \in Subnets}

NotStarted == [pc |-> "none"]
Idle == [pc |-> "idle"]
Gone == [pc |-> "gone"]
Query(h) == [pc |-> "query", host |-> h]
Sending(a) == [pc |-> "send", answer |-> a]
WorkerState == {NotStarted, Idle, Gone} \cup {Query(h) : h \in AllHosts}
                 \cup {Sending(a) : a \in Answers}
Running == {w \in Worker : worker[w].pc \notin {"none", "gone"}}

At(pc, k, i) == main' = [pc |-> pc, subnet |-> k, next |-> i]

Init ==
  /\ silent \in SUBSET MaySilent
  /\ main = [pc |-> "subnet", subnet |-> 1, next |-> 1]
  /\ jobs = [k \in Subnets |-> "none"]
  /\ worker = [w \in Worker |-> NotStarted]
  /\ wg = 0
  /\ results = <<>>
  /\ closed = FALSE
  /\ late = FALSE
  /\ found = [key \in Keys |-> None]
  /\ asked = {}
  /\ answered = {}

channels == <<results, closed>>
history == <<silent, asked, answered>>

--------------------------------------------------------------------------------
(* Discover: handing out the hosts *)

\* Faulty Spawn: one Add for all the workers of the subnet.
SpawnAddsOne ==
  LET k == main.subnet
  IN  /\ main.pc = "subnet"
      /\ k \in Subnets
      /\ Hosts[k] # <<>>
      /\ jobs' = [jobs EXCEPT ![k] = "open"]
      /\ worker' = [w \in Worker |-> IF w \in Pool(k) THEN Idle ELSE worker[w]]
      /\ wg' = wg + 1
      /\ At("feed", k, 1)
      /\ UNCHANGED <<channels, late, found, history>>

Spawn ==
  LET k == main.subnet
  IN  /\ main.pc = "subnet"
      /\ k \in Subnets
      /\ Hosts[k] # <<>>
      /\ jobs' = [jobs EXCEPT ![k] = "open"]
      /\ worker' = [w \in Worker |-> IF w \in Pool(k) THEN Idle ELSE worker[w]]
      /\ wg' = wg + PoolSize(k)
      /\ At("feed", k, 1)
      /\ UNCHANGED <<channels, late, found, history>>

SkipSubnet ==
  /\ main.pc = "subnet"
  /\ main.subnet \in Subnets
  /\ Hosts[main.subnet] = <<>>
  /\ At("subnet", main.subnet + 1, 1)
  /\ UNCHANGED <<jobs, worker, wg, channels, late, found, history>>

Feeding == main.pc = "feed" /\ main.next \in DOMAIN Hosts[main.subnet]

\* The channel has no buffer: main and the worker take this step together.
HandOut(w) ==
  LET k == main.subnet
  IN  /\ Feeding
      /\ w \in Pool(k)
      /\ worker[w] = Idle
      /\ worker' = [worker EXCEPT ![w] = Query(Hosts[k][main.next])]
      /\ asked' = asked \cup {<<k, main.next>>}
      /\ At("feed", k, main.next + 1)
      /\ UNCHANGED <<silent, jobs, wg, channels, late, found, answered>>

\* Faulty GiveUp: the send of a job does not look at the context.
GiveUpNever ==
  /\ Feeding
  /\ late
  /\ UNCHANGED vars

\* break sendLoop
GiveUp ==
  /\ Feeding
  /\ late
  /\ At("feed", main.subnet, Len(Hosts[main.subnet]) + 1)
  /\ UNCHANGED <<jobs, worker, wg, channels, late, found, history>>

\* Faulty CloseJobs: the channel stays open.
CloseJobsForgotten ==
  /\ main.pc = "feed"
  /\ ~Feeding
  /\ At("subnet", main.subnet + 1, 1)
  /\ UNCHANGED <<jobs, worker, wg, channels, late, found, history>>

CloseJobs ==
  /\ main.pc = "feed"
  /\ ~Feeding
  /\ jobs' = [jobs EXCEPT ![main.subnet] = "closed"]
  /\ At("subnet", main.subnet + 1, 1)
  /\ UNCHANGED <<worker, wg, channels, late, found, history>>

--------------------------------------------------------------------------------
(* Discover: collecting the answers *)

\* The goroutine that waits for the workers starts with the collector.
StartCollecting ==
  /\ main.pc = "subnet"
  /\ main.subnet \notin Subnets
  /\ At("collect", main.subnet, 1)
  /\ UNCHANGED <<jobs, worker, wg, channels, late, found, history>>

CloseResults ==
  /\ main.pc = "collect"
  /\ wg = 0
  /\ ~closed
  /\ closed' = TRUE
  /\ UNCHANGED <<main, jobs, worker, wg, results, late, found, history>>

\* A server that is found twice is listed as it was found last.
Receive ==
  /\ main.pc = "collect"
  /\ results # <<>>
  /\ found' = [found EXCEPT ![Head(results).key] = Head(results).host]
  /\ results' = Tail(results)
  /\ UNCHANGED <<main, jobs, worker, wg, closed, late, history>>

Return ==
  /\ main.pc = "collect"
  /\ results = <<>>
  /\ closed
  /\ At("done", main.subnet, 1)
  /\ UNCHANGED <<jobs, worker, wg, channels, late, found, history>>

--------------------------------------------------------------------------------
(* A worker *)

Exit(w) == worker' = [worker EXCEPT ![w] = Gone] /\ wg' = wg - 1

\* Its select finds the channel closed or the context done.
Leave(w) ==
  /\ worker[w] = Idle
  /\ late \/ jobs[w[1]] = "closed"
  /\ Exit(w)
  /\ UNCHANGED <<main, jobs, channels, late, found, history>>

QueryAnswered(w, key) ==
  LET a == [host |-> worker[w].host, key |-> key]
  IN  /\ worker[w].pc = "query"
      /\ worker[w].host \notin silent
      /\ worker' = [worker EXCEPT ![w] = Sending(a)]
      /\ answered' = answered \cup {a}
      /\ UNCHANGED <<silent, main, jobs, wg, channels, late, found, asked>>

\* Faulty QueryFailed: the worker ends with its first query that fails.
QueryFailedEnds(w) ==
  /\ worker[w].pc = "query"
  /\ worker[w].host \in silent => late
  /\ Exit(w)
  /\ UNCHANGED <<main, jobs, channels, late, found, history>>

\* The datagram is refused, the answer is not a valid one, or none comes before the
\* deadline.
QueryFailed(w) ==
  /\ worker[w].pc = "query"
  /\ worker[w].host \in silent => late
  /\ worker' = [worker EXCEPT ![w] = Idle]
  /\ UNCHANGED <<main, jobs, wg, channels, late, found, history>>

\* Faulty Send: an answer that finds the channel full is dropped.
SendOrDrop(w) ==
  /\ worker[w].pc = "send"
  /\ results' = IF Len(results) < Cap THEN Append(results, worker[w].answer)
                ELSE results
  /\ worker' = [worker EXCEPT ![w] = Idle]
  /\ UNCHANGED <<main, jobs, wg, closed, late, found, history>>

Send(w) ==
  /\ worker[w].pc = "send"
  /\ Len(results) < Cap
  /\ results' = Append(results, worker[w].answer)
  /\ worker' = [worker EXCEPT ![w] = Idle]
  /\ UNCHANGED <<main, jobs, wg, closed, late, found, history>>

SendCancelled(w) ==
  /\ worker[w].pc = "send"
  /\ late
  /\ Exit(w)
  /\ UNCHANGED <<main, jobs, channels, late, found, history>>

--------------------------------------------------------------------------------
Deadline ==
  /\ main.pc # "done"
  /\ ~late
  /\ late' = TRUE
  /\ UNCHANGED <<main, jobs, worker, wg, channels, found, history>>

Returned == main.pc = "done" /\ UNCHANGED vars

MainStep ==
  \/ Spawn \/ SkipSubnet \/ GiveUp \/ CloseJobs \/ StartCollecting
  \/ CloseResults \/ Receive \/ Return
  \/ \E w \in Worker : HandOut(w)

WorkerStep(w) ==
  \/ Leave(w)
  \/ \E key \in Keys : QueryAnswered(w, key)
  \/ QueryFailed(w)
  \/ Send(w) \/ SendCancelled(w)

Next ==
  \/ MainStep
  \/ \E w \in Worker : WorkerStep(w)
  \/ Deadline
  \/ Returned

Spec == Init /\ [][Next]_vars

\* Every goroutine that can go on does, and a host that is not silent answers or
\* refuses.  Nothing is said of the deadline: it may come at any time or not at all.
Fairness == WF_vars(MainStep) /\ \A w \in Worker : WF_vars(WorkerStep(w))
FairSpec == Spec /\ Fairness

--------------------------------------------------------------------------------
(* Properties *)

\* The state has its shape.
TypeOK ==
  /\ silent \subseteq MaySilent
  /\ main \in [pc : {"subnet", "feed", "collect", "done"}, subnet : Nat \ {0},
               next : Nat \ {0}]
  /\ jobs \in [Subnets -> {"none", "open", "closed"}]
  /\ worker \in [Worker -> WorkerState]
  /\ wg \in Nat
  /\ results \in Seq(Answers) /\ Len(results) <= Cap
  /\ closed \in BOOLEAN
  /\ late \in BOOLEAN
  /\ found \in [Keys -> AllHosts \cup {None}]
  /\ asked \subseteq Job
  /\ answered \subseteq Answers

\* When the results channel is closed no worker is left to send on it (a send on a
\* closed channel ends the program), none to lower the WaitGroup again.
NoWorkerAfterClose == closed => Running = {}

\* A Discover that returned before its deadline has asked every host and lists every
\* server that answered, each at a host that gave its name.
EarlyResultComplete ==
  main.pc = "done" /\ ~late =>
    /\ asked = Job
    /\ \A a \in answered : [host |-> found[a.key], key |-> a.key] \in answered

\* Whatever address and mask an interface has when a discovery starts, the hosts it
\* takes from a subnet of a size to scan are exactly the ones to ask, at either end
\* of the address space too; from any other subnet it takes none.
HostsExact ==
  main.pc = "subnet" /\ main.subnet = 1 =>
    \A ip \in Addresses, ones \in 0 .. Width :
      IF Width - ones \in 2 .. ScanBits THEN Exact(HostsOf(ip, ones), ip, ones)
      ELSE HostsOf(ip, ones) = <<>>

\* Once its deadline has passed Discover returns, whatever its workers wait for.
Terminates == <>late => <>(main.pc = "done")

\* While hosts are handed out nobody reads the results: an answer finds room.
Room ==
  main.pc = "feed" /\ (\E w \in Worker : worker[w].pc = "send") => Len(results) < Cap

\* Every subnet has a worker more than silent hosts, or one for each host.
FewSilent ==
  \A k \in Subnets :
    \/ PoolSize(k) = Len(Hosts[k])
    \/ Cardinality({i \in DOMAIN Hosts[k] : Hosts[k][i] \in silent}) < PoolSize(k)

\* A deadline far enough away lets every host be asked, when the answers fit into
\* the channel and a subnet has more workers than silent hosts: both are needed.
EveryHostAsked == FewSilent /\ [](~late /\ Room) => <>(asked = Job)

\* Without silent hosts, and with room for the answers, Discover does not wait for
\* its deadline.
EndsEarly == silent = {} /\ [](~late /\ Room) => <>(main.pc = "done")

--------------------------------------------------------------------------------
(* The inductive invariant behind the safety properties (see                     *)
(* VpnDiscoveryProofs).                                                         *)

\* Where main stands, and that the workers of the subnets before it only have
\* started.
MainInv ==
  /\ main.subnet \in 1 .. Len(Hosts) + 1
  /\ main.pc = "feed" => /\ main.subnet \in Subnets
                         /\ main.next \in 1 .. Len(Hosts[main.subnet]) + 1
  /\ main.pc \in {"collect", "done"} => main.subnet = Len(Hosts) + 1
  /\ \A w \in Worker :
       w[1] > main.subnet \/ (w[1] = main.subnet /\ main.pc = "subnet") =>
         worker[w] = NotStarted

\* The WaitGroup counts the workers that run, and the channel is closed after them.
CloseInv ==
  /\ IsFiniteSet(Running) /\ wg = Cardinality(Running)
  /\ closed => main.pc \in {"collect", "done"} /\ Running = {}
  /\ main.pc = "done" => closed /\ results = <<>>

\* Before the deadline main leaves no host out.
AskedInv ==
  ~late =>
    \A k \in Subnets : \A i \in DOMAIN Hosts[k] :
      \/ k < main.subnet
      \/ main.pc = "feed" /\ k = main.subnet /\ i < main.next
      => <<k, i>> \in asked

\* What is sent and listed was answered, and before the deadline every answer is on
\* its way or listed.
AnswerInv ==
  /\ \A w \in Worker : worker[w].pc = "send" => worker[w].answer \in answered
  /\ \A i \in DOMAIN results : results[i] \in answered
  /\ \A key \in Keys :
       found[key] # None => [host |-> found[key], key |-> key] \in answered
  /\ ~late =>
       \A a \in answered :
         \/ found[a.key] # None
         \/ \E i \in DOMAIN results : results[i] = a
         \/ \E w \in Worker : worker[w] = Sending(a)

ScanInv == TypeOK /\ MainInv /\ CloseInv /\ AskedInv /\ AnswerInv

================================================================================
