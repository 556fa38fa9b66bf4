----------------------- MODULE RunnerLifecycle_proofs -----------------------
(***************************************************************************)
(* Proofs about RunnerLifecycle, for any number of variants and of Nexus   *)
(* features, any builders and whatever fails or whenever a signal comes.   *)
(*                                                                         *)
(* The deferred calls of runBatch say what a batch holds: a resource is    *)
(* held exactly while its release is deferred.  The invariant states this  *)
(* for each resource, that the calls are in the order of acquisition, and  *)
(* how far they go at each place of the main thread.  It says nothing of a *)
(* process that was killed, beyond the types.                              *)
(***************************************************************************)
EXTENDS RunnerLifecycle, SequenceTheorems, TLAPS

-----------------------------------------------------------------------------
(* The inductive invariant *)

\* Resources in the order in which a batch acquires them.
Rank(r) ==
  CASE r = "server" -> 1 [] r = "endpoints" -> 2 [] r = "proxy" -> 3
    [] r = "listener" -> 4 [] OTHER -> 5

\* At place p only resources of a lower rank than this are held.
Depth(p) ==
  CASE p \in {"start", "batch", "server", "returned"}    -> 1
    [] p \in {"caps", "endpoints", "denied", "failed"}   -> 2
    [] p = "proxy"                                       -> 3
    [] p = "listen"                                      -> 4
    [] p = "swap"                                        -> 5
    [] OTHER                                             -> 6

Has(s, r) == \E i \in 1..Len(s) : s[i] = r

Ordered(s) ==
  /\ s \in Seq(Resources)
  /\ \A i, j \in 1..Len(s) : i < j => Rank(s[i]) < Rank(s[j])

\* Places past the acquisition of a server, before the deferred calls.
Acquired ==
  {"caps", "endpoints", "denied", "failed", "proxy", "listen", "swap", "program",
   "build", "harness"}

\* What is held, and that its release is deferred.
Deferred ==
  /\ Ordered(defers)
  /\ \A r \in Resources : Has(defers, r) => Rank(r) < Depth(pc)
  /\ Has(defers, "server") => ~job.external
  /\ pc \in Acquired => (~job.external => Has(defers, "server"))
  /\ pc \in Acquired /\ Depth(pc) > 2 => Has(defers, "endpoints")
  /\ pc \in Acquired /\ Depth(pc) > 4 => Has(defers, "listener")
  /\ pc \in Acquired /\ Depth(pc) > 5 => Has(defers, "config")
  /\ servers = IF Has(defers, "server") THEN {batch} ELSE {}
  /\ proxyUp <=> Has(defers, "proxy")
  /\ listening <=> Has(defers, "listener")

\* The endpoints there are, are those the closure cleanup knows of; it loses them
\* one by one from the front.
Endpoints ==
  /\ endpoints = {Endpoint(created[i]) : i \in 1..Len(created)}
  /\ \A i, j \in 1..Len(created) : created[i] - i = created[j] - j
  /\ pc \in {"start", "batch", "server", "caps", "returned"} => created = <<>>
  /\ pc = "unwind" /\ ~Has(defers, "endpoints") => created = <<>>
  /\ pc \in Acquired \ {"denied", "failed"} =>
       \A i \in 1..Len(created) : created[i] = i
  /\ pc \in Acquired /\ Depth(pc) > 2 => Len(created) = nexusLeft

\* Places after the endpoints have been seen to, from the first to create on.
Creating == Acquired \ {"caps", "denied", "failed"}

\* Orphans of this or an earlier batch: on a dev server they go with it, and on
\* another those of this batch mean that its Nexus features have been taken out.
Orphaned ==
  /\ \A e \in orphans : e[1] <= batch
  /\ ~job.external => \A e \in orphans : e[1] = batch /\ Has(defers, "server")
  /\ ~job.external /\ Has(defers, "endpoints") => Has(defers, "server")
  /\ pc \in {"start", "batch", "server", "caps"} => \A e \in orphans : e[1] # batch
  /\ pc \in Creating /\ nexusLeft # 0 => \A e \in orphans : e[1] # batch

\* The batch's config, and the runner's while the batch holds it.
Settings ==
  /\ batch <= Batches \/ pc \in {"start", "batch", "returned"}
  /\ batch <= Batches + 1
  /\ pc = "server" => local = [Original EXCEPT !.caps = CapsOf(batch)]
  /\ pc \in Acquired =>
       /\ local = [server |-> IF job.external THEN External ELSE batch,
                   caps   |-> CapsOf(batch)]
       /\ IsVariant(batch) => ~job.external
  /\ Has(defers, "config") =>
       /\ config = local /\ env = local.caps
       /\ saved = [config |-> Original, env |-> 0]
  /\ ~Has(defers, "config") => config = Original /\ env = 0

\* The program and its directory.
OnDisk ==
  /\ pc = "start" => sig = "off"
  /\ pc # "start" /\ sig = "off" => job.prepared \/ job.retain
  /\ job.prepared => ~tempDir /\ program # "temp" /\ pc # "build"
  /\ pc = "build" => program = "none"
  /\ pc = "build" /\ sig # "destroyed" => tempDir
  /\ program = "temp" /\ sig # "destroyed" /\ pc # "returned" => tempDir
  /\ tempDir /\ pc # "build" => program = "temp" \/ job.builder = "leaving"
  /\ pc = "returned" /\ sig # "off" => (tempDir => program = "none")

IInv ==
  /\ TypeOK
  /\ pc # "killed" => Deferred /\ Endpoints /\ Orphaned /\ Settings /\ OnDisk

-----------------------------------------------------------------------------
(* Stacks of deferred calls *)

\* Deferring the release of d, of the highest rank so far, keeps the order.
LEMMA Push ==
  ASSUME NEW s, Ordered(s), NEW d \in Resources,
         \A r \in Resources : Has(s, r) => Rank(r) < Rank(d)
  PROVE  /\ Ordered(Append(s, d))
         /\ \A r \in Resources : Has(Append(s, d), r) <=> Has(s, r) \/ r = d
<1> DEFINE t == Append(s, d)
<1>1. s \in Seq(Resources)
  BY DEF Ordered
<1>2. t \in Seq(Resources) /\ Len(t) = Len(s) + 1 /\ t[Len(s) + 1] = d
      /\ \A i \in 1..Len(s) : t[i] = s[i]
  BY <1>1
<1>3. \A i \in 1..Len(s) : s[i] \in Resources /\ Has(s, s[i])
  BY <1>1 DEF Has
<1> HIDE DEF t
<1>4. ASSUME NEW i \in 1..Len(t), NEW j \in 1..Len(t), i < j
      PROVE  Rank(t[i]) < Rank(t[j])
  <2>1. i \in 1..Len(s) /\ t[i] = s[i]
    BY <1>1, <1>2, <1>4
  <2>2. CASE j = Len(s) + 1
    BY <1>2, <1>3, <2>1, <2>2
  <2>3. CASE j # Len(s) + 1
    <3>1. j \in 1..Len(s) /\ t[j] = s[j]
      BY <1>1, <1>2, <2>3
    <3>. QED  BY <1>4, <2>1, <3>1 DEF Ordered
  <2>. QED  BY <2>2, <2>3
<1>5. ASSUME NEW r \in Resources PROVE Has(t, r) <=> Has(s, r) \/ r = d
  <2>1. Has(t, r) => Has(s, r) \/ r = d
    BY <1>1, <1>2 DEF Has
  <2>2. Has(s, r) => Has(t, r)
    BY <1>1, <1>2 DEF Has
  <2>3. Len(s) + 1 \in 1..Len(t)
    BY <1>1, <1>2
  <2>. QED  BY <1>2, <2>1, <2>2, <2>3 DEF Has
<1>6. Ordered(t)
  BY <1>2, <1>4 DEF Ordered
<1>. QED  BY <1>5, <1>6 DEF t

\* Taking the last call off.
LEMMA Pop ==
  ASSUME NEW s, Ordered(s), s # <<>>
  PROVE  /\ Last(s) \in Resources /\ Has(s, Last(s))
         /\ Ordered(Front(s)) /\ Len(Front(s)) = Len(s) - 1
         /\ \A r \in Resources : Has(Front(s), r) <=> Has(s, r) /\ r # Last(s)
         /\ \A r \in Resources : Has(s, r) => Rank(r) <= Rank(Last(s))
<1> DEFINE t == Front(s)
           n == Len(s)
<1>1. s \in Seq(Resources) /\ n \in Nat \ {0} /\ n \in 1..n
  BY DEF Ordered
<1>2. t \in Seq(Resources) /\ Len(t) = n - 1 /\ \A i \in 1..(n - 1) : t[i] = s[i]
  <2>1. \A i \in 1..(n - 1) : s[i] \in Resources
    BY <1>1
  <2>2. n - 1 \in Nat
    BY <1>1
  <2> DEFINE u == SubSeq(s, 1, n - 1)
  <2>3. u \in Seq(Resources) /\ Len(u) = (IF 1 <= n - 1 THEN n - 1 - 1 + 1 ELSE 0)
        /\ \A i \in 1..(n - 1 - 1 + 1) : u[i] = s[1 + i - 1]
    BY <2>1, <2>2, SubSeqProperties
  <2>4. t = u
    BY DEF Front
  <2> HIDE DEF n, u
  <2>5. \A i \in 1..(n - 1) : 1 + i - 1 = i
    BY <2>2
  <2>6. n - 1 - 1 + 1 = n - 1 /\ (IF 1 <= n - 1 THEN n - 1 - 1 + 1 ELSE 0) = n - 1
    BY <2>2
  <2>. QED  BY <2>3, <2>4, <2>5, <2>6
<1>3. Last(s) = s[n] /\ s[n] \in Resources
  BY <1>1 DEF Last
<1>4. \A i, j \in 1..n : i < j => Rank(s[i]) < Rank(s[j])
  BY DEF Ordered
<1>5. \A r \in Resources : Rank(r) \in 1..5
  BY DEF Rank, Resources
<1>6. \A i \in 1..n : s[i] \in Resources /\ Rank(s[i]) \in 1..5
  BY <1>1, <1>5
<1> HIDE DEF t, n
<1>7. Ordered(t)
  <2>1. 1..(n - 1) \subseteq 1..n
    BY <1>1
  <2>2. ASSUME NEW i \in 1..Len(t), NEW j \in 1..Len(t), i < j
        PROVE  Rank(t[i]) < Rank(t[j])
    BY <1>2, <1>4, <2>1, <2>2
  <2>. QED  BY <1>2, <2>2 DEF Ordered
<1>8. \A i \in 1..n : i # n => i \in 1..(n - 1) /\ Rank(s[i]) < Rank(s[n])
  BY <1>1, <1>4
<1>9. ASSUME NEW r \in Resources PROVE Has(t, r) <=> Has(s, r) /\ r # s[n]
  <2>1. ASSUME Has(t, r) PROVE Has(s, r) /\ r # s[n]
    <3>1. PICK i \in 1..(n - 1) : t[i] = r
      BY <1>2, <2>1 DEF Has
    <3>2. i \in 1..n /\ i # n /\ s[i] = r
      BY <1>1, <1>2, <3>1
    <3>3. Rank(s[i]) < Rank(s[n])
      BY <1>8, <3>2
    <3>4. Rank(s[i]) \in Int
      BY <1>6, <3>2
    <3>5. r # s[n]
      BY <3>2, <3>3, <3>4
    <3>. QED  BY <3>2, <3>5 DEF Has, n
  <2>2. ASSUME Has(s, r), r # s[n] PROVE Has(t, r)
    <3>1. PICK i \in 1..n : s[i] = r
      BY <2>2 DEF Has, n
    <3>2. i # n
      BY <2>2, <3>1
    <3>. QED  BY <1>2, <1>8, <3>1, <3>2 DEF Has
  <2>. QED  BY <2>1, <2>2
<1>10. ASSUME NEW r \in Resources, Has(s, r) PROVE Rank(r) <= Rank(s[n])
  <2>1. PICK i \in 1..n : s[i] = r
    BY <1>10 DEF Has, n
  <2>2. CASE i = n
    BY <1>3, <1>5, <2>1, <2>2
  <2>3. CASE i # n
    <3>1. Rank(s[i]) < Rank(s[n])
      BY <1>8, <2>3
    <3>. QED  BY <1>6, <1>1, <2>1, <3>1
  <2>. QED  BY <2>2, <2>3
<1>11. Has(s, s[n])
  BY <1>1 DEF Has, n
<1>. QED  BY <1>2, <1>3, <1>7, <1>9, <1>10, <1>11 DEF t, n

\* No call is deferred: nothing is held.
LEMMA Empty == \A r : ~Has(<<>>, r)
  BY DEF Has

-----------------------------------------------------------------------------
(* Types *)

\* What a batch brings along is within the bounds.
LEMMA JobFacts ==
  ASSUME job \in Jobs
  PROVE  /\ Defaults \in 0..1 /\ Batches \in 1..MaxBatches
         /\ job.external \in BOOLEAN /\ job.prepared \in BOOLEAN
         /\ job.retain \in BOOLEAN
         /\ \A b \in 1..Batches : CapsOf(b) \in 0..MaxBatches /\ NexusOf(b) \in 0..MaxNexus
<1>1. /\ job.variants \in 0..MaxVariants /\ job.plain \in 0..1 /\ job.nexus \in 0..MaxNexus
      /\ job.external \in BOOLEAN /\ job.prepared \in BOOLEAN /\ job.retain \in BOOLEAN
      /\ job.plain + job.nexus + job.variants > 0
  BY DEF Jobs
<1>2. MaxVariants \in Nat /\ MaxNexus \in Nat \ {0}
  BY LifecycleAssumption
<1>3. Defaults \in 0..1 /\ Batches \in 1..MaxBatches
  BY <1>1, <1>2 DEF Defaults, HasDefault, Batches, MaxBatches
<1>4. ASSUME NEW b \in 1..Batches
      PROVE  CapsOf(b) \in 0..MaxBatches /\ NexusOf(b) \in 0..MaxNexus
  BY <1>1, <1>2, <1>3 DEF CapsOf, NexusOf, MaxBatches
<1>. QED  BY <1>1, <1>3, <1>4

\* Initially the state has its types.
LEMMA TypeInit == Init => TypeOK
<1>1. MaxVariants \in Nat /\ MaxNexus \in Nat \ {0} /\ MaxBatches \in Nat
  BY LifecycleAssumption DEF MaxBatches
<1>2. ASSUME Init PROVE Original \in Configs /\ 0 \in 0..MaxBatches
  BY <1>1 DEF Original, Configs, External, NoServer
<1>3. ASSUME Init PROVE saved \in [config : Configs, env : 0..MaxBatches]
  BY <1>2, <1>3 DEF Init
<1>4. ASSUME Init PROVE TypeOK
  <2>1. job \in Jobs /\ pc \in Locations /\ err \in BOOLEAN
        /\ sig \in {"off", "waiting", "destroyed"}
    BY <1>4 DEF Init, Locations
  <2>2. batch \in 1..(MaxBatches + 1) /\ nexusLeft \in 0..MaxNexus /\ env \in 0..MaxBatches
    BY <1>1, <1>2, <1>4 DEF Init
  <2>3. local \in Configs /\ config \in Configs
    BY <1>2, <1>4 DEF Init
  <2>4. defers \in Seq(Resources) /\ created \in Seq(1..MaxNexus)
        /\ Len(created) <= nexusLeft
    BY <1>4 DEF Init
  <2>5. servers = {} /\ endpoints = {} /\ orphans = {} /\ proxyUp \in BOOLEAN
        /\ listening \in BOOLEAN
        /\ program \in {"none", "temp", "prepared"} /\ tempDir \in BOOLEAN
    BY <1>4 DEF Init
  <2>. QED  BY <1>3, <1>4, <2>1, <2>2, <2>3, <2>4, <2>5 DEF TypeOK
<1>. QED  BY <1>4

\* Every step keeps the types; a process that was killed takes none.
LEMMA TypesKept ==
  ASSUME TypeOK, pc # "killed" => Deferred /\ Endpoints /\ Settings, Next
  PROVE  TypeOK'
<1>1. MaxVariants \in Nat /\ MaxNexus \in Nat \ {0} /\ MaxBatches \in Nat
      /\ MaxBatches >= 1 /\ External = MaxBatches + 1 /\ NoServer = 0
  BY LifecycleAssumption DEF MaxBatches, External, NoServer
<1>2. job \in Jobs
  BY DEF TypeOK
<1>3. Batches \in 1..MaxBatches
      /\ \A b \in 1..Batches : CapsOf(b) \in 0..MaxBatches /\ NexusOf(b) \in 0..MaxNexus
  BY <1>2, JobFacts
<1>4. pc \notin {"start", "batch", "returned", "killed"} => batch \in 1..Batches
  BY <1>1, <1>3 DEF Settings, TypeOK
<1>5. defers # <<>> /\ pc # "killed" => Front(defers) \in Seq(Resources)
  BY Pop DEF Deferred, Ordered
<1>6. \A d \in Resources : Append(defers, d) \in Seq(Resources)
  BY DEF TypeOK
<1>7. created # <<>> => Head(created) \in 1..MaxNexus /\ Tail(created) \in Seq(1..MaxNexus)
                        /\ Len(Tail(created)) <= Len(created)
  BY <1>1, HeadTailProperties DEF TypeOK
<1>10. CASE RunStarts
  BY <1>10 DEF RunStarts, TypeOK, Locations, configVars, endpointVars, serverVars,
      socketVars, programVars
<1>11. CASE StartBatch
  <2>1. CapsOf(batch) \in 0..MaxBatches /\ NexusOf(batch) \in 0..MaxNexus
    BY <1>3, <1>11 DEF StartBatch, TypeOK
  <2>2. local' \in Configs
    BY <2>1, <1>11 DEF StartBatch, TypeOK, Configs
  <2>3. nexusLeft' \in 0..MaxNexus /\ created' = <<>>
    BY <2>1, <1>11 DEF StartBatch
  <2>4. created' \in Seq(1..MaxNexus) /\ Len(created') <= nexusLeft'
    BY <1>1, <2>3
  <2>. QED  BY <2>2, <2>3, <1>11 DEF StartBatch, TypeOK, Locations, serverVars,
      socketVars, programVars
<1>12. CASE RunReturns
  BY <1>12 DEF RunReturns, DirAfterDestroy, TypeOK, Locations, configVars, endpointVars,
      serverVars, socketVars
<1>13. CASE StartDevServer
  <2>1. local' \in Configs /\ servers' \subseteq 1..MaxBatches
    <3>1. batch \in 1..MaxBatches /\ batch \in 0..External
      BY <1>1, <1>3, <1>4, <1>13 DEF StartDevServer
    <3>2. servers' \subseteq 1..MaxBatches
      BY <3>1, <1>13 DEF StartDevServer, TypeOK
    <3>3. local' = local \/ local' = [local EXCEPT !.server = batch]
      BY <1>13 DEF StartDevServer
    <3>. QED  BY <3>1, <3>2, <3>3 DEF TypeOK, Configs
  <2>2. defers' \in Seq(Resources)
    BY <1>6, <1>13 DEF StartDevServer, Defer, TypeOK, Resources
  <2>. QED  BY <2>1, <2>2, <1>13 DEF StartDevServer, Fails, TypeOK, Locations,
      endpointVars, socketVars, programVars
<1>14. CASE UseGivenServer
  BY <1>14 DEF UseGivenServer, Fails, TypeOK, Locations, configVars, endpointVars,
      serverVars, socketVars, programVars
<1>15. CASE AssertNamespaceCapabilities
  BY <1>15 DEF AssertNamespaceCapabilities, Fails, TypeOK, Locations, configVars,
      endpointVars, serverVars, socketVars, programVars
<1>16. CASE CreateEndpoint
  <2>1. Len(created) + 1 \in 1..MaxNexus /\ Len(created) < nexusLeft
    BY <1>1, <1>16 DEF CreateEndpoint, MoreToCreate, TypeOK
  <2>2. created' \in Seq(1..MaxNexus) /\ Len(created') <= nexusLeft
    BY <1>1, <2>1, <1>16 DEF CreateEndpoint, TypeOK
  <2>3. Endpoint(Len(created) + 1) \in (1..MaxBatches) \X (1..MaxNexus)
    BY <1>1, <1>3, <1>4, <2>1, <1>16 DEF CreateEndpoint, MoreToCreate, Endpoint
  <2>4. endpoints' \subseteq (1..MaxBatches) \X (1..MaxNexus)
    BY <2>3, <1>16 DEF CreateEndpoint, TypeOK
  <2>. QED  BY <1>1, <2>3, <1>16 DEF CreateEndpoint, MoreToCreate, TypeOK, configVars,
      socketVars, programVars
<1>17. CASE CreateEndpointDenied
  BY <1>17 DEF CreateEndpointDenied, MoreToCreate, TypeOK, Locations, configVars,
      endpointVars, serverVars, socketVars, programVars
<1>18. CASE CreateEndpointFails
  <2>1. Len(created) + 1 \in 1..MaxNexus
    BY <1>1, <1>18 DEF CreateEndpointFails, MoreToCreate, TypeOK
  <2>2. Endpoint(Len(created) + 1) \in (1..MaxBatches) \X (1..MaxNexus)
    BY <1>1, <1>3, <1>4, <2>1, <1>18 DEF CreateEndpointFails, MoreToCreate, Endpoint
  <2>3. orphans' \subseteq (1..MaxBatches) \X (1..MaxNexus)
    BY <2>2, <1>18 DEF CreateEndpointFails, TypeOK
  <2>. QED  BY <2>2, <1>18 DEF CreateEndpointFails, MoreToCreate, TypeOK, Locations,
      configVars, endpointVars, socketVars, programVars
<1>19. CASE DeleteEndpoint
  <2>1. batch \in 1..MaxBatches
    BY <1>1, <1>3, <1>4, <1>19 DEF DeleteEndpoint, CleaningUp
  <2>2. created' \in Seq(1..MaxNexus) /\ Len(created') <= nexusLeft
    BY <1>1, <1>7, <1>19 DEF DeleteEndpoint, TypeOK
  <2>3. Endpoint(Head(created)) \in (1..MaxBatches) \X (1..MaxNexus)
    BY <1>7, <2>1, <1>19 DEF DeleteEndpoint, Endpoint
  <2>4. endpoints' \subseteq (1..MaxBatches) \X (1..MaxNexus)
        /\ orphans' \subseteq (1..MaxBatches) \X (1..MaxNexus)
    BY <2>3, <1>19 DEF DeleteEndpoint, TypeOK
  <2>. QED  BY <2>3, <1>19 DEF DeleteEndpoint, TypeOK, configVars, socketVars,
      programVars
<1>20. CASE NexusSkipped
  BY <1>1, <1>20 DEF NexusSkipped, TypeOK, Locations, configVars, serverVars,
      socketVars, programVars
<1>21. CASE NexusFailed
  BY <1>21 DEF NexusFailed, Fails, TypeOK, Locations, configVars, endpointVars,
      serverVars, socketVars, programVars
<1>22. CASE EndpointsReady
  <2>1. defers' \in Seq(Resources)
    BY <1>6, <1>22 DEF EndpointsReady, Defer, TypeOK, Resources
  <2>. QED  BY <2>1, <1>22 DEF EndpointsReady, TypeOK, Locations, configVars,
      endpointVars, serverVars, socketVars, programVars
<1>23. CASE ProxyNotExpected
  BY <1>23 DEF ProxyNotExpected, TypeOK, Locations, configVars, endpointVars,
      serverVars, socketVars, programVars
<1>24. CASE StartProxy
  <2>1. defers' \in Seq(Resources)
    BY <1>6, <1>24 DEF StartProxy, Defer, TypeOK, Resources
  <2>. QED  BY <2>1, <1>24 DEF StartProxy, Fails, TypeOK, Locations, configVars,
      endpointVars, serverVars, programVars
<1>25. CASE Listen
  <2>1. defers' \in Seq(Resources)
    BY <1>6, <1>25 DEF Listen, Defer, TypeOK, Resources
  <2>. QED  BY <2>1, <1>25 DEF Listen, Fails, TypeOK, Locations, configVars,
      endpointVars, serverVars, programVars
<1>26. CASE SwapConfig
  <2>1. defers' \in Seq(Resources)
    BY <1>6, <1>26 DEF SwapConfig, Defer, TypeOK, Resources
  <2>2. saved' = [config |-> config, env |-> env]
    BY <1>26 DEF SwapConfig
  <2>3. saved' \in [config : Configs, env : 0..MaxBatches]
    BY <2>2 DEF TypeOK
  <2>4. config' \in Configs /\ env' \in 0..MaxBatches
    BY <1>1, <1>3, <1>4, <1>26 DEF SwapConfig, TypeOK, Configs
  <2>. QED  BY <2>1, <2>3, <2>4, <1>26 DEF SwapConfig, TypeOK, Locations, endpointVars,
      serverVars, socketVars, programVars
<1>27. CASE ProgramThere
  BY <1>27 DEF ProgramThere, Fails, TypeOK, Locations, configVars, endpointVars,
      serverVars, socketVars
<1>28. CASE BuildStarts
  BY <1>28 DEF BuildStarts, Fails, TypeOK, Locations, configVars, endpointVars,
      serverVars, socketVars
<1>29. CASE BuildSucceeds
  BY <1>29 DEF BuildSucceeds, TypeOK, Locations, configVars, endpointVars, serverVars,
      socketVars
<1>30. CASE BuildFails
  BY <1>30 DEF BuildFails, Fails, TypeOK, Locations, configVars, endpointVars,
      serverVars, socketVars
<1>31. CASE BatchDecides
  BY <1>31 DEF BatchDecides, TypeOK, Locations, configVars, endpointVars, serverVars,
      socketVars, programVars
<1>32. CASE RestoreConfig
  BY <1>5, <1>32 DEF RestoreConfig, Due, TypeOK, endpointVars, serverVars, socketVars,
      programVars
<1>33. CASE CloseListener
  BY <1>5, <1>33 DEF CloseListener, Due, TypeOK, configVars, endpointVars, serverVars,
      programVars
<1>34. CASE CloseProxy
  BY <1>5, <1>34 DEF CloseProxy, Due, TypeOK, configVars, endpointVars, serverVars,
      programVars
<1>35. CASE EndpointsCleaned
  BY <1>5, <1>35 DEF EndpointsCleaned, Due, TypeOK, configVars, endpointVars,
      serverVars, socketVars, programVars
<1>36. CASE StopDevServer
  BY <1>5, <1>36 DEF StopDevServer, Due, TypeOK, configVars, endpointVars, socketVars,
      programVars
<1>37. CASE BatchReturns
  BY <1>1, <1>3, <1>4, <1>37 DEF BatchReturns, TypeOK, Locations, configVars,
      endpointVars, serverVars, socketVars, programVars
<1>38. CASE SignalDestroys
  BY <1>38 DEF SignalDestroys, DirAfterDestroy, TypeOK, configVars, endpointVars,
      serverVars, socketVars
<1>39. CASE SignalExits
  BY <1>39 DEF SignalExits, TypeOK, Locations, configVars, endpointVars, serverVars,
      socketVars, programVars
<1>40. CASE Terminated
  BY <1>40 DEF Terminated, vars, TypeOK, configVars, endpointVars, serverVars,
      socketVars, programVars
<1>. QED  BY <1>10, <1>11, <1>12, <1>13, <1>14, <1>15, <1>16, <1>17, <1>18, <1>19,
      <1>20, <1>21, <1>22, <1>23, <1>24, <1>25, <1>26, <1>27, <1>28, <1>29, <1>30,
      <1>31, <1>32, <1>33, <1>34, <1>35, <1>36, <1>37, <1>38, <1>39, <1>40 DEF Next,
      Main

-----------------------------------------------------------------------------
(* Deferred calls *)

\* A deferred call that is due takes the resource of the highest rank off.
LEMMA Releases ==
  ASSUME Deferred, NEW d \in Resources, Due(d), defers' = Front(defers)
  PROVE  /\ Ordered(defers') /\ Has(defers, d)
         /\ \A r \in Resources : Has(defers', r) <=> Has(defers, r) /\ r # d
         /\ \A r \in Resources : Has(defers, r) => Rank(r) <= Rank(d)
<1>. QED  BY Pop DEF Due, Deferred

\* The resources, by name.
LEMMA ResourceNames ==
  /\ "server" \in Resources /\ "endpoints" \in Resources /\ "proxy" \in Resources
  /\ "listener" \in Resources /\ "config" \in Resources
<1>. QED  BY DEF Resources

\* Each step that acquires defers the release, and each deferred call releases one.
LEMMA DeferredKept ==
  ASSUME TypeOK, Deferred, Settings, pc # "killed", pc' # "killed", Next
  PROVE  Deferred'
<1> USE DEF Deferred
<1>1. /\ "server" \in Resources /\ "endpoints" \in Resources /\ "proxy" \in Resources
      /\ "listener" \in Resources /\ "config" \in Resources
  BY ResourceNames
<1>2. \A r \in Resources : Rank(r) < 6
  BY DEF Resources, Rank
<1>3. ASSUME NEW d \in Resources, defers' = Append(defers, d), Rank(d) = Depth(pc)
      PROVE  Ordered(defers')
             /\ \A r \in Resources : Has(defers', r) <=> Has(defers, r) \/ r = d
  BY <1>3, Push
<1>4. ASSUME NEW d \in Resources, Due(d), defers' = Front(defers)
      PROVE  /\ Ordered(defers') /\ Has(defers, d)
             /\ \A r \in Resources : Has(defers', r) <=> Has(defers, r) /\ r # d
             /\ \A r \in Resources : Has(defers, r) => Rank(r) <= Rank(d)
  BY <1>4, Pop DEF Due
<1>5. job.external \in BOOLEAN
  BY JobFacts DEF TypeOK
<1>6. pc = "server" => (local.server = NoServer <=> ~job.external)
  BY LifecycleAssumption DEF Settings, Original, External, NoServer, MaxBatches
<1>10. CASE RunStarts
  BY <1>10 DEF RunStarts, Depth, Acquired, serverVars, socketVars
<1>11. CASE StartBatch
  BY <1>11 DEF StartBatch, Depth, Acquired, serverVars, socketVars
<1>12. CASE RunReturns
  BY <1>12 DEF RunReturns, Depth, Acquired, serverVars, socketVars
<1>13. CASE StartDevServer
  <2>1. UNCHANGED <<job, batch>> /\ Rank("server") = Depth(pc)
    BY <1>13 DEF StartDevServer, Depth, Rank
  <2>2. CASE defers' = Append(defers, "server")
    <3>1. Ordered(defers')
          /\ \A r \in Resources : Has(defers', r) <=> Has(defers, r) \/ r = "server"
      BY <1>1, <1>3, <2>1, <2>2
    <3>. QED  BY <1>1, <1>6, <1>13, <3>1 DEF StartDevServer, Fails, Rank, Depth,
      socketVars
  <2>3. CASE UNCHANGED defers /\ Fails
    BY <1>2, <1>13, <2>3 DEF StartDevServer, Fails, Depth, Acquired, socketVars
  <2>. QED  BY <1>13, <2>2, <2>3 DEF StartDevServer, Defer
<1>14. CASE UseGivenServer
  BY <1>6, <1>14 DEF UseGivenServer, Fails, Depth, Acquired, Rank, serverVars,
      socketVars
<1>15. CASE AssertNamespaceCapabilities
  BY <1>2, <1>15 DEF AssertNamespaceCapabilities, Fails, Depth, Acquired, serverVars,
      socketVars
<1>16. CASE CreateEndpoint
  BY <1>16 DEF CreateEndpoint, MoreToCreate, socketVars
<1>17. CASE CreateEndpointDenied
  BY <1>17 DEF CreateEndpointDenied, MoreToCreate, Depth, Acquired, serverVars,
      socketVars
<1>18. CASE CreateEndpointFails
  BY <1>18 DEF CreateEndpointFails, MoreToCreate, Depth, Acquired, socketVars
<1>19. CASE DeleteEndpoint
  BY <1>19 DEF DeleteEndpoint, socketVars
<1>20. CASE NexusSkipped
  BY <1>20 DEF NexusSkipped, Depth, Acquired, serverVars, socketVars
<1>21. CASE NexusFailed
  BY <1>2, <1>21 DEF NexusFailed, Fails, Depth, Acquired, serverVars, socketVars
<1>22. CASE EndpointsReady
  <2>1. UNCHANGED <<job, batch>> /\ Rank("endpoints") = Depth(pc)
    BY <1>22 DEF EndpointsReady, Depth, Rank
  <2>2. Ordered(defers')
        /\ \A r \in Resources : Has(defers', r) <=> Has(defers, r) \/ r = "endpoints"
    BY <1>1, <1>3, <1>22, <2>1 DEF EndpointsReady, Defer
  <2>. QED  BY <1>1, <1>22, <2>2 DEF EndpointsReady, Rank, Depth, Acquired, serverVars,
      socketVars
<1>23. CASE ProxyNotExpected
  BY <1>23 DEF ProxyNotExpected, Depth, Acquired, Rank, serverVars, socketVars
<1>24. CASE StartProxy
  <2>1. UNCHANGED <<job, batch>> /\ Rank("proxy") = Depth(pc)
    BY <1>24 DEF StartProxy, Depth, Rank
  <2>2. CASE defers' = Append(defers, "proxy")
    <3>1. Ordered(defers')
          /\ \A r \in Resources : Has(defers', r) <=> Has(defers, r) \/ r = "proxy"
      BY <1>1, <1>3, <2>1, <2>2
    <3>. QED  BY <1>1, <1>24, <3>1 DEF StartProxy, Fails, Rank, Depth, Acquired,
      serverVars
  <2>3. CASE UNCHANGED defers /\ Fails
    BY <1>2, <1>24, <2>3 DEF StartProxy, Fails, Depth, Acquired, serverVars
  <2>. QED  BY <1>24, <2>2, <2>3 DEF StartProxy, Defer
<1>25. CASE Listen
  <2>1. UNCHANGED <<job, batch>> /\ Rank("listener") = Depth(pc)
    BY <1>25 DEF Listen, Depth, Rank
  <2>2. CASE defers' = Append(defers, "listener")
    <3>1. Ordered(defers')
          /\ \A r \in Resources : Has(defers', r) <=> Has(defers, r) \/ r = "listener"
      BY <1>1, <1>3, <2>1, <2>2
    <3>. QED  BY <1>1, <1>25, <3>1 DEF Listen, Fails, Rank, Depth, Acquired, serverVars
  <2>3. CASE UNCHANGED defers /\ Fails
    BY <1>2, <1>25, <2>3 DEF Listen, Fails, Depth, Acquired, serverVars
  <2>. QED  BY <1>25, <2>2, <2>3 DEF Listen, Defer
<1>26. CASE SwapConfig
  <2>1. UNCHANGED <<job, batch>> /\ Rank("config") = Depth(pc)
    BY <1>26 DEF SwapConfig, Depth, Rank
  <2>2. Ordered(defers')
        /\ \A r \in Resources : Has(defers', r) <=> Has(defers, r) \/ r = "config"
    BY <1>1, <1>3, <1>26, <2>1 DEF SwapConfig, Defer
  <2>. QED  BY <1>1, <1>2, <1>26, <2>2 DEF SwapConfig, Depth, Acquired, serverVars,
      socketVars
<1>27. CASE ProgramThere
  BY <1>27 DEF ProgramThere, Fails, Depth, Acquired, serverVars, socketVars
<1>28. CASE BuildStarts
  BY <1>28 DEF BuildStarts, Fails, Depth, Acquired, serverVars, socketVars
<1>29. CASE BuildSucceeds
  BY <1>29 DEF BuildSucceeds, Depth, Acquired, serverVars, socketVars
<1>30. CASE BuildFails
  BY <1>30 DEF BuildFails, Fails, Depth, Acquired, serverVars, socketVars
<1>31. CASE BatchDecides
  BY <1>31 DEF BatchDecides, Depth, Acquired, serverVars, socketVars
<1>32. CASE RestoreConfig
  <2>1. UNCHANGED <<job, batch, pc>> /\ pc = "unwind" /\ Due("config")
        /\ defers' = Front(defers)
    BY <1>32 DEF RestoreConfig, Due
  <2>2. /\ Ordered(defers') /\ Has(defers, "config")
        /\ \A r \in Resources : Has(defers', r) <=> Has(defers, r) /\ r # "config"
    BY <1>1, <1>4, <2>1
  <2>. QED  BY <1>1, <1>32, <2>1, <2>2 DEF RestoreConfig, Acquired, serverVars,
      socketVars
<1>33. CASE CloseListener
  <2>1. UNCHANGED <<job, batch, pc>> /\ pc = "unwind" /\ Due("listener")
        /\ defers' = Front(defers)
    BY <1>33 DEF CloseListener, Due
  <2>2. /\ Ordered(defers') /\ Has(defers, "listener")
        /\ \A r \in Resources : Has(defers', r) <=> Has(defers, r) /\ r # "listener"
    BY <1>1, <1>4, <2>1
  <2>. QED  BY <1>1, <1>33, <2>1, <2>2 DEF CloseListener, Acquired, serverVars
<1>34. CASE CloseProxy
  <2>1. UNCHANGED <<job, batch, pc>> /\ pc = "unwind" /\ Due("proxy")
        /\ defers' = Front(defers)
    BY <1>34 DEF CloseProxy, Due
  <2>2. /\ Ordered(defers') /\ Has(defers, "proxy")
        /\ \A r \in Resources : Has(defers', r) <=> Has(defers, r) /\ r # "proxy"
    BY <1>1, <1>4, <2>1
  <2>. QED  BY <1>1, <1>34, <2>2 DEF CloseProxy, serverVars
<1>35. CASE EndpointsCleaned
  <2>1. UNCHANGED <<job, batch, pc>> /\ pc = "unwind" /\ Due("endpoints")
        /\ defers' = Front(defers)
    BY <1>35 DEF EndpointsCleaned, Due
  <2>2. /\ Ordered(defers') /\ Has(defers, "endpoints")
        /\ \A r \in Resources : Has(defers', r) <=> Has(defers, r) /\ r # "endpoints"
    BY <1>1, <1>4, <2>1
  <2>. QED  BY <1>1, <1>35, <2>1, <2>2 DEF EndpointsCleaned, Acquired, serverVars,
      socketVars
<1>36. CASE StopDevServer
  <2>1. UNCHANGED <<job, batch, pc>> /\ pc = "unwind" /\ Due("server")
        /\ defers' = Front(defers)
    BY <1>36 DEF StopDevServer, Due
  <2>2. /\ Ordered(defers') /\ Has(defers, "server")
        /\ \A r \in Resources : Has(defers', r) <=> Has(defers, r) /\ r # "server"
    BY <1>1, <1>4, <2>1
  <2>. QED  BY <1>1, <1>36, <2>1, <2>2 DEF StopDevServer, Acquired, socketVars
<1>37. CASE BatchReturns
  BY <1>37, Empty DEF BatchReturns, Acquired, serverVars, socketVars
<1>38. CASE SignalDestroys
  BY <1>38 DEF SignalDestroys, serverVars, socketVars
<1>39. CASE SignalExits
  BY <1>39 DEF SignalExits
<1>40. CASE Terminated
  BY <1>40 DEF Terminated, vars, serverVars, socketVars
<1>. QED  BY <1>10, <1>11, <1>12, <1>13, <1>14, <1>15, <1>16, <1>17, <1>18, <1>19,
      <1>20, <1>21, <1>22, <1>23, <1>24, <1>25, <1>26, <1>27, <1>28, <1>29, <1>30,
      <1>31, <1>32, <1>33, <1>34, <1>35, <1>36, <1>37, <1>38, <1>39, <1>40 DEF Next,
      Main

-----------------------------------------------------------------------------
(* Endpoints *)

\* An endpoint is created after the last one known and deleted from the front, and a
\* server stops when there is none.
LEMMA EndpointsKept ==
  ASSUME TypeOK, Deferred, Deferred', Endpoints, Settings, pc # "killed", pc' # "killed", Next
  PROVE  Endpoints'
<1>1. created \in Seq(1..MaxNexus)
  BY DEF TypeOK
<1>2. MaxNexus \in Nat
  BY LifecycleAssumption
<1>10. CASE RunStarts
  BY <1>10 DEF RunStarts, Endpoints, Deferred, Depth, endpointVars, serverVars
<1>11. CASE StartBatch
  BY <1>11 DEF StartBatch, Endpoints, Deferred, Depth, serverVars
<1>12. CASE RunReturns
  BY <1>12 DEF RunReturns, Endpoints, Deferred, Depth, endpointVars, serverVars
<1>13. CASE StartDevServer
  BY <1>13 DEF StartDevServer, Endpoints, Deferred, Depth, Acquired, Fails, endpointVars
<1>14. CASE UseGivenServer
  BY <1>14 DEF UseGivenServer, Endpoints, Deferred, Depth, Acquired, Fails,
      endpointVars, serverVars
<1>15. CASE AssertNamespaceCapabilities
  BY <1>15 DEF AssertNamespaceCapabilities, Endpoints, Deferred, Depth, Acquired, Fails,
      endpointVars, serverVars
<1>16. CASE CreateEndpoint
  <2>1. created' = Append(created, Len(created) + 1) /\ pc = "endpoints"
        /\ UNCHANGED <<pc, batch>>
        /\ endpoints' = endpoints \cup {Endpoint(Len(created) + 1)}
    BY <1>16 DEF CreateEndpoint, MoreToCreate
  <2>2. Len(created') = Len(created) + 1 /\ created'[Len(created) + 1] = Len(created) + 1
        /\ \A i \in 1..Len(created) : created'[i] = created[i] /\ created[i] = i
    BY <1>1, <2>1 DEF Endpoints, Acquired
  <2>3. \A i \in 1..Len(created') : created'[i] = i
    BY <1>1, <2>2
  <2>4. \A i \in 1..Len(created') : i \in 1..Len(created) \/ i = Len(created) + 1
    BY <1>1, <2>2
  <2>5. \A i : i \in 1..Len(created) \/ i = Len(created) + 1 => i \in 1..Len(created')
    BY <1>1, <2>2
  <2>6. endpoints' = {Endpoint(created'[i]) : i \in 1..Len(created')}
    BY <2>1, <2>2, <2>4, <2>5 DEF Endpoints
  <2>7. endpoints' = {<<batch', created'[i]>> : i \in 1..Len(created')}
    BY <2>1, <2>6 DEF Endpoint
  <2>8. \A i, j \in 1..Len(created') : created'[i] - i = created'[j] - j
    BY <1>1, <2>2, <2>3
  <2>9. pc' = "endpoints"
    BY <2>1
  <2>. QED  BY <2>3, <2>7, <2>9 DEF Endpoints, Endpoint, Depth
<1>17. CASE CreateEndpointDenied
  BY <1>17 DEF CreateEndpointDenied, Endpoints, Endpoint, Deferred, Depth, endpointVars,
      serverVars
<1>18. CASE CreateEndpointFails
  BY <1>18 DEF CreateEndpointFails, Endpoints, Endpoint, Deferred, Depth, endpointVars
<1>19. CASE DeleteEndpoint
  <2>1. created # <<>> /\ created' = Tail(created) /\ UNCHANGED <<pc, batch, defers>>
        /\ endpoints' = endpoints \ {Endpoint(Head(created))}
               /\ pc \in {"denied", "failed", "unwind"}
    BY <1>19 DEF DeleteEndpoint, CleaningUp
  <2>2. Len(created') = Len(created) - 1
        /\ \A i \in 1..Len(created') : created'[i] = created[i + 1]
    BY <1>1, <2>1, HeadTailProperties
  <2>3. Len(created) \in Nat /\ 1 \in 1..Len(created) /\ Head(created) = created[1]
        /\ \A i \in 1..Len(created) : created[i] \in Nat
    <3>1. Len(created) \in Nat /\ Len(created) # 0
      BY <1>1, <2>1, EmptySeq
    <3>2. \A i \in 1..Len(created) : created[i] \in 1..MaxNexus
      BY <1>1, ElementOfSeq
    <3>3. Head(created) = created[1]
      BY <1>1, <2>1
    <3>. QED  BY <1>2, <3>1, <3>2, <3>3
  <2>4. \A i \in 1..Len(created') : i \in 1..Len(created) /\ i + 1 \in 1..Len(created)
    BY <2>2, <2>3
  <2>5. \A i, j \in 1..Len(created') : created'[i] - i = created'[j] - j
    <3>1. TAKE i, j \in 1..Len(created')
    <3>2. created[i + 1] - (i + 1) = created[j + 1] - (j + 1)
      BY <2>4 DEF Endpoints
    <3>3. created[i + 1] \in Nat /\ created[j + 1] \in Nat /\ i \in Int /\ j \in Int
      BY <2>3, <2>4
    <3>4. created'[i] = created[i + 1] /\ created'[j] = created[j + 1]
      BY <2>2
    <3>5. ASSUME NEW a \in Int, NEW b \in Int, a - (i + 1) = b - (j + 1)
          PROVE  a - i = b - j
      BY <3>3, <3>5
    <3>. QED  BY <3>2, <3>3, <3>4, <3>5
  <2>6. \A i \in 1..Len(created) : i # 1 => i - 1 \in 1..Len(created')
        /\ created[i] = created'[i - 1]
    <3>1. TAKE i \in 1..Len(created)
    <3>2. HAVE i # 1
    <3>3. i - 1 \in 1..Len(created')
      BY <2>2, <2>3, <3>2
    <3>4. created'[i - 1] = created[(i - 1) + 1] /\ (i - 1) + 1 = i
      BY <2>2, <3>3
    <3>. QED  BY <3>3, <3>4
  <2>7. \A i \in 1..Len(created) : i # 1 => created[i] # Head(created)
    <3>1. TAKE i \in 1..Len(created)
    <3>2. created[i] - i = created[1] - 1
      BY <2>3 DEF Endpoints
    <3>. QED  BY <2>3, <3>2
  <2>8. ASSUME NEW i \in 1..Len(created') PROVE created'[i] # Head(created)
    <3>1. i + 1 \in 1..Len(created) /\ i + 1 # 1
      BY <2>4
    <3>. QED  BY <2>2, <2>7, <3>1
  <2>9. endpoints' = {Endpoint(created'[i]) : i \in 1..Len(created')}
    <3>1. ASSUME NEW e \in endpoints' PROVE \E i \in 1..Len(created') : e = Endpoint(created'[i])
      <4>1. PICK i \in 1..Len(created) : e = Endpoint(created[i])
        BY <2>1, <3>1 DEF Endpoints
      <4>2. i # 1
        BY <2>1, <2>3, <3>1, <4>1
      <4>. QED  BY <2>6, <4>1, <4>2
    <3>2. ASSUME NEW i \in 1..Len(created') PROVE Endpoint(created'[i]) \in endpoints'
      <4>1. Endpoint(created'[i]) \in endpoints
        BY <2>2, <2>4 DEF Endpoints
      <4>2. Endpoint(created'[i]) # Endpoint(Head(created))
        BY <2>8 DEF Endpoint
      <4>. QED  BY <2>1, <4>1, <4>2
    <3>. QED  BY <3>1, <3>2
  <2>10. endpoints' = {<<batch', created'[i]>> : i \in 1..Len(created')}
    BY <2>1, <2>9 DEF Endpoint
  <2>11. pc = "unwind" => Has(defers, "endpoints")
    BY <2>1 DEF Endpoints
  <2>. QED  BY <2>1, <2>5, <2>10 DEF Endpoints, Endpoint, Acquired, Depth
<1>20. CASE NexusSkipped
  BY <1>20 DEF NexusSkipped, Endpoints, Deferred, serverVars
<1>21. CASE NexusFailed
  BY <1>21 DEF NexusFailed, Endpoints, Deferred, Acquired, Fails, endpointVars,
      serverVars
<1>22. CASE EndpointsReady
  <2>1. UNCHANGED <<batch, created, endpoints, nexusLeft>>
        /\ defers' = Append(defers, "endpoints")
        /\ pc = "endpoints" /\ Len(created) = nexusLeft /\ pc' \in {"unwind", "proxy"}
    BY <1>22 DEF EndpointsReady, Defer, endpointVars, serverVars
  <2>2. Has(defers', "endpoints")
    BY <2>1, ResourceNames, Push DEF Deferred, Depth, Rank
  <2>. QED  BY <2>1, <2>2 DEF Endpoints, Endpoint, Acquired, Depth
<1>23. CASE ProxyNotExpected
  BY <1>23 DEF ProxyNotExpected, Endpoints, Endpoint, Deferred, Depth, Acquired,
      endpointVars, serverVars
<1>24. CASE StartProxy
  BY <1>24 DEF StartProxy, Endpoints, Endpoint, Deferred, Depth, Acquired, Fails,
      endpointVars, serverVars
<1>25. CASE Listen
  BY <1>25 DEF Listen, Endpoints, Endpoint, Deferred, Depth, Acquired, Fails,
      endpointVars, serverVars
<1>26. CASE SwapConfig
  BY <1>26 DEF SwapConfig, Endpoints, Endpoint, Deferred, Depth, Acquired, endpointVars,
      serverVars
<1>27. CASE ProgramThere
  BY <1>27 DEF ProgramThere, Endpoints, Endpoint, Deferred, Depth, Acquired, Fails,
      endpointVars, serverVars
<1>28. CASE BuildStarts
  BY <1>28 DEF BuildStarts, Endpoints, Endpoint, Deferred, Depth, Acquired, Fails,
      endpointVars, serverVars
<1>29. CASE BuildSucceeds
  BY <1>29 DEF BuildSucceeds, Endpoints, Endpoint, Deferred, Depth, Acquired,
      endpointVars, serverVars
<1>30. CASE BuildFails
  BY <1>30 DEF BuildFails, Endpoints, Endpoint, Deferred, Depth, Acquired, Fails,
      endpointVars, serverVars
<1>31. CASE BatchDecides
  BY <1>31 DEF BatchDecides, Endpoints, Endpoint, Deferred, Depth, Acquired,
      endpointVars, serverVars
<1>32. CASE RestoreConfig
  <2>1. UNCHANGED <<pc, batch, created, endpoints>> /\ pc = "unwind"
    BY <1>32 DEF RestoreConfig, Due, endpointVars, serverVars
  <2>2. Has(defers, "endpoints") => Has(defers', "endpoints")
    BY <1>32, ResourceNames, Releases DEF RestoreConfig
  <2>. QED  BY <2>1, <2>2 DEF Endpoints, Endpoint, Acquired
<1>33. CASE CloseListener
  <2>1. UNCHANGED <<pc, batch, created, endpoints>> /\ pc = "unwind"
    BY <1>33 DEF CloseListener, Due, endpointVars, serverVars
  <2>2. Has(defers, "endpoints") => Has(defers', "endpoints")
    BY <1>33, ResourceNames, Releases DEF CloseListener
  <2>. QED  BY <2>1, <2>2 DEF Endpoints, Endpoint, Acquired
<1>34. CASE CloseProxy
  <2>1. UNCHANGED <<pc, batch, created, endpoints>> /\ pc = "unwind"
    BY <1>34 DEF CloseProxy, Due, endpointVars, serverVars
  <2>2. Has(defers, "endpoints") => Has(defers', "endpoints")
    BY <1>34, ResourceNames, Releases DEF CloseProxy
  <2>. QED  BY <2>1, <2>2 DEF Endpoints, Endpoint, Acquired
<1>35. CASE EndpointsCleaned
  BY <1>35 DEF EndpointsCleaned, Endpoints, Deferred, endpointVars, serverVars
<1>36. CASE StopDevServer
  <2>1. Last(defers) = "server" /\ defers # <<>> /\ pc = "unwind"
        /\ UNCHANGED <<pc, batch, created>>
    BY <1>36 DEF StopDevServer, Due, endpointVars
  <2>2. ~Has(defers, "endpoints")
    BY <2>1, Pop DEF Deferred, Rank, Resources
  <2>3. created = <<>> /\ endpoints = {}
    BY <2>1, <2>2 DEF Endpoints
  <2>4. endpoints' = {}
    BY <2>3, <1>36 DEF StopDevServer
  <2>. QED  BY <2>1, <2>3, <2>4 DEF Endpoints, Acquired
<1>37. CASE BatchReturns
  BY <1>37, Empty DEF BatchReturns, Endpoints, Deferred, endpointVars, serverVars
<1>38. CASE SignalDestroys
  BY <1>38 DEF SignalDestroys, Endpoints, Endpoint, Deferred, endpointVars, serverVars
<1>39. CASE SignalExits
  BY <1>39 DEF SignalExits
<1>40. CASE Terminated
  BY <1>40 DEF Terminated, vars, Endpoints, Endpoint, endpointVars, serverVars
<1>. QED  BY <1>10, <1>11, <1>12, <1>13, <1>14, <1>15, <1>16, <1>17, <1>18, <1>19,
      <1>20, <1>21, <1>22, <1>23, <1>24, <1>25, <1>26, <1>27, <1>28, <1>29, <1>30,
      <1>31, <1>32, <1>33, <1>34, <1>35, <1>36, <1>37, <1>38, <1>39, <1>40 DEF Next,
      Main

-----------------------------------------------------------------------------
(* Orphans *)

\* A step that makes no orphan keeps Orphaned, if it goes on in the batch and
\* stops no server.
LEMMA OrphansStay ==
  ASSUME Orphaned, UNCHANGED <<orphans, batch, job, nexusLeft>>,
         Has(defers, "server") => Has(defers', "server"),
         Has(defers', "endpoints") /\ ~job.external => Has(defers', "server"),
         pc' \in {"start", "batch", "server", "caps"} =>
           pc \in {"start", "batch", "server", "caps"},
         pc' \in Creating => pc \in Creating \/ pc = "caps"
  PROVE  Orphaned'
<1>. QED  BY DEF Orphaned

\* An orphan is of the batch under way, and goes with its dev server.
LEMMA OrphansKept ==
  ASSUME TypeOK, Deferred, Deferred', Orphaned, pc # "killed", pc' # "killed", Next
  PROVE  Orphaned'
<1>1. /\ "server" \in Resources /\ "endpoints" \in Resources /\ "proxy" \in Resources
      /\ "listener" \in Resources /\ "config" \in Resources
  BY ResourceNames
<1>2. /\ batch \in Nat /\ \A f : Endpoint(f)[1] = batch
      /\ \A e \in orphans : e[1] \in Nat
  BY LifecycleAssumption DEF TypeOK, Endpoint, MaxBatches
<1>3. job.external \in BOOLEAN
  BY JobFacts DEF TypeOK
<1>4. ASSUME NEW d \in Resources, defers' = Append(defers, d)
      PROVE  \A r \in Resources : Has(defers', r) <=> Has(defers, r) \/ r = d
  <2>1. defers \in Seq(Resources)
    BY DEF TypeOK
  <2>2. /\ Len(defers') = Len(defers) + 1 /\ defers'[Len(defers) + 1] = d
        /\ \A i \in 1..Len(defers) : defers'[i] = defers[i]
        /\ Len(defers) \in Nat
    BY <1>4, <2>1
  <2>. QED  BY <2>2 DEF Has
<1>5. ASSUME NEW d \in Resources, Due(d), defers' = Front(defers)
      PROVE  /\ \A r \in Resources : Has(defers', r) <=> Has(defers, r) /\ r # d
             /\ \A r \in Resources : Has(defers, r) => Rank(r) <= Rank(d)
  BY <1>5, Releases
<1> DEFINE Early == {"start", "batch", "server", "caps"}
<1>6. ASSUME UNCHANGED <<orphans, batch, job, nexusLeft, defers>>,
             pc' \in Early => pc \in Early, pc' \in Creating => pc \in Creating \/ pc = "caps"
      PROVE  Orphaned'
  BY <1>6, OrphansStay DEF Orphaned
<1>7. ASSUME NEW d \in Resources \ {"endpoints"}, defers' = Append(defers, d),
             UNCHANGED <<orphans, batch, job, nexusLeft>>,
             pc' \in Early => pc \in Early, pc' \in Creating => pc \in Creating \/ pc = "caps"
      PROVE  Orphaned'
  <2>1. \A r \in Resources : Has(defers', r) <=> Has(defers, r) \/ r = d
    BY <1>4, <1>7
  <2>. QED  BY <1>1, <1>7, <2>1, OrphansStay DEF Orphaned
<1>8. ASSUME NEW d \in Resources \ {"server"}, Due(d), defers' = Front(defers),
             UNCHANGED <<orphans, batch, job, nexusLeft, pc>>
      PROVE  Orphaned'
  <2>1. \A r \in Resources : Has(defers', r) <=> Has(defers, r) /\ r # d
    BY <1>5, <1>8
  <2>. QED  BY <1>1, <1>8, <2>1, OrphansStay DEF Orphaned
<1> USE DEF Creating, Acquired
<1>10. CASE RunStarts
  BY <1>6, <1>10 DEF RunStarts, endpointVars, serverVars
<1>11. CASE StartBatch
  BY <1>11 DEF StartBatch, Orphaned, serverVars
<1>12. CASE RunReturns
  BY <1>6, <1>12 DEF RunReturns, endpointVars, serverVars
<1>13. CASE StartDevServer
  BY <1>1, <1>6, <1>7, <1>13 DEF StartDevServer, Fails, Defer, endpointVars
<1>14. CASE UseGivenServer
  BY <1>6, <1>14 DEF UseGivenServer, Fails, endpointVars, serverVars
<1>15. CASE AssertNamespaceCapabilities
  BY <1>6, <1>15 DEF AssertNamespaceCapabilities, Fails, endpointVars, serverVars
<1>16. CASE CreateEndpoint
  BY <1>6, <1>16 DEF CreateEndpoint
<1>17. CASE CreateEndpointDenied
  BY <1>6, <1>17 DEF CreateEndpointDenied, endpointVars, serverVars
<1>18. CASE CreateEndpointFails
  <2>1. /\ UNCHANGED <<batch, job, nexusLeft, defers>> /\ pc = "endpoints" /\ pc' = "failed"
        /\ \A e \in orphans' : e \in orphans \/ e = Endpoint(Len(created) + 1)
    BY <1>18 DEF CreateEndpointFails, MoreToCreate, endpointVars
  <2>2. ~job.external => Has(defers, "server")
    BY <2>1 DEF Deferred, Acquired
  <2>3. \A e \in orphans' : e \in orphans \/ e[1] = batch
    BY <1>2, <2>1
  <2>. QED  BY <1>2, <2>1, <2>2, <2>3 DEF Orphaned
<1>19. CASE DeleteEndpoint
  <2>1. /\ UNCHANGED <<batch, job, nexusLeft, defers, pc>> /\ CleaningUp
        /\ \A e \in orphans' : e \in orphans \/ e = Endpoint(Head(created))
    BY <1>19 DEF DeleteEndpoint
  <2>2. ~job.external => Has(defers, "server")
    <3>1. CASE pc \in {"denied", "failed"}
      BY <3>1 DEF Deferred, Acquired
    <3>2. CASE pc = "unwind" /\ Due("endpoints")
      BY <1>1, <3>2, Pop DEF Due, Deferred, Orphaned
    <3>. QED  BY <2>1, <3>1, <3>2 DEF CleaningUp, Due
  <2>3. pc \in {"denied", "failed", "unwind"}
    BY <2>1 DEF CleaningUp
  <2>4. \A e \in orphans' : e \in orphans \/ e[1] = batch
    BY <1>2, <2>1
  <2>. QED  BY <1>2, <2>1, <2>2, <2>3, <2>4 DEF Orphaned
<1>20. CASE NexusSkipped
  BY <1>20 DEF NexusSkipped, Orphaned, serverVars
<1>21. CASE NexusFailed
  BY <1>6, <1>21 DEF NexusFailed, Fails, endpointVars, serverVars
<1>22. CASE EndpointsReady
  <2>1. /\ UNCHANGED <<orphans, batch, job, nexusLeft>> /\ pc = "endpoints"
        /\ defers' = Append(defers, "endpoints") /\ pc' \in {"unwind", "proxy"}
    BY <1>22 DEF EndpointsReady, Defer, endpointVars, serverVars
  <2>2. \A r \in Resources : Has(defers', r) <=> Has(defers, r) \/ r = "endpoints"
    BY <1>1, <1>4, <2>1
  <2>3. ~job.external => Has(defers, "server")
    BY <2>1 DEF Deferred, Acquired
  <2>. QED  BY <1>1, <2>1, <2>2, <2>3, OrphansStay
<1>23. CASE ProxyNotExpected
  BY <1>6, <1>23 DEF ProxyNotExpected, endpointVars, serverVars
<1>24. CASE StartProxy
  BY <1>1, <1>6, <1>7, <1>24 DEF StartProxy, Fails, Defer, endpointVars, serverVars
<1>25. CASE Listen
  BY <1>1, <1>6, <1>7, <1>25 DEF Listen, Fails, Defer, endpointVars, serverVars
<1>26. CASE SwapConfig
  BY <1>1, <1>7, <1>26 DEF SwapConfig, Defer, endpointVars, serverVars
<1>27. CASE ProgramThere
  BY <1>6, <1>27 DEF ProgramThere, Fails, endpointVars, serverVars
<1>28. CASE BuildStarts
  BY <1>6, <1>28 DEF BuildStarts, Fails, endpointVars, serverVars
<1>29. CASE BuildSucceeds
  BY <1>6, <1>29 DEF BuildSucceeds, endpointVars, serverVars
<1>30. CASE BuildFails
  BY <1>6, <1>30 DEF BuildFails, Fails, endpointVars, serverVars
<1>31. CASE BatchDecides
  BY <1>6, <1>31 DEF BatchDecides, endpointVars, serverVars
<1>32. CASE RestoreConfig
  BY <1>1, <1>8, <1>32 DEF RestoreConfig, endpointVars, serverVars
<1>33. CASE CloseListener
  BY <1>1, <1>8, <1>33 DEF CloseListener, endpointVars, serverVars
<1>34. CASE CloseProxy
  BY <1>1, <1>8, <1>34 DEF CloseProxy, endpointVars, serverVars
<1>35. CASE EndpointsCleaned
  BY <1>1, <1>8, <1>35 DEF EndpointsCleaned, endpointVars, serverVars
<1>36. CASE StopDevServer
  <2>1. /\ UNCHANGED <<batch, job, pc>> /\ pc = "unwind" /\ Due("server")
        /\ defers' = Front(defers) /\ orphans' = {e \in orphans : e[1] # batch}
    BY <1>36 DEF StopDevServer, Due
  <2>2. Has(defers, "server") /\ ~Has(defers', "endpoints")
    <3>1. Has(defers, "server")
      BY <1>1, <2>1, Releases
    <3>2. ~Has(defers, "endpoints")
      BY <1>1, <1>5, <2>1 DEF Rank
    <3>. QED  BY <1>1, <1>5, <2>1, <3>1, <3>2
  <2>3. orphans' = {}
    BY <2>1, <2>2 DEF Deferred, Orphaned
  <2>. QED  BY <2>2, <2>3 DEF Orphaned
<1>37. CASE BatchReturns
  <2>1. /\ UNCHANGED <<job, orphans, defers>> /\ batch' = batch + 1 /\ pc' = "batch"
        /\ defers = <<>>
    BY <1>37 DEF BatchReturns, serverVars
  <2>2. ~Has(defers, "server") /\ ~Has(defers, "endpoints")
    BY <2>1, Empty
  <2>3. \A e \in orphans : e[1] <= batch' /\ e[1] # batch'
    BY <1>2, <2>1 DEF Orphaned
  <2>. QED  BY <2>1, <2>2, <2>3 DEF Orphaned
<1>38. CASE SignalDestroys
  BY <1>6, <1>38 DEF SignalDestroys, endpointVars, serverVars
<1>39. CASE SignalExits
  BY <1>39 DEF SignalExits
<1>40. CASE Terminated
  BY <1>6, <1>40 DEF Terminated, vars, endpointVars, serverVars
<1>. QED  BY <1>10, <1>11, <1>12, <1>13, <1>14, <1>15, <1>16, <1>17, <1>18, <1>19,
      <1>20, <1>21, <1>22, <1>23, <1>24, <1>25, <1>26, <1>27, <1>28, <1>29, <1>30,
      <1>31, <1>32, <1>33, <1>34, <1>35, <1>36, <1>37, <1>38, <1>39, <1>40 DEF Next,
      Main

-----------------------------------------------------------------------------
(* The config and the environment *)

\* A batch works on its copy of the config; what it swaps in it takes out again.
LEMMA SettingsKept ==
  ASSUME TypeOK, Deferred, Deferred', Settings, pc # "killed", pc' # "killed", Next
  PROVE  Settings'
<1>1. Batches \in Nat /\ batch \in Nat
  BY JobFacts DEF TypeOK
<1>2. job.external \in BOOLEAN /\ External # NoServer
  BY JobFacts, LifecycleAssumption DEF TypeOK, External, NoServer, MaxBatches
<1>3. pc \in {"batch", "server"} => ~Has(defers, "config") /\ config = Original
  BY ResourceNames DEF Deferred, Settings, Rank, Depth
<1>10. CASE RunStarts
  BY <1>10 DEF RunStarts, Settings, Original, Batches, Defaults, HasDefault, Acquired,
      configVars
<1>11. CASE StartBatch
  BY <1>3, <1>11 DEF StartBatch, Settings, Original, Batches, Defaults, HasDefault,
      CapsOf, Acquired
<1>12. CASE RunReturns
  BY <1>12 DEF RunReturns, Settings, Original, Batches, Defaults, HasDefault, Acquired,
      configVars
<1>13. CASE StartDevServer
  <2>1. CASE UNCHANGED defers
    BY <1>2, <1>3, <1>13, <2>1 DEF StartDevServer, Fails, Settings, Original, Batches,
        Defaults, HasDefault, CapsOf, Acquired
  <2>2. CASE defers' = Append(defers, "server")
    <3>1. Rank("server") = Depth(pc)
      BY <1>13 DEF StartDevServer, Rank, Depth
    <3>2. Has(defers, "config") <=> Has(defers', "config")
      BY <2>2, <3>1, ResourceNames, Push DEF Deferred
    <3>. QED  BY <1>2, <1>3, <1>13, <3>2 DEF StartDevServer, Fails, Settings, Original,
      Batches, Defaults, HasDefault, CapsOf, Acquired
  <2>. QED  BY <1>13, <2>1, <2>2 DEF StartDevServer, Defer
<1>14. CASE UseGivenServer
  BY <1>14 DEF UseGivenServer, Fails, Settings, Original, Batches, Defaults, HasDefault,
      IsVariant, CapsOf, Acquired, configVars
<1>15. CASE AssertNamespaceCapabilities
  BY <1>15 DEF AssertNamespaceCapabilities, Fails, Settings, Original, Batches,
      Defaults, HasDefault, IsVariant, CapsOf, Acquired, configVars
<1>16. CASE CreateEndpoint
  BY <1>16 DEF CreateEndpoint, MoreToCreate, Settings, Original, Batches, Defaults,
      HasDefault, IsVariant, CapsOf, configVars
<1>17. CASE CreateEndpointDenied
  BY <1>17 DEF CreateEndpointDenied, MoreToCreate, Settings, Original, Batches,
      Defaults, HasDefault, IsVariant, CapsOf, Acquired, configVars
<1>18. CASE CreateEndpointFails
  BY <1>18 DEF CreateEndpointFails, MoreToCreate, Settings, Original, Batches, Defaults,
      HasDefault, IsVariant, CapsOf, Acquired, configVars
<1>19. CASE DeleteEndpoint
  BY <1>19 DEF DeleteEndpoint, Settings, Original, Batches, Defaults, HasDefault,
      IsVariant, CapsOf, configVars
<1>20. CASE NexusSkipped
  BY <1>20 DEF NexusSkipped, Settings, Original, Batches, Defaults, HasDefault,
      IsVariant, CapsOf, Acquired, configVars
<1>21. CASE NexusFailed
  BY <1>21 DEF NexusFailed, Fails, Settings, Original, Batches, Defaults, HasDefault,
      Acquired, configVars
<1>22. CASE EndpointsReady
  <2>1. pc = "endpoints" /\ defers' = Append(defers, "endpoints")
    BY <1>22 DEF EndpointsReady, Defer
  <2>2. Rank("endpoints") = Depth(pc)
    BY <2>1 DEF Rank, Depth
  <2>3. Has(defers, "config") <=> Has(defers', "config")
    BY <2>1, <2>2, ResourceNames, Push DEF Deferred
  <2>. QED  BY <1>22, <2>3 DEF EndpointsReady, Settings, Original, Batches, Defaults,
      HasDefault, IsVariant, CapsOf, Acquired, configVars
<1>23. CASE ProxyNotExpected
  BY <1>23 DEF ProxyNotExpected, Settings, Original, Batches, Defaults, HasDefault,
      IsVariant, CapsOf, Acquired, configVars
<1>24. CASE StartProxy
  <2>1. CASE UNCHANGED defers
    BY <1>24, <2>1 DEF StartProxy, Fails, Settings, Original, Batches, Defaults,
        HasDefault, IsVariant, CapsOf, Acquired, configVars
  <2>2. CASE defers' = Append(defers, "proxy")
    <3>1. Rank("proxy") = Depth(pc)
      BY <1>24 DEF StartProxy, Rank, Depth
    <3>2. Has(defers, "config") <=> Has(defers', "config")
      BY <2>2, <3>1, ResourceNames, Push DEF Deferred
    <3>. QED  BY <1>24, <3>2 DEF StartProxy, Fails, Settings, Original, Batches,
      Defaults, HasDefault, IsVariant, CapsOf, Acquired, configVars
  <2>. QED  BY <1>24, <2>1, <2>2 DEF StartProxy, Defer
<1>25. CASE Listen
  <2>1. CASE UNCHANGED defers
    BY <1>25, <2>1 DEF Listen, Fails, Settings, Original, Batches, Defaults, HasDefault,
        IsVariant, CapsOf, Acquired, configVars
  <2>2. CASE defers' = Append(defers, "listener")
    <3>1. Rank("listener") = Depth(pc)
      BY <1>25 DEF Listen, Rank, Depth
    <3>2. Has(defers, "config") <=> Has(defers', "config")
      BY <2>2, <3>1, ResourceNames, Push DEF Deferred
    <3>. QED  BY <1>25, <3>2 DEF Listen, Fails, Settings, Original, Batches, Defaults,
      HasDefault, IsVariant, CapsOf, Acquired, configVars
  <2>. QED  BY <1>25, <2>1, <2>2 DEF Listen, Defer
<1>26. CASE SwapConfig
  <2>1. ~Has(defers, "config")
    BY <1>26, ResourceNames DEF SwapConfig, Deferred, Rank, Depth
  <2>2. Has(defers', "config")
    BY <1>26, ResourceNames, Push DEF SwapConfig, Defer, Deferred, Rank, Depth
  <2>3. config = Original /\ env = 0
    BY <2>1 DEF Settings
  <2>. QED  BY <1>26, <2>2, <2>3 DEF SwapConfig, Settings, Original, Batches, Defaults,
      HasDefault, IsVariant, CapsOf, Acquired
<1>27. CASE ProgramThere
  BY <1>27 DEF ProgramThere, Fails, Settings, Original, Batches, Defaults, HasDefault,
      IsVariant, CapsOf, Acquired, configVars
<1>28. CASE BuildStarts
  BY <1>28 DEF BuildStarts, Fails, Settings, Original, Batches, Defaults, HasDefault,
      IsVariant, CapsOf, Acquired, configVars
<1>29. CASE BuildSucceeds
  BY <1>29 DEF BuildSucceeds, Settings, Original, Batches, Defaults, HasDefault,
      IsVariant, CapsOf, Acquired, configVars
<1>30. CASE BuildFails
  BY <1>30 DEF BuildFails, Fails, Settings, Original, Batches, Defaults, HasDefault,
      Acquired, configVars
<1>31. CASE BatchDecides
  BY <1>31 DEF BatchDecides, Settings, Original, Batches, Defaults, HasDefault,
      Acquired, configVars
<1>32. CASE RestoreConfig
  <2>1. Has(defers, "config") /\ ~Has(defers', "config")
    BY <1>32, ResourceNames, Releases DEF RestoreConfig
  <2>2. config' = Original /\ env' = 0
    BY <1>32, <2>1 DEF RestoreConfig, Settings
  <2>3. pc = "unwind" /\ UNCHANGED <<job, pc, batch>>
    BY <1>32 DEF RestoreConfig, Due
  <2>. QED  BY <2>1, <2>2, <2>3 DEF Settings, Original, Batches, Defaults, HasDefault,
      Acquired
<1>33. CASE CloseListener
  <2>1. UNCHANGED <<job, pc, batch, config, env, local, saved>> /\ pc = "unwind"
    BY <1>33 DEF CloseListener, Due, configVars
  <2>2. Has(defers, "config") <=> Has(defers', "config")
    BY <1>33, ResourceNames, Releases DEF CloseListener
  <2>. QED  BY <2>1, <2>2 DEF Settings, Acquired, Original, Batches, Defaults,
      HasDefault
<1>34. CASE CloseProxy
  <2>1. UNCHANGED <<job, pc, batch, config, env, local, saved>> /\ pc = "unwind"
    BY <1>34 DEF CloseProxy, Due, configVars
  <2>2. Has(defers, "config") <=> Has(defers', "config")
    BY <1>34, ResourceNames, Releases DEF CloseProxy
  <2>. QED  BY <2>1, <2>2 DEF Settings, Acquired, Original, Batches, Defaults,
      HasDefault
<1>35. CASE EndpointsCleaned
  <2>1. UNCHANGED <<job, pc, batch, config, env, local, saved>> /\ pc = "unwind"
    BY <1>35 DEF EndpointsCleaned, Due, configVars
  <2>2. Has(defers, "config") <=> Has(defers', "config")
    BY <1>35, ResourceNames, Releases DEF EndpointsCleaned
  <2>. QED  BY <2>1, <2>2 DEF Settings, Acquired, Original, Batches, Defaults,
      HasDefault
<1>36. CASE StopDevServer
  <2>1. UNCHANGED <<job, pc, batch, config, env, local, saved>> /\ pc = "unwind"
    BY <1>36 DEF StopDevServer, Due, configVars
  <2>2. Has(defers, "config") <=> Has(defers', "config")
    BY <1>36, ResourceNames, Releases DEF StopDevServer
  <2>. QED  BY <2>1, <2>2 DEF Settings, Acquired, Original, Batches, Defaults,
      HasDefault
<1>37. CASE BatchReturns
  BY <1>1, <1>37 DEF BatchReturns, Settings, Original, Batches, Defaults, HasDefault,
      Acquired, configVars
<1>38. CASE SignalDestroys
  BY <1>38 DEF SignalDestroys, Settings, Original, Batches, Defaults, HasDefault,
      IsVariant, CapsOf, configVars
<1>39. CASE SignalExits
  BY <1>39 DEF SignalExits
<1>40. CASE Terminated
  BY <1>40 DEF Terminated, vars, Settings, Original, Batches, Defaults, HasDefault,
      IsVariant, CapsOf, configVars
<1>. QED  BY <1>10, <1>11, <1>12, <1>13, <1>14, <1>15, <1>16, <1>17, <1>18, <1>19,
      <1>20, <1>21, <1>22, <1>23, <1>24, <1>25, <1>26, <1>27, <1>28, <1>29, <1>30,
      <1>31, <1>32, <1>33, <1>34, <1>35, <1>36, <1>37, <1>38, <1>39, <1>40 DEF Next,
      Main

-----------------------------------------------------------------------------
(* The program *)

\* The directory is there from its making until a failed build, the end of Run or a
\* signal takes it away.
LEMMA OnDiskKept ==
  ASSUME TypeOK, OnDisk, pc # "killed", pc' # "killed", Next
  PROVE  OnDisk'
<1>1. job.prepared \in BOOLEAN /\ job.retain \in BOOLEAN
  BY JobFacts DEF TypeOK
<1>10. CASE RunStarts
  BY <1>1, <1>10 DEF RunStarts, OnDisk, TypeOK, programVars
<1>11. CASE StartBatch
  BY <1>1, <1>11 DEF StartBatch, OnDisk, TypeOK, programVars
<1>12. CASE RunReturns
  BY <1>12 DEF RunReturns, DirAfterDestroy, OnDisk, TypeOK
<1>13. CASE StartDevServer
  BY <1>13 DEF StartDevServer, Fails, OnDisk, TypeOK, programVars
<1>14. CASE UseGivenServer
  BY <1>14 DEF UseGivenServer, Fails, OnDisk, TypeOK, programVars
<1>15. CASE AssertNamespaceCapabilities
  BY <1>15 DEF AssertNamespaceCapabilities, Fails, OnDisk, TypeOK, programVars
<1>16. CASE CreateEndpoint
  BY <1>16 DEF CreateEndpoint, MoreToCreate, OnDisk, TypeOK, programVars
<1>17. CASE CreateEndpointDenied
  BY <1>17 DEF CreateEndpointDenied, MoreToCreate, OnDisk, TypeOK, programVars
<1>18. CASE CreateEndpointFails
  BY <1>18 DEF CreateEndpointFails, MoreToCreate, OnDisk, TypeOK, programVars
<1>19. CASE DeleteEndpoint
  BY <1>19 DEF DeleteEndpoint, OnDisk, TypeOK, programVars
<1>20. CASE NexusSkipped
  BY <1>1, <1>20 DEF NexusSkipped, OnDisk, TypeOK, programVars
<1>21. CASE NexusFailed
  BY <1>21 DEF NexusFailed, Fails, OnDisk, TypeOK, programVars
<1>22. CASE EndpointsReady
  BY <1>1, <1>22 DEF EndpointsReady, OnDisk, TypeOK, programVars
<1>23. CASE ProxyNotExpected
  BY <1>1, <1>23 DEF ProxyNotExpected, OnDisk, TypeOK, programVars
<1>24. CASE StartProxy
  BY <1>24 DEF StartProxy, Fails, OnDisk, TypeOK, programVars
<1>25. CASE Listen
  BY <1>25 DEF Listen, Fails, OnDisk, TypeOK, programVars
<1>26. CASE SwapConfig
  BY <1>1, <1>26 DEF SwapConfig, OnDisk, TypeOK, programVars
<1>27. CASE ProgramThere
  BY <1>27 DEF ProgramThere, Fails, OnDisk, TypeOK
<1>28. CASE BuildStarts
  BY <1>28 DEF BuildStarts, Fails, OnDisk, TypeOK
<1>29. CASE BuildSucceeds
  BY <1>1, <1>29 DEF BuildSucceeds, OnDisk, TypeOK, programVars
<1>30. CASE BuildFails
  BY <1>30 DEF BuildFails, Fails, OnDisk, TypeOK
<1>31. CASE BatchDecides
  BY <1>1, <1>31 DEF BatchDecides, OnDisk, TypeOK, programVars
<1>32. CASE RestoreConfig
  BY <1>32 DEF RestoreConfig, OnDisk, TypeOK, programVars
<1>33. CASE CloseListener
  BY <1>33 DEF CloseListener, OnDisk, TypeOK, programVars
<1>34. CASE CloseProxy
  BY <1>34 DEF CloseProxy, OnDisk, TypeOK, programVars
<1>35. CASE EndpointsCleaned
  BY <1>35 DEF EndpointsCleaned, OnDisk, TypeOK, programVars
<1>36. CASE StopDevServer
  BY <1>36 DEF StopDevServer, OnDisk, TypeOK, programVars
<1>37. CASE BatchReturns
  BY <1>1, <1>37 DEF BatchReturns, OnDisk, TypeOK, programVars
<1>38. CASE SignalDestroys
  BY <1>38 DEF SignalDestroys, DirAfterDestroy, OnDisk, TypeOK
<1>39. CASE SignalExits
  BY <1>39 DEF SignalExits
<1>40. CASE Terminated
  BY <1>40 DEF Terminated, vars, OnDisk, programVars
<1>. QED  BY <1>10, <1>11, <1>12, <1>13, <1>14, <1>15, <1>16, <1>17, <1>18, <1>19,
      <1>20, <1>21, <1>22, <1>23, <1>24, <1>25, <1>26, <1>27, <1>28, <1>29, <1>30,
      <1>31, <1>32, <1>33, <1>34, <1>35, <1>36, <1>37, <1>38, <1>39, <1>40 DEF Next,
      Main

-----------------------------------------------------------------------------
(* The theorems *)

\* Initially nothing is held.
LEMMA InvInit == Init => IInv
<1> SUFFICES ASSUME Init PROVE IInv
  OBVIOUS
<1>1. TypeOK
  BY TypeInit
<1>2. pc = "start" /\ defers = <<>> /\ created = <<>> /\ Len(created) = 0 /\ Len(defers) = 0
  BY DEF Init
<1>3. Deferred
  <2>1. Ordered(defers)
    BY <1>1, <1>2 DEF Ordered, TypeOK
  <2>. QED  BY <1>2, <2>1, Empty DEF Init, Deferred, Acquired
<1>4. Endpoints
  <2>1. endpoints = {Endpoint(created[i]) : i \in 1..Len(created)}
    BY <1>2 DEF Init
  <2>. QED  BY <1>2, <2>1 DEF Endpoints, Acquired
<1>5. Settings
  <2>1. Batches \in Nat \ {0} /\ batch = 1
    BY JobFacts DEF Init
  <2>. QED  BY <1>2, <2>1, Empty DEF Init, Settings, Acquired
<1>6. OnDisk
  BY <1>2 DEF Init, OnDisk
<1>7. Orphaned
  BY <1>2, Empty DEF Init, Orphaned
<1>. QED  BY <1>1, <1>3, <1>4, <1>5, <1>6, <1>7 DEF IInv

\* Every step of the main thread and of the signal goroutine keeps the invariant.
THEOREM LifecycleStep == IInv /\ [Next]_vars => IInv'
<1> SUFFICES ASSUME IInv, [Next]_vars PROVE IInv'
  OBVIOUS
<1>1. CASE UNCHANGED vars
  <2>1. TypeOK'
    BY <1>1 DEF IInv, TypeOK, vars, configVars, endpointVars, serverVars, socketVars,
        programVars
  <2>2. ASSUME pc # "killed" PROVE Deferred' /\ Endpoints' /\ Orphaned' /\ Settings' /\ OnDisk'
    <3>1. Deferred /\ Endpoints /\ Orphaned /\ Settings /\ OnDisk
      BY <2>2 DEF IInv
    <3>2. Deferred' /\ OnDisk'
      BY <1>1, <3>1 DEF Deferred, OnDisk, vars, serverVars, socketVars, programVars
    <3>3. Endpoints'
      BY <1>1, <3>1 DEF Endpoints, Endpoint, vars, endpointVars, serverVars
    <3>4. Settings'
      BY <1>1, <3>1 DEF Settings, Original, Batches, Defaults, HasDefault, IsVariant,
          CapsOf, vars, configVars
    <3>5. Orphaned'
      BY <1>1, <3>1 DEF Orphaned, vars, endpointVars, serverVars
    <3>. QED  BY <3>2, <3>3, <3>4, <3>5
  <2>3. pc' = pc
    BY <1>1 DEF vars
  <2>. QED  BY <2>1, <2>2, <2>3 DEF IInv
<1>2. CASE Next
  <2>1. TypeOK'
    BY <1>2, TypesKept DEF IInv
  <2>2. CASE pc = "killed"
    <3>1. pc' = "killed"
      BY <2>2 DEF Next, Main, RunStarts, StartBatch, RunReturns, StartDevServer,
          UseGivenServer, AssertNamespaceCapabilities, CreateEndpoint,
          CreateEndpointDenied, CreateEndpointFails, DeleteEndpoint, NexusSkipped,
          NexusFailed, EndpointsReady, ProxyNotExpected, StartProxy, Listen, SwapConfig,
          ProgramThere, BuildStarts, BuildSucceeds, BuildFails, BatchDecides,
          RestoreConfig, CloseListener, CloseProxy, EndpointsCleaned, StopDevServer,
          BatchReturns, MoreToCreate, SignalDestroys, SignalExits, Terminated, vars
    <3>. QED  BY <2>1, <3>1 DEF IInv
  <2>3. CASE pc # "killed" /\ pc' # "killed"
    <3>1. Deferred /\ Endpoints /\ Orphaned /\ Settings /\ OnDisk
      BY <2>3 DEF IInv
    <3>2. Deferred'
      BY <1>2, <2>3, <3>1, DeferredKept DEF IInv
    <3>3. Endpoints'
      BY <1>2, <2>3, <3>1, <3>2, EndpointsKept DEF IInv
    <3>4. Settings'
      BY <1>2, <2>3, <3>1, <3>2, SettingsKept DEF IInv
    <3>5. OnDisk'
      BY <1>2, <2>3, <3>1, OnDiskKept DEF IInv
    <3>6. Orphaned'
      BY <1>2, <2>3, <3>1, <3>2, OrphansKept DEF IInv
    <3>. QED  BY <2>1, <3>2, <3>3, <3>4, <3>5, <3>6 DEF IInv
  <2>4. CASE pc' = "killed"
    BY <2>1, <2>4 DEF IInv
  <2>. QED  BY <2>2, <2>3, <2>4
<1>. QED  BY <1>1, <1>2

\* The inductive invariant holds in every reachable state: what is held is what is deferred.
THEOREM LifecycleInvariant == Spec => []IInv
<1>. QED  BY InvInit, LifecycleStep, PTL DEF Spec

\* The runner's state keeps its types for any number of variants and Nexus features
\* (TypeOK of RunnerLifecycle).
THEOREM LifecycleTypeOK == Spec => []TypeOK
<1>1. IInv => TypeOK
  BY DEF IInv
<1>. QED  BY <1>1, LifecycleInvariant, PTL

\* Whatever failed and in whatever batch, a run that returns has released what it
\* knows of (ReturnReleasesAll: servers, endpoints, proxy, listener, config,
\* environment and the temporary program), and an endpoint it could not delete, or
\* does not know it created, is left only on a server given by --server.
THEOREM ReturnReleases == Spec => []ReturnReleasesAll
<1>1. ASSUME IInv, pc = "returned"
      PROVE  /\ servers = {} /\ endpoints = {} /\ ~proxyUp /\ ~listening
             /\ orphans # {} => job.external
             /\ config = Original /\ env = 0
             /\ tempDir => job.retain \/ (job.builder = "leaving" /\ program = "none")
  <2>1. Deferred /\ Endpoints /\ Orphaned /\ Settings /\ OnDisk
    BY <1>1 DEF IInv
  <2>2. \A r \in Resources : ~Has(defers, r)
    BY <1>1, <2>1 DEF Deferred, Depth, Rank, Resources
  <2>3. servers = {} /\ ~proxyUp /\ ~listening
    BY <2>1, <2>2, ResourceNames DEF Deferred
  <2>4. config = Original /\ env = 0
    BY <2>1, <2>2, ResourceNames DEF Settings
  <2>5. created = <<>> /\ Len(created) = 0
    BY <1>1, <2>1 DEF Endpoints
  <2>6. endpoints = {}
    BY <2>1, <2>5 DEF Endpoints
  <2>7. job.prepared \in BOOLEAN /\ job.retain \in BOOLEAN
    BY <1>1, JobFacts DEF IInv, TypeOK
  <2>8. tempDir => job.retain \/ (job.builder = "leaving" /\ program = "none")
    BY <1>1, <2>1, <2>7 DEF OnDisk, IInv, TypeOK
  <2>9. orphans # {} => job.external
    BY <2>1, <2>2, ResourceNames DEF Orphaned
  <2>. QED  BY <2>3, <2>4, <2>6, <2>8, <2>9
<1>2. IInv => ReturnReleasesAll
  BY <1>1 DEF ReturnReleasesAll
<1>. QED  BY <1>2, LifecycleInvariant, PTL

\* In every batch the harness is given the server, the capabilities and the
\* environment of that batch (HarnessOnOwnServer).
THEOREM HarnessHasItsServer == Spec => []HarnessOnOwnServer
<1>1. ASSUME IInv, pc = "harness"
      PROVE  /\ config.server = IF job.external THEN External ELSE batch
             /\ servers = IF job.external THEN {} ELSE {batch}
             /\ IsVariant(batch) => ~job.external
             /\ config.caps = env /\ env = CapsOf(batch)
  <2>1. Deferred /\ Settings
    BY <1>1 DEF IInv
  <2>2. Has(defers, "config") /\ (Has(defers, "server") <=> ~job.external)
    BY <1>1, <2>1 DEF Deferred, Depth, Acquired
  <2>3. servers = IF job.external THEN {} ELSE {batch}
    BY <2>1, <2>2 DEF Deferred
  <2>. QED  BY <1>1, <2>1, <2>2, <2>3 DEF Settings, Acquired
<1>2. IInv => HarnessOnOwnServer
  BY <1>1 DEF HarnessOnOwnServer
<1>. QED  BY <1>2, LifecycleInvariant, PTL

\* Each Nexus feature of the harness has its endpoint, for any number of them, and
\* no other endpoint of the batch is there, unless its Nexus features were all taken
\* out and a deletion failed (NexusReady).
THEOREM NexusEndpointsReady == Spec => []NexusReady
<1>1. ASSUME IInv, pc = "harness"
      PROVE  /\ endpoints = {Endpoint(f) : f \in 1..nexusLeft}
             /\ (\E e \in orphans : e[1] = batch) => nexusLeft = 0
  <2>1. Endpoints /\ Orphaned
    BY <1>1 DEF IInv
  <2>2. Len(created) = nexusLeft /\ \A i \in 1..Len(created) : created[i] = i
    BY <1>1, <2>1 DEF Endpoints, Acquired, Depth
  <2>3. pc \in Creating
    BY <1>1 DEF Creating, Acquired
  <2>. QED  BY <2>1, <2>2, <2>3 DEF Endpoints, Orphaned
<1>2. IInv => NexusReady
  BY <1>1 DEF NexusReady
<1>. QED  BY <1>2, LifecycleInvariant, PTL

\* The program built in the first batch is there for all of them (ProgramOnDisk).
THEOREM ProgramStays == Spec => []ProgramOnDisk
<1>1. IInv => ProgramOnDisk
  BY DEF IInv, OnDisk, ProgramOnDisk
<1>. QED  BY <1>1, LifecycleInvariant, PTL

\* A dev server stops only when its endpoints are deleted and the config that names
\* it is taken back (EndpointsGoFirst).
THEOREM EndpointsFirst == Spec => EndpointsGoFirst
<1>1. ASSUME IInv, [Next]_vars, NEW b \in servers, b \notin servers'
      PROVE  endpoints = {} /\ config = Original
  <2>1. StopDevServer
    BY <1>1 DEF Next, Main, RunStarts, StartBatch, RunReturns, StartDevServer,
        UseGivenServer, AssertNamespaceCapabilities, CreateEndpoint,
        CreateEndpointDenied, CreateEndpointFails, DeleteEndpoint, NexusSkipped,
        NexusFailed, EndpointsReady, ProxyNotExpected, StartProxy, Listen, SwapConfig,
        ProgramThere, BuildStarts, BuildSucceeds, BuildFails, BatchDecides,
        RestoreConfig, CloseListener, CloseProxy, EndpointsCleaned, BatchReturns,
        SignalDestroys, SignalExits, Terminated, vars, serverVars
  <2>2. Due("server") /\ pc = "unwind" /\ defers # <<>> /\ Last(defers) = "server"
    BY <2>1 DEF StopDevServer, Due
  <2>3. Deferred /\ Endpoints /\ Settings
    BY <1>1, <2>2 DEF IInv
  <2>4. \A r \in Resources : Has(defers, r) => Rank(r) <= Rank("server")
    BY <2>2, <2>3, Pop DEF Deferred
  <2>5. ~Has(defers, "endpoints") /\ ~Has(defers, "config")
    BY <2>4, ResourceNames DEF Rank
  <2>6. created = <<>> /\ Len(created) = 0
    BY <2>2, <2>3, <2>5 DEF Endpoints
  <2>7. endpoints = {}
    BY <2>3, <2>6 DEF Endpoints
  <2>. QED  BY <2>3, <2>5, <2>7 DEF Settings
<1>2. IInv /\ [Next]_vars => [\A b \in servers : b \notin servers' => endpoints = {}
      /\ config = Original]_vars
  BY <1>1
<1>. QED  BY <1>2, LifecycleInvariant, PTL DEF Spec, EndpointsGoFirst

-----------------------------------------------------------------------------
(* A run comes to an end *)

\* Steps that are still to be taken at most.  In a batch: a place counts double
\* where something may be acquired on the way to the next, for it is released
\* later, and so does an endpoint that is still to be created.
StepsFrom(p) ==
  CASE p = "start"                -> 3
    [] p = "batch"                -> 1
    [] p = "server"               -> 16
    [] p \in {"caps", "denied"}   -> 14
    [] p = "endpoints"            -> 13
    [] p = "proxy"                -> 11
    [] p = "listen"               -> 9
    [] p = "swap"                 -> 7
    [] p = "program"              -> 5
    [] p = "build"                -> 4
    [] p \in {"harness", "failed"} -> 3
    [] OTHER                      -> 2

EndpointsLeft ==
  IF pc \in {"server", "caps", "endpoints"} THEN 2 * nexusLeft - Len(created)
  ELSE Len(created)
BatchLeft == StepsFrom(pc) + EndpointsLeft + Len(defers)

\* A whole batch, and the batches that have not begun.
OneBatch     == 2 * MaxNexus + 16
BatchesAhead == IF pc \in {"start", "batch"} THEN Batches + 1 - batch
                ELSE Batches - batch
SignalLeft   == IF sig = "waiting" THEN 1 ELSE 0
StepsLeft    == IF Alive THEN OneBatch * BatchesAhead + BatchLeft + SignalLeft ELSE 0

LEMMA LeftNat ==
  ASSUME IInv, Alive
  PROVE  /\ OneBatch \in Nat /\ Batches \in Nat /\ batch \in Nat /\ BatchesAhead \in Nat
         /\ nexusLeft \in Nat /\ nexusLeft <= MaxNexus
         /\ Len(created) \in Nat /\ Len(created) <= nexusLeft /\ Len(defers) \in Nat
         /\ EndpointsLeft \in Nat /\ BatchLeft \in Nat /\ BatchLeft > 0
         /\ OneBatch * BatchesAhead \in Nat /\ SignalLeft \in 0..1
         /\ StepsLeft \in Nat /\ StepsLeft > 0
<1>1. MaxNexus \in Nat /\ OneBatch \in Nat
  BY LifecycleAssumption DEF OneBatch
<1>2. TypeOK /\ Settings /\ job \in Jobs
  BY DEF IInv, Alive, TypeOK
<1>3. Batches \in Nat /\ batch \in Nat /\ BatchesAhead \in Nat
  <2>1. Batches \in Nat /\ batch \in Nat
    BY <1>2, JobFacts DEF TypeOK
  <2> QED
    BY <1>2, <2>1 DEF Settings, BatchesAhead, Alive
<1>4. /\ nexusLeft \in Nat /\ nexusLeft <= MaxNexus
      /\ Len(created) \in Nat /\ Len(created) <= nexusLeft /\ Len(defers) \in Nat
  BY <1>1, <1>2, LenProperties DEF TypeOK
<1>5. EndpointsLeft \in Nat
  BY <1>4 DEF EndpointsLeft
<1>6. BatchLeft \in Nat /\ BatchLeft > 0
  <2>1. StepsFrom(pc) \in Nat /\ StepsFrom(pc) > 0
    BY DEF StepsFrom
  <2> QED
    BY <1>4, <1>5, <2>1 DEF BatchLeft
<1>7. OneBatch * BatchesAhead \in Nat
  BY <1>1, <1>3
<1> QED
  BY <1>1, <1>3, <1>4, <1>5, <1>6, <1>7 DEF SignalLeft, StepsLeft

\* The same of the state after a step.
LEMMA LeftNatNext ==
  (IInv /\ Alive => /\ BatchesAhead \in Nat /\ BatchLeft \in Nat /\ SignalLeft \in 0..1
                    /\ OneBatch * BatchesAhead \in Nat /\ StepsLeft \in Nat)'
<1>1. IInv /\ Alive => /\ BatchesAhead \in Nat /\ BatchLeft \in Nat /\ SignalLeft \in 0..1
                       /\ OneBatch * BatchesAhead \in Nat /\ StepsLeft \in Nat
  BY LeftNat
<1> QED
  BY <1>1, PTL

\* Between batches nothing is deferred, and no endpoint is there.
LEMMA BetweenBatches ==
  ASSUME IInv, pc \in {"start", "batch", "server"}
  PROVE  defers = <<>> /\ Len(defers) = 0 /\ created = <<>> /\ Len(created) = 0
<1>1. Deferred /\ Endpoints
  BY DEF IInv
<1>2. \A r \in Resources : ~Has(defers, r)
  BY <1>1 DEF Deferred, Depth, Rank, Resources
<1>3. defers = <<>>
  BY <1>1, <1>2, Pop DEF Deferred
<1>4. created = <<>>
  BY <1>1 DEF Endpoints
<1> QED
  BY <1>3, <1>4

\* A step that acquires or skips something brings the batch forward.
LEMMA AcquiringCounts ==
  ASSUME IInv, Alive,
         \/ StartDevServer \/ UseGivenServer \/ AssertNamespaceCapabilities
         \/ ProxyNotExpected \/ StartProxy \/ Listen \/ SwapConfig
         \/ ProgramThere \/ BuildStarts \/ BuildSucceeds \/ BuildFails \/ BatchDecides
  PROVE  BatchLeft' < BatchLeft /\ UNCHANGED <<job, batch, sig>> /\ Alive'
         /\ pc \notin {"start", "batch"} /\ pc' \notin {"start", "batch"}
<1>1. /\ Len(created) \in Nat /\ Len(defers) \in Nat /\ nexusLeft \in Nat
      /\ Len(created) <= nexusLeft
  BY LeftNat
<1>2. \A d : Len(Append(defers, d)) = Len(defers) + 1
  BY AppendProperties DEF IInv, TypeOK
<1>3. pc \in {"server", "caps"} => Len(created) = 0
  BY DEF IInv, Alive, Endpoints
<1> USE <1>1, <1>2, <1>3 DEF Fails, Defer, Alive, BatchLeft, EndpointsLeft, StepsFrom,
     configVars, endpointVars, serverVars, socketVars, programVars
<1>4. CASE StartDevServer
  BY <1>4 DEF StartDevServer
<1>5. CASE UseGivenServer
  BY <1>5 DEF UseGivenServer
<1>6. CASE AssertNamespaceCapabilities
  BY <1>6 DEF AssertNamespaceCapabilities
<1>7. CASE ProxyNotExpected \/ StartProxy
  BY <1>7 DEF ProxyNotExpected, StartProxy
<1>8. CASE Listen
  BY <1>8 DEF Listen
<1>9. CASE SwapConfig
  BY <1>9 DEF SwapConfig
<1>10. CASE ProgramThere
  BY <1>10 DEF ProgramThere
<1>11. CASE BuildStarts \/ BuildSucceeds \/ BuildFails
  <2>1. /\ UNCHANGED <<job, batch, sig, created, nexusLeft, defers>>
        /\ \/ pc = "program" /\ pc' \in {"build", "unwind"}
           \/ pc = "build" /\ pc' \in {"harness", "unwind"}
    BY <1>11 DEF BuildStarts, BuildSucceeds, BuildFails
  <2> QED
    BY <2>1
<1>12. CASE BatchDecides
  BY <1>12 DEF BatchDecides
<1> HIDE DEF Fails, Defer, Alive, BatchLeft, EndpointsLeft, StepsFrom,
     configVars, endpointVars, serverVars, socketVars, programVars
<1> QED
  BY <1>4, <1>5, <1>6, <1>7, <1>8, <1>9, <1>10, <1>11, <1>12

\* So does a step of createNexusEndpoints, though it may go back to where the
\* next endpoint is created.
LEMMA CreatingCounts ==
  ASSUME IInv, Alive,
         \/ CreateEndpoint \/ CreateEndpointDenied \/ CreateEndpointFails
         \/ DeleteEndpoint \/ NexusSkipped \/ NexusFailed \/ EndpointsReady
  PROVE  BatchLeft' < BatchLeft /\ UNCHANGED <<job, batch, sig>> /\ Alive'
         /\ pc \notin {"start", "batch"} /\ pc' \notin {"start", "batch"}
<1>1. /\ Len(created) \in Nat /\ Len(defers) \in Nat /\ nexusLeft \in Nat
      /\ Len(created) <= nexusLeft
  BY LeftNat
<1>2. Len(Append(defers, "endpoints")) = Len(defers) + 1
  BY AppendProperties DEF IInv, TypeOK
<1>3. Len(Append(created, Len(created) + 1)) = Len(created) + 1
  BY AppendProperties DEF IInv, TypeOK
<1>4. created # <<>> => Len(Tail(created)) = Len(created) - 1
  BY HeadTailProperties DEF IInv, TypeOK
<1> USE <1>1 DEF Alive, BatchLeft, EndpointsLeft, StepsFrom, configVars, endpointVars,
     serverVars, socketVars, programVars
<1>5. CASE CreateEndpoint
  BY <1>3, <1>5 DEF CreateEndpoint, MoreToCreate
<1>6. CASE CreateEndpointDenied \/ CreateEndpointFails
  BY <1>6 DEF CreateEndpointDenied, CreateEndpointFails, MoreToCreate
<1>7. CASE DeleteEndpoint
  BY <1>4, <1>7 DEF DeleteEndpoint, CleaningUp
<1>8. CASE NexusSkipped
  BY <1>8 DEF NexusSkipped
<1>9. CASE NexusFailed
  BY <1>9 DEF NexusFailed, Fails
<1>10. CASE EndpointsReady
  <2>1. /\ pc = "endpoints" /\ pc' \in {"unwind", "proxy"} /\ Len(created) = nexusLeft
        /\ UNCHANGED <<job, batch, sig, created>> /\ Len(defers') = Len(defers) + 1
    BY <1>2, <1>10 DEF EndpointsReady, Defer
  <2>2. EndpointsLeft' = EndpointsLeft /\ EndpointsLeft \in Int
    BY <2>1
  <2> QED
    BY <2>1, <2>2
<1> HIDE DEF Alive, BatchLeft, EndpointsLeft, StepsFrom, configVars, endpointVars,
     serverVars, socketVars, programVars
<1> QED
  BY <1>5, <1>6, <1>7, <1>8, <1>9, <1>10

\* And a deferred call that has run.
LEMMA ReleasingCounts ==
  ASSUME IInv, Alive,
         RestoreConfig \/ CloseListener \/ CloseProxy \/ EndpointsCleaned \/ StopDevServer
  PROVE  BatchLeft' < BatchLeft /\ UNCHANGED <<job, batch, sig>> /\ Alive'
         /\ pc \notin {"start", "batch"} /\ pc' \notin {"start", "batch"}
<1>1. Len(created) \in Nat /\ Len(defers) \in Nat
  BY LeftNat
<1>2. /\ pc = "unwind" /\ pc' = pc /\ created' = created /\ defers # <<>>
      /\ defers' = Front(defers) /\ UNCHANGED <<job, batch, sig>>
  BY DEF RestoreConfig, CloseListener, CloseProxy, EndpointsCleaned, StopDevServer, Due,
     configVars, endpointVars, serverVars, socketVars, programVars
<1>3. Len(Front(defers)) = Len(defers) - 1
  BY <1>2, Pop DEF IInv, Deferred, Alive
<1> QED
  BY <1>1, <1>2, <1>3 DEF Alive, BatchLeft, EndpointsLeft, StepsFrom

\* Every step of a run leaves less to do, for any number of batches, whatever
\* fails in them and whenever a signal comes: a run takes no more steps than
\* 2 * MaxNexus + 16 for each batch, and 3.  With the fairness of Main this is
\* why RunEnds holds.
THEOREM RunIsFinite ==
  Spec => /\ StepsLeft = OneBatch * Batches + 3
          /\ [][StepsLeft' < StepsLeft /\ StepsLeft \in Nat /\ StepsLeft' \in Nat]_vars
<1>1. Init => StepsLeft = OneBatch * Batches + 3
  <2>1. ASSUME Init PROVE StepsLeft = OneBatch * Batches + 3
    <3>1. Batches \in Nat /\ OneBatch \in Nat
      BY <2>1, JobFacts, LifecycleAssumption DEF Init, OneBatch
    <3>2. BatchesAhead = Batches
      BY <2>1, <3>1 DEF Init, BatchesAhead
    <3>3. BatchLeft + SignalLeft = 3 /\ Alive
      BY <2>1 DEF Init, BatchLeft, EndpointsLeft, StepsFrom, SignalLeft, Alive
    <3>4. OneBatch * Batches \in Nat /\ BatchLeft \in Int /\ SignalLeft \in Int
      BY <2>1, <3>1 DEF Init, BatchLeft, EndpointsLeft, StepsFrom, SignalLeft
    <3> QED
      BY <3>2, <3>3, <3>4 DEF StepsLeft
  <2> QED
    BY <2>1
<1>2. ASSUME IInv, IInv', [Next]_vars
      PROVE  [StepsLeft' < StepsLeft /\ StepsLeft \in Nat /\ StepsLeft' \in Nat]_vars
  <2> SUFFICES ASSUME Alive, Next
               PROVE  StepsLeft' < StepsLeft /\ StepsLeft \in Nat /\ StepsLeft' \in Nat
    <3>1. ~Alive => UNCHANGED vars
      BY <1>2 DEF Next, Main, RunStarts, StartBatch, RunReturns, StartDevServer,
          UseGivenServer, AssertNamespaceCapabilities, CreateEndpoint,
          CreateEndpointDenied, CreateEndpointFails, DeleteEndpoint, NexusSkipped,
          NexusFailed, EndpointsReady, ProxyNotExpected, StartProxy, Listen, SwapConfig,
          ProgramThere, BuildStarts, BuildSucceeds, BuildFails, BatchDecides,
          RestoreConfig, CloseListener, CloseProxy, EndpointsCleaned, StopDevServer,
          BatchReturns, MoreToCreate, CleaningUp, Due, SignalDestroys, SignalExits,
          Terminated, Alive
    <3> QED
      BY <1>2, <3>1
  <2>1. /\ OneBatch \in Nat /\ Batches \in Nat /\ batch \in Nat /\ BatchesAhead \in Nat
        /\ BatchLeft \in Nat /\ BatchLeft > 0 /\ OneBatch * BatchesAhead \in Nat
        /\ SignalLeft \in 0..1 /\ StepsLeft \in Nat /\ StepsLeft > 0
    BY <1>2, LeftNat
  <2>2. StepsLeft = OneBatch * BatchesAhead + BatchLeft + SignalLeft
    BY DEF StepsLeft
  <2>3. Alive' => /\ BatchesAhead' \in Nat /\ BatchLeft' \in Nat /\ SignalLeft' \in 0..1
                  /\ OneBatch * BatchesAhead' \in Nat /\ StepsLeft' \in Nat
    BY <1>2, LeftNatNext
  <2>4. ~Alive' => StepsLeft' = 0
    BY DEF StepsLeft
  <2>5. Alive' => StepsLeft' = OneBatch * BatchesAhead' + BatchLeft' + SignalLeft'
    BY DEF StepsLeft, OneBatch
  <2>6. SUFFICES ASSUME Alive' PROVE StepsLeft' < StepsLeft
    BY <2>1, <2>3, <2>4
  <2>7. CASE RunStarts
    <3>1. /\ pc = "start" /\ pc' = "batch" /\ UNCHANGED <<job, batch, defers, created>>
          /\ SignalLeft = 0
      BY <1>2, <2>7 DEF RunStarts, endpointVars, IInv, OnDisk, SignalLeft
    <3>2. BatchesAhead' = BatchesAhead
      BY <3>1 DEF BatchesAhead, Batches, Defaults, HasDefault
    <3>3. BatchLeft = 3 + Len(created) + Len(defers)
          /\ BatchLeft' = 1 + Len(created) + Len(defers)
      BY <3>1 DEF BatchLeft, StepsFrom, EndpointsLeft
    <3>4. Len(created) \in Nat /\ Len(defers) \in Nat
      BY <1>2, LeftNat
    <3> QED
      BY <2>1, <2>2, <2>3, <2>5, <2>6, <3>1, <3>2, <3>3, <3>4
  <2>8. CASE StartBatch
    <3>1. /\ pc = "batch" /\ pc' = "server" /\ batch <= Batches
          /\ UNCHANGED <<job, batch, defers, sig>> /\ nexusLeft' = NexusOf(batch)
          /\ created' = <<>>
      BY <2>8 DEF StartBatch
    <3>2. Batches' = Batches
      BY <3>1 DEF Batches, Defaults, HasDefault
    <3>3. BatchesAhead = BatchesAhead' + 1
      BY <2>1, <3>1, <3>2 DEF BatchesAhead
    <3>4. OneBatch * BatchesAhead = OneBatch * BatchesAhead' + OneBatch
      BY <2>1, <2>3, <2>6, <3>3
    <3>5. BatchLeft = 1 /\ BatchLeft' = 16 + 2 * nexusLeft'
      <4>1. Len(defers) = 0 /\ Len(created) = 0 /\ Len(created') = 0
        BY <1>2, <3>1, BetweenBatches
      <4>2. nexusLeft' \in Nat
        BY <1>2 DEF IInv, TypeOK
      <4> QED
        BY <3>1, <4>1, <4>2 DEF BatchLeft, StepsFrom, EndpointsLeft
    <3>6. nexusLeft' \in Nat /\ nexusLeft' <= MaxNexus /\ MaxNexus \in Nat
      BY <1>2, LifecycleAssumption DEF IInv, TypeOK
    <3>7. SignalLeft' = SignalLeft
      BY <3>1 DEF SignalLeft
    <3> QED
      BY <2>1, <2>2, <2>3, <2>5, <2>6, <3>4, <3>5, <3>6, <3>7 DEF OneBatch
  <2>9. CASE BatchReturns
    <3>1. /\ pc = "unwind" /\ pc' = "batch" /\ batch' = batch + 1
          /\ UNCHANGED <<job, defers, created, sig>>
      BY <2>9 DEF BatchReturns, endpointVars
    <3>2. BatchesAhead' = BatchesAhead
      BY <2>1, <3>1 DEF BatchesAhead, Batches, Defaults, HasDefault
    <3>3. BatchLeft' < BatchLeft
      <4>1. Len(created) \in Nat /\ Len(defers) \in Nat
        BY <1>2, LeftNat
      <4> QED
        BY <3>1, <4>1 DEF BatchLeft, StepsFrom, EndpointsLeft
    <3>4. SignalLeft' = SignalLeft
      BY <3>1 DEF SignalLeft
    <3> QED
      BY <2>1, <2>2, <2>3, <2>5, <2>6, <3>2, <3>3, <3>4
  <2>10. ASSUME BatchLeft' < BatchLeft, UNCHANGED <<job, batch, sig>>,
                pc \notin {"start", "batch"}, pc' \notin {"start", "batch"}
         PROVE  StepsLeft' < StepsLeft
    <3>1. BatchesAhead' = BatchesAhead
      BY <2>10 DEF BatchesAhead, Batches, Defaults, HasDefault
    <3>2. SignalLeft' = SignalLeft
      BY <2>10 DEF SignalLeft
    <3> QED
      BY <2>1, <2>2, <2>3, <2>5, <2>6, <2>10, <3>1, <3>2
  <2>11. CASE SignalDestroys
    <3>1. /\ sig = "waiting" /\ sig' = "destroyed"
          /\ UNCHANGED <<job, pc, batch, created, nexusLeft, defers>>
      BY <2>11 DEF SignalDestroys, endpointVars
    <3>2. BatchesAhead' = BatchesAhead /\ BatchLeft' = BatchLeft
      BY <3>1 DEF BatchesAhead, Batches, Defaults, HasDefault, BatchLeft, StepsFrom,
         EndpointsLeft
    <3>3. SignalLeft = 1 /\ SignalLeft' = 0
      BY <3>1 DEF SignalLeft
    <3> QED
      BY <2>1, <2>2, <2>3, <2>5, <2>6, <3>2, <3>3
  <2>12. CASE RunReturns \/ SignalExits \/ Terminated
    BY <2>6, <2>12 DEF RunReturns, SignalExits, Terminated, Alive
  <2> QED
    BY <1>2, <2>7, <2>8, <2>9, <2>10, <2>11, <2>12, AcquiringCounts, CreatingCounts,
       ReleasingCounts DEF Next, Main
<1> QED
  BY <1>1, <1>2, LifecycleInvariant, PTL DEF Spec

=============================================================================
