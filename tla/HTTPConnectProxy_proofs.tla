----------------------- MODULE HTTPConnectProxy_proofs -----------------------
(***************************************************************************)
(* Proofs about HTTPConnectProxy, for any finite set of connections and    *)
(* any number of packets.  IInv, the inductive invariant, says how the     *)
(* places of handler and copiers go with what the client was told          *)
(* (Handlers), what the counters hold (Counters), where the packets of a   *)
(* direction are (Streams) and who has spoken (Speech).                    *)
(***************************************************************************)
EXTENDS HTTPConnectProxy, FiniteSetTheorems, SequenceTheorems, TLAPS

-----------------------------------------------------------------------------
(* The inductive invariant *)

Counted(c) == pc[c] \in {"first", "forward", "tunnel", "dropped"}

Handlers ==
  \A c \in Conns :
    /\ pc[c] = "idle" => ends[c] = {}
    /\ pc[c] \in {"idle", "request", "dial"} => "target" \notin ends[c]
    /\ request[c] = "refused" =>
         pc[c] \in {"idle", "request", "done"} /\ "target" \notin ends[c]
    /\ answer[c] = "established" <=> pc[c] = "count" \/ Counted(c)
    /\ \A d \in Dirs : copy[c][d] # "off" <=> pc[c] = "tunnel"

CountedConns(k) == {c \in Conns : request[c] = k /\ Counted(c)}

Counters == \A k \in Kinds : tunneled[k] = Cardinality(CountedConns(k))

\* n packets were sent: those of g were got, then come those of h, in a
\* goroutine's hand, and those of w, on the wire.
Pipe(g, h, w, n) ==
  /\ Len(g) + Len(h) + Len(w) = n
  /\ \A i \in 1..Len(h) : h[i] = Len(g) + i
  /\ \A i \in 1..Len(w) : w[i] = Len(g) + Len(h) + i

InOrder(g) == \A i \in 1..Len(g) : g[i] = i

Streams ==
  \A c \in Conns, d \in Dirs :
    /\ Len(got[c][d]) <= sent[c][d] /\ InOrder(got[c][d])
    /\ Receiver(d) \in ends[c] \/ sent[c][d] = 0 =>
         Pipe(got[c][d], hand[c][d], wire[c][d], sent[c][d])

Speech ==
  \A c \in Conns :
    /\ sent[c]["up"] > 0 => answer[c] = "established"
    /\ sent[c]["down"] > 0 => pc[c] \notin {"idle", "request", "dial"}
    /\ hand[c]["up"] # <<>> \/ wire[c]["up"] # <<>> => sent[c]["up"] > 0
    /\ pc[c] = "forward" => hand[c]["up"] # <<>>
    /\ hand[c]["up"] # <<>> => pc[c] \in {"forward", "tunnel", "dropped"}
    /\ got[c]["down"] # <<>> => pc[c] = "tunnel"
    /\ pc[c] = "tunnel" =>
         \/ got[c]["up"] # <<>>
         \/ sent[c]["up"] > 0 /\ "target" \notin ends[c]

IInv == TypeOK /\ Handlers /\ Counters /\ Streams /\ Speech

-----------------------------------------------------------------------------
(* Steps *)

\* The actions of Next, one by one.
THEOREM NextSteps ==
  ASSUME Next
  PROVE  \/ Close
         \/ \E c \in Conns :
              \/ Connect(c) \/ Refuse(c) \/ Hijack(c) \/ Dial(c) \/ DialFails(c)
              \/ Reply(c) \/ Count(c) \/ ReadFirst(c) \/ ForwardFirst(c) \/ Panic(c)
              \/ \E e \in Ends : HangUp(c, e)
              \/ \E d \in Dirs : \/ Send(c, d) \/ CopyRead(c, d)
                                 \/ CopyWrite(c, d) \/ CopyEnd(c, d)
  BY DEF Next, Handler, Copier

-----------------------------------------------------------------------------
(* Types *)

Packets == 1..MaxPackets

\* What TypeOK says of one direction of one connection.
LEMMA PipeTypes ==
  ASSUME TypeOK, NEW c \in Conns, NEW d \in Dirs
  PROVE  /\ sent[c][d] \in 0..MaxPackets
         /\ wire[c][d] \in Seq(Packets) /\ hand[c][d] \in Seq(Packets)
         /\ got[c][d] \in Seq(Packets)
         /\ hand[c][d] # <<>> => Len(hand[c][d]) = 1
  <1>1. hand[c][d] \in {<<>>} \cup {<<p>> : p \in 1..MaxPackets}
    BY DEF TypeOK
  <1>2. sent[c][d] \in 0..MaxPackets /\ wire[c][d] \in Seq(1..MaxPackets)
        /\ got[c][d] \in Seq(1..MaxPackets)
    BY DEF TypeOK
  <1>3. CASE hand[c][d] = <<>>
    BY <1>2, <1>3 DEF Packets
  <1>4. ASSUME NEW p \in 1..MaxPackets, hand[c][d] = <<p>>
        PROVE  hand[c][d] \in Seq(1..MaxPackets) /\ Len(hand[c][d]) = 1
    BY <1>4
  <1>. QED  BY <1>1, <1>2, <1>3, <1>4 DEF Packets

\* The proxy starts with well-typed state.
THEOREM TypeInit == Init => TypeOK
  <1>. SUFFICES ASSUME Init PROVE TypeOK
    OBVIOUS
  <1>. MaxPackets \in Nat
    BY ProxyAssumption
  <1>1. <<>> \in Seq(1..MaxPackets)
    OBVIOUS
  <1>2. /\ wire \in [Conns -> [Dirs -> Seq(1..MaxPackets)]]
        /\ got \in [Conns -> [Dirs -> Seq(1..MaxPackets)]]
    BY <1>1 DEF Init, PerDir
  <1>3. hand \in [Conns -> [Dirs -> {<<>>} \cup {<<p>> : p \in 1..MaxPackets}]]
    BY DEF Init, PerDir
  <1>4. sent \in [Conns -> [Dirs -> 0..MaxPackets]]
    BY DEF Init, PerDir
  <1>5. /\ srv \in {"serving", "closed"}
        /\ request \in [Conns -> Kinds \cup {"refused"}]
        /\ pc \in [Conns -> Places]
        /\ answer \in [Conns -> {"none", "refused", "established"}]
        /\ ends \in [Conns -> SUBSET Ends] /\ shut \in [Conns -> SUBSET Ends]
        /\ copy \in [Conns -> [Dirs -> {"off", "on", "done"}]]
    BY DEF Init, PerDir, Places
  <1>6. tunneled \in [Kinds -> Nat]
    BY DEF Init
  <1>. QED  BY <1>2, <1>3, <1>4, <1>5, <1>6 DEF TypeOK

\* Clients and targets keep the types.
LEMMA PeerType ==
  ASSUME TypeOK, NEW c \in Conns,
         Connect(c) \/ (\E e \in Ends : HangUp(c, e)) \/ \E d \in Dirs : Send(c, d)
  PROVE  TypeOK'
  <1>1. CASE Connect(c)
    BY <1>1 DEF Connect, Goto, TypeOK, Places, Ends, pipeVars
  <1>2. CASE \E e \in Ends : HangUp(c, e)
    BY <1>2 DEF HangUp, TypeOK, Ends, pipeVars
  <1>3. CASE \E d \in Dirs : Send(c, d)
    <2>. PICK d \in Dirs : Send(c, d)
      BY <1>3
    <2>. MaxPackets \in Nat
      BY ProxyAssumption
    <2>1. sent[c][d] \in 0..MaxPackets /\ sent[c][d] < MaxPackets
      BY DEF TypeOK, Send
    <2>2. sent[c][d] + 1 \in 1..MaxPackets
      BY <2>1
    <2>3. sent' \in [Conns -> [Dirs -> 0..MaxPackets]] /\ sent'[c][d] = sent[c][d] + 1
      BY <2>2 DEF TypeOK, Send
    <2>4. Append(wire[c][d], sent'[c][d]) \in Seq(1..MaxPackets)
      BY <2>2, <2>3 DEF TypeOK
    <2>5. wire' \in [Conns -> [Dirs -> Seq(1..MaxPackets)]]
      BY <2>4 DEF TypeOK, Send
    <2>. QED  BY <2>3, <2>5 DEF TypeOK, Send
  <1>. QED  BY <1>1, <1>2, <1>3

\* Handing a packet over keeps the type of what was got.
LEMMA DeliverType ==
  ASSUME TypeOK, NEW c \in Conns, NEW d \in Dirs, Deliver(c, d)
  PROVE  got' \in [Conns -> [Dirs -> Seq(1..MaxPackets)]]
  <1>1. got[c][d] \o hand[c][d] \in Seq(1..MaxPackets)
    BY PipeTypes, ConcatProperties DEF Packets
  <1>. QED  BY <1>1 DEF Deliver, TypeOK

\* Taking a packet from the wire keeps the types of wire and hand.
LEMMA TakeType ==
  ASSUME TypeOK, NEW c \in Conns, NEW d \in Dirs, wire[c][d] # <<>>,
         hand' = [hand EXCEPT ![c][d] = <<Head(wire[c][d])>>],
         wire' = [wire EXCEPT ![c][d] = Tail(@)]
  PROVE  /\ wire' \in [Conns -> [Dirs -> Seq(1..MaxPackets)]]
         /\ hand' \in [Conns -> [Dirs -> {<<>>} \cup {<<p>> : p \in 1..MaxPackets}]]
  <1>1. wire[c][d] \in Seq(1..MaxPackets)
    BY DEF TypeOK
  <1>2. Head(wire[c][d]) \in 1..MaxPackets /\ Tail(wire[c][d]) \in Seq(1..MaxPackets)
    BY <1>1, HeadTailProperties
  <1>. QED  BY <1>2 DEF TypeOK

\* The handler keeps the types.
LEMMA HandlerType ==
  ASSUME TypeOK, NEW c \in Conns, Handler(c)
  PROVE  TypeOK'
  <1>1. CASE Refuse(c) \/ Hijack(c) \/ DialFails(c)
    BY <1>1 DEF Refuse, Hijack, DialFails, Goto, TypeOK, Places, pipeVars
  <1>6. CASE Dial(c)
    BY <1>6 DEF Dial, Goto, TypeOK, Places, Ends, pipeVars
  <1>7. CASE Reply(c)
    BY <1>7 DEF Reply, Goto, TypeOK, Places, pipeVars
  <1>2. CASE Panic(c)
    BY <1>2 DEF Panic, Goto, TypeOK, Places, pipeVars
  <1>3. CASE Count(c)
    <2>1. tunneled' \in [Kinds -> Nat]
      <3>1. tunneled \in [Kinds -> Nat] /\ tunneled' = [tunneled EXCEPT ![request[c]] = @ + 1]
        BY <1>3 DEF Count, TypeOK
      <3>2. CASE request[c] \in Kinds
        <4>1. tunneled[request[c]] + 1 \in Nat
          BY <3>1, <3>2
        <4>. QED  BY <3>1, <4>1
      <3>3. CASE request[c] \notin Kinds
        BY <3>1, <3>3
      <3>. QED  BY <3>2, <3>3
    <2>2. pc' \in [Conns -> Places]
      BY <1>3 DEF Count, Goto, TypeOK, Places
    <2>. QED  BY <1>3, <2>1, <2>2 DEF Count, TypeOK, pipeVars
  <1>4. CASE ReadFirst(c)
    <2>1. pc' \in [Conns -> Places]
      BY <1>4 DEF ReadFirst, Goto, TypeOK, Places
    <2>2. /\ wire' \in [Conns -> [Dirs -> Seq(1..MaxPackets)]]
          /\ hand' \in [Conns -> [Dirs -> {<<>>} \cup {<<p>> : p \in 1..MaxPackets}]]
      BY <1>4, TakeType DEF ReadFirst, Dirs
    <2>. QED  BY <1>4, <2>1, <2>2 DEF ReadFirst, TypeOK
  <1>5. CASE ForwardFirst(c)
    <2>1. pc' \in [Conns -> Places] /\ copy' \in [Conns -> [Dirs -> {"off", "on", "done"}]]
      BY <1>5 DEF ForwardFirst, Goto, TypeOK, Places
    <2>2. got' \in [Conns -> [Dirs -> Seq(1..MaxPackets)]]
      BY <1>5, DeliverType DEF ForwardFirst, Dirs
    <2>3. hand' \in [Conns -> [Dirs -> {<<>>} \cup {<<p>> : p \in 1..MaxPackets}]]
      BY <1>5 DEF ForwardFirst, TypeOK
    <2>. QED  BY <1>5, <2>1, <2>2, <2>3 DEF ForwardFirst, TypeOK
  <1>. QED  BY <1>1, <1>2, <1>3, <1>4, <1>5, <1>6, <1>7 DEF Handler

\* The copiers keep the types.
LEMMA CopierType ==
  ASSUME TypeOK, NEW c \in Conns, NEW d \in Dirs, Copier(c, d)
  PROVE  TypeOK'
  <1>1. CASE CopyRead(c, d)
    <2>1. /\ wire' \in [Conns -> [Dirs -> Seq(1..MaxPackets)]]
          /\ hand' \in [Conns -> [Dirs -> {<<>>} \cup {<<p>> : p \in 1..MaxPackets}]]
      BY <1>1, TakeType DEF CopyRead
    <2>. QED  BY <1>1, <2>1 DEF CopyRead, TypeOK
  <1>2. CASE CopyWrite(c, d)
    <2>1. got' \in [Conns -> [Dirs -> Seq(1..MaxPackets)]]
      BY <1>2, DeliverType DEF CopyWrite
    <2>2. hand' \in [Conns -> [Dirs -> {<<>>} \cup {<<p>> : p \in 1..MaxPackets}]]
      BY <1>2 DEF CopyWrite, TypeOK
    <2>. QED  BY <1>2, <2>1, <2>2 DEF CopyWrite, TypeOK
  <1>3. CASE CopyEnd(c, d)
    BY <1>3 DEF CopyEnd, TypeOK, Ends
  <1>. QED  BY <1>1, <1>2, <1>3 DEF Copier

\* Every step keeps the types.
THEOREM TypeStep == TypeOK /\ [Next]_vars => TypeOK'
  <1>. SUFFICES ASSUME TypeOK, [Next]_vars PROVE TypeOK'
    OBVIOUS
  <1>1. CASE UNCHANGED vars
    BY <1>1 DEF vars, pipeVars, TypeOK
  <1>2. CASE Close
    BY <1>2 DEF Close, TypeOK, Ends, pipeVars
  <1>3. ASSUME NEW c \in Conns,
               \/ Connect(c) \/ Handler(c)
               \/ \E e \in Ends : HangUp(c, e)
               \/ \E d \in Dirs : Send(c, d) \/ Copier(c, d)
        PROVE  TypeOK'
    BY <1>3, PeerType, HandlerType, CopierType
  <1>. QED  BY <1>1, <1>2, <1>3 DEF Next

\* The state of the proxy, its connections and goroutines keeps its types.
THEOREM TypeCorrect == Spec => []TypeOK
  BY TypeInit, TypeStep, PTL DEF Spec

-----------------------------------------------------------------------------
(* Handlers *)

\* Nobody has come, so no handler is anywhere.
THEOREM HandlersInit == Init => Handlers
  BY DEF Init, Handlers, Counted, PerDir

\* Clients and targets: one may come and others go, but no target comes.
LEMMA HandlersPeer ==
  ASSUME TypeOK, Handlers, NEW c \in Conns,
         Connect(c) \/ (\E e \in Ends : HangUp(c, e)) \/ \E d \in Dirs : Send(c, d)
  PROVE  Handlers'
  <1>1. CASE Connect(c)
    BY <1>1 DEF Connect, Goto, Handlers, Counted, TypeOK, pipeVars
  <1>2. CASE \E e \in Ends : HangUp(c, e)
    BY <1>2 DEF HangUp, Handlers, Counted, TypeOK, pipeVars
  <1>3. CASE \E d \in Dirs : Send(c, d)
    BY <1>3 DEF Send, Handlers, Counted
  <1>. QED  BY <1>1, <1>2, <1>3

\* The handler answers before it counts, and counts before it copies.
LEMMA HandlersHandler ==
  ASSUME TypeOK, Handlers, NEW c \in Conns, Handler(c)
  PROVE  Handlers'
  <1>1. CASE Refuse(c)
    BY <1>1 DEF Refuse, Goto, Handlers, Counted, TypeOK, pipeVars
  <1>2. CASE Hijack(c)
    BY <1>2 DEF Hijack, Goto, Handlers, Counted, TypeOK, pipeVars
  <1>3. CASE Dial(c)
    BY <1>3 DEF Dial, Goto, Handlers, Counted, TypeOK, pipeVars
  <1>4. CASE DialFails(c)
    BY <1>4 DEF DialFails, Goto, Handlers, Counted, TypeOK, pipeVars
  <1>5. CASE Reply(c)
    BY <1>5 DEF Reply, Goto, Handlers, Counted, TypeOK, pipeVars
  <1>6. CASE Count(c)
    BY <1>6 DEF Count, Goto, Handlers, Counted, TypeOK, pipeVars
  <1>7. CASE ReadFirst(c)
    BY <1>7 DEF ReadFirst, Goto, Handlers, Counted, TypeOK
  <1>8. CASE ForwardFirst(c)
    BY <1>8 DEF ForwardFirst, Goto, Handlers, Counted, TypeOK
  <1>9. CASE Panic(c)
    BY <1>9 DEF Panic, Goto, Handlers, Counted, TypeOK, pipeVars
  <1>. QED
    BY <1>1, <1>2, <1>3, <1>4, <1>5, <1>6, <1>7, <1>8, <1>9 DEF Handler

\* A copier that ends stays the copier of a tunnel.
LEMMA HandlersCopier ==
  ASSUME TypeOK, Handlers, NEW c \in Conns, NEW d \in Dirs, Copier(c, d)
  PROVE  Handlers'
  <1>1. CASE CopyRead(c, d) \/ CopyWrite(c, d)
    BY <1>1 DEF CopyRead, CopyWrite, Handlers, Counted
  <1>2. CASE CopyEnd(c, d)
    BY <1>2 DEF CopyEnd, Handlers, Counted, TypeOK
  <1>. QED  BY <1>1, <1>2 DEF Copier

\* Every step keeps handler, answer, ends and copiers in line.
THEOREM HandlersStep == TypeOK /\ Handlers /\ [Next]_vars => Handlers'
  <1>. SUFFICES ASSUME TypeOK, Handlers, [Next]_vars PROVE Handlers'
    OBVIOUS
  <1>1. CASE UNCHANGED vars
    BY <1>1 DEF vars, pipeVars, Handlers, Counted
  <1>2. CASE Close
    BY <1>2 DEF Close, Handlers, Counted, pipeVars
  <1>3. ASSUME NEW c \in Conns,
               \/ Connect(c) \/ Handler(c)
               \/ \E e \in Ends : HangUp(c, e)
               \/ \E d \in Dirs : Send(c, d) \/ Copier(c, d)
        PROVE  Handlers'
    BY <1>3, HandlersPeer, HandlersHandler, HandlersCopier
  <1>. QED  BY <1>1, <1>2, <1>3 DEF Next

-----------------------------------------------------------------------------
(* Counters *)

\* Each kind's counted connections are finitely many.
LEMMA CountedFinite ==
  ASSUME NEW k
  PROVE  IsFiniteSet(CountedConns(k)) /\ Cardinality(CountedConns(k)) \in Nat
  <1>1. CountedConns(k) \subseteq Conns
    BY DEF CountedConns
  <1>. QED  BY <1>1, FS_Subset, FS_CardinalityType, ProxyAssumption

\* Nobody is counted before the proxy serves.
THEOREM CountersInit == Init => Counters
  <1>. SUFFICES ASSUME Init, NEW k \in Kinds PROVE tunneled[k] = Cardinality(CountedConns(k))
    BY DEF Counters
  <1>1. CountedConns(k) = {}
    BY DEF CountedConns, Counted, Init
  <1>. QED  BY <1>1, FS_EmptySet DEF Init

\* A step that counts nobody and moves no counted handler out of its places.
LEMMA CountersKept ==
  ASSUME Counters, UNCHANGED <<tunneled, request>>,
         \A c \in Conns : Counted(c)' <=> Counted(c)
  PROVE  Counters'
  <1>1. \A k : CountedConns(k)' = CountedConns(k)
    BY DEF CountedConns
  <1>. QED  BY <1>1 DEF Counters

\* Count adds one connection to those of its kind, and to no other kind.
LEMMA CountersCount ==
  ASSUME TypeOK, Handlers, Counters, NEW c \in Conns, Count(c)
  PROVE  Counters'
  <1>1. /\ pc[c] = "count" /\ request' = request
        /\ pc' = [pc EXCEPT ![c] = "first"] /\ pc \in [Conns -> Places]
        /\ tunneled' = [tunneled EXCEPT ![request[c]] = @ + 1]
        /\ tunneled \in [Kinds -> Nat]
    BY DEF Count, Goto, TypeOK
  <1>2. request[c] \in Kinds
    <2>1. request[c] \in Kinds \cup {"refused"}
      BY DEF TypeOK
    <2>2. request[c] = "refused" => pc[c] \in {"idle", "request", "done"}
      BY DEF Handlers
    <2>. QED  BY <1>1, <2>1, <2>2
  <1>. SUFFICES ASSUME NEW k \in Kinds
                PROVE  tunneled'[k] = Cardinality(CountedConns(k)')
    BY DEF Counters
  <1>3. tunneled[k] = Cardinality(CountedConns(k))
    BY DEF Counters
  <1>4. CASE k = request[c]
    <2>1. CountedConns(k)' = CountedConns(k) \cup {c} /\ c \notin CountedConns(k)
      BY <1>1, <1>4 DEF CountedConns, Counted
    <2>2. Cardinality(CountedConns(k)') = Cardinality(CountedConns(k)) + 1
      BY <2>1, CountedFinite, FS_AddElement
    <2>3. tunneled'[k] = tunneled[k] + 1
      BY <1>1, <1>2, <1>4
    <2>. QED  BY <2>2, <2>3, <1>3
  <1>5. CASE k # request[c]
    <2>1. CountedConns(k)' = CountedConns(k)
      BY <1>1, <1>5 DEF CountedConns, Counted
    <2>2. tunneled'[k] = tunneled[k]
      BY <1>1, <1>2, <1>5
    <2>. QED  BY <2>1, <2>2, <1>3
  <1>. QED  BY <1>4, <1>5

\* Only Count changes who is counted (the atomic additions of the handler).
THEOREM CountersStep ==
  TypeOK /\ Handlers /\ Counters /\ [Next]_vars => Counters'
  <1>. SUFFICES ASSUME TypeOK, Handlers, Counters, [Next]_vars PROVE Counters'
    OBVIOUS
  <1>0. pc \in [Conns -> Places]
    BY DEF TypeOK
  <1>1. CASE UNCHANGED vars
    BY <1>1, CountersKept DEF vars, Counted
  <1>2. CASE Close
    BY <1>2, CountersKept DEF Close, Counted
  <1>3. ASSUME NEW c \in Conns,
               \/ \E e \in Ends : HangUp(c, e)
               \/ \E d \in Dirs : Send(c, d) \/ Copier(c, d)
        PROVE  Counters'
    BY <1>3, CountersKept DEF HangUp, Send, Copier, CopyRead, CopyWrite, CopyEnd,
                              Counted
  <1>4. ASSUME NEW c \in Conns, Connect(c) \/ Handler(c), ~Count(c)
        PROVE  Counters'
    <2>1. UNCHANGED <<tunneled, request>>
      BY <1>4 DEF Connect, Handler, Refuse, Hijack, Dial, DialFails, Reply,
                  ReadFirst, ForwardFirst, Panic
    <2>2. /\ pc' = [pc EXCEPT ![c] = pc'[c]]
          /\ pc'[c] \in {"first", "forward", "tunnel", "dropped"} <=> Counted(c)
      BY <1>0, <1>4 DEF Connect, Handler, Refuse, Hijack, Dial, DialFails, Reply,
                  ReadFirst, ForwardFirst, Panic, Goto, Counted
    <2>3. \A x \in Conns : Counted(x)' <=> Counted(x)
      BY <1>0, <2>2 DEF Counted
    <2>. QED  BY <2>1, <2>3, CountersKept
  <1>. QED  BY <1>1, <1>2, <1>3, <1>4, CountersCount DEF Next, Handler

-----------------------------------------------------------------------------
(* Streams *)

\* A packet that is sent goes to the end.
LEMMA PipeSend ==
  ASSUME NEW g \in Seq(Nat), NEW h \in Seq(Nat), NEW w \in Seq(Nat), NEW n \in Nat,
         Pipe(g, h, w, n)
  PROVE  Pipe(g, h, Append(w, n + 1), n + 1)
  <1>. DEFINE v == Append(w, n + 1)
  <1>1. Len(g) \in Nat /\ Len(h) \in Nat /\ Len(w) \in Nat
    OBVIOUS
  <1>2. Len(v) = Len(w) + 1
    OBVIOUS
  <1>3. Len(g) + Len(h) + Len(w) + 1 = n + 1
    BY <1>1 DEF Pipe
  <1>4. ASSUME NEW i \in 1..Len(v)
        PROVE  v[i] = Len(g) + Len(h) + i
    <2>1. CASE i = Len(w) + 1
      <3>1. v[i] = n + 1
        BY <2>1
      <3>. QED  BY <2>1, <3>1, <1>1, <1>3
    <2>2. CASE i # Len(w) + 1
      <3>1. i \in 1..Len(w) /\ v[i] = w[i]
        BY <2>2, <1>1, <1>2
      <3>. QED  BY <3>1 DEF Pipe
    <2>. QED  BY <2>1, <2>2
  <1>5. Len(g) + Len(h) + Len(v) = n + 1
    BY <1>1, <1>2, <1>3
  <1>6. \A i \in 1..Len(h) : h[i] = Len(g) + i
    BY DEF Pipe
  <1>. HIDE DEF v
  <1>7. Pipe(g, h, v, n + 1)
    BY <1>4, <1>5, <1>6 DEF Pipe
  <1>. QED  BY <1>7 DEF v

\* The packet taken into an empty hand is the one after those got.
LEMMA PipeTake ==
  ASSUME NEW g \in Seq(Nat), NEW w \in Seq(Nat), NEW n \in Nat,
         w # <<>>, Pipe(g, <<>>, w, n)
  PROVE  Pipe(g, <<Head(w)>>, Tail(w), n)
  <1>. DEFINE t == Tail(w)
              h == <<Head(w)>>
  <1>1. Len(g) \in Nat /\ Len(w) \in Nat \ {0} /\ Len(<<>>) = 0
    BY EmptySeq
  <1>2. Len(t) = Len(w) - 1 /\ \A i \in 1..Len(t) : t[i] = w[i + 1]
    BY HeadTailProperties
  <1>3. Len(h) = 1 /\ h[1] = w[1]
    OBVIOUS
  <1>4. Len(g) + Len(w) = n /\ \A i \in 1..Len(w) : w[i] = Len(g) + i
    BY <1>1 DEF Pipe
  <1>. HIDE DEF t, h
  <1>5. Len(g) + Len(h) + Len(t) = n
    <2>1. Len(h) = 1 /\ Len(t) = Len(w) - 1 /\ Len(g) + Len(w) = n
      BY <1>2, <1>3, <1>4
    <2>2. \A a \in Nat, b \in Nat : a + 1 + (b - 1) = a + b
      OBVIOUS
    <2>. QED  BY <2>1, <2>2, <1>1
  <1>6. ASSUME NEW i \in 1..Len(h)
        PROVE  h[i] = Len(g) + i
    <2>1. i = 1 /\ 1 \in 1..Len(w)
      BY <1>1, <1>3
    <2>. QED  BY <2>1, <1>3, <1>4
  <1>7. ASSUME NEW i \in 1..Len(t)
        PROVE  t[i] = Len(g) + Len(h) + i
    <2>1. i + 1 \in 1..Len(w) /\ t[i] = w[i + 1]
      BY <1>1, <1>2
    <2>2. w[i + 1] = Len(g) + (i + 1)
      BY <2>1, <1>4
    <2>. QED  BY <2>1, <2>2, <1>1, <1>3
  <1>8. Pipe(g, h, t, n)
    BY <1>5, <1>6, <1>7 DEF Pipe
  <1>. QED  BY <1>8 DEF h, t

\* What is in the hand goes on where what was got ends.
LEMMA PipeDeliver ==
  ASSUME NEW g \in Seq(Nat), NEW h \in Seq(Nat), NEW w \in Seq(Nat), NEW n \in Nat,
         InOrder(g), Pipe(g, h, w, n)
  PROVE  InOrder(g \o h) /\ Pipe(g \o h, <<>>, w, n) /\ Len(g \o h) <= n
  <1>. DEFINE r == g \o h
              z == <<>>
  <1>1. Len(g) \in Nat /\ Len(h) \in Nat /\ Len(w) \in Nat /\ Len(z) = 0
    BY EmptySeq
  <1>2. /\ Len(r) = Len(g) + Len(h)
        /\ \A i \in 1..(Len(g) + Len(h)) :
              r[i] = IF i <= Len(g) THEN g[i] ELSE h[i - Len(g)]
    BY ConcatProperties
  <1>3. /\ Len(g) + Len(h) + Len(w) = n
        /\ \A i \in 1..Len(h) : h[i] = Len(g) + i
        /\ \A i \in 1..Len(w) : w[i] = Len(g) + Len(h) + i
    BY DEF Pipe
  <1>. HIDE DEF r, z
  <1>4. ASSUME NEW i \in 1..Len(r)
        PROVE  r[i] = i
    <2>1. CASE i <= Len(g)
      <3>1. i \in 1..Len(g) /\ r[i] = g[i]
        BY <2>1, <1>1, <1>2
      <3>. QED  BY <3>1 DEF InOrder
    <2>2. CASE ~(i <= Len(g))
      <3>1. i - Len(g) \in 1..Len(h) /\ r[i] = h[i - Len(g)]
        BY <2>2, <1>1, <1>2
      <3>2. h[i - Len(g)] = Len(g) + (i - Len(g))
        BY <3>1, <1>3
      <3>. QED  BY <3>1, <3>2, <1>1
    <2>. QED  BY <2>1, <2>2
  <1>5. Len(r) + Len(z) + Len(w) = n /\ Len(r) <= n
    BY <1>1, <1>2, <1>3
  <1>6. \A i \in 1..Len(w) : w[i] = Len(r) + Len(z) + i
    BY <1>1, <1>2, <1>3
  <1>7. \A i \in 1..Len(z) : z[i] = Len(r) + i
    BY <1>1
  <1>8. InOrder(r) /\ Pipe(r, z, w, n)
    BY <1>4, <1>5, <1>6, <1>7 DEF InOrder, Pipe
  <1>. QED  BY <1>5, <1>8 DEF r, z

\* One direction of one connection.
Stream(c, d) ==
  /\ Len(got[c][d]) <= sent[c][d] /\ InOrder(got[c][d])
  /\ Receiver(d) \in ends[c] \/ sent[c][d] = 0 =>
       Pipe(got[c][d], hand[c][d], wire[c][d], sent[c][d])

\* Streams, one direction at a time.
LEMMA StreamsAre == Streams <=> \A c \in Conns, d \in Dirs : Stream(c, d)
  BY DEF Streams, Stream

\* Packets are numbers.
LEMMA PipeNat ==
  ASSUME TypeOK, NEW c \in Conns, NEW d \in Dirs
  PROVE  /\ sent[c][d] \in Nat /\ wire[c][d] \in Seq(Nat)
         /\ hand[c][d] \in Seq(Nat) /\ got[c][d] \in Seq(Nat)
  <1>1. MaxPackets \in Nat /\ Packets \subseteq Nat
    BY ProxyAssumption DEF Packets
  <1>2. /\ sent[c][d] \in 0..MaxPackets /\ wire[c][d] \in Seq(Packets)
        /\ hand[c][d] \in Seq(Packets) /\ got[c][d] \in Seq(Packets)
    BY PipeTypes
  <1>3. \A s \in Seq(Packets) : s \in Seq(Nat)
    BY <1>1, SeqMonotonic
  <1>. QED  BY <1>1, <1>2, <1>3

\* Nothing is sent before the proxy serves.
THEOREM StreamsInit == Init => Streams
  <1>. SUFFICES ASSUME Init, NEW c \in Conns, NEW d \in Dirs PROVE Stream(c, d)
    BY StreamsAre
  <1>1. sent[c][d] = 0 /\ wire[c][d] = <<>> /\ hand[c][d] = <<>> /\ got[c][d] = <<>>
    BY DEF Init, PerDir
  <1>. QED  BY <1>1 DEF Stream, Pipe, InOrder

\* What does not move a packet, and brings back no receiver of one sent.
LEMMA StreamKept ==
  ASSUME NEW c \in Conns, NEW d \in Dirs, Stream(c, d),
         sent'[c][d] = sent[c][d], wire'[c][d] = wire[c][d],
         hand'[c][d] = hand[c][d], got'[c][d] = got[c][d],
         Receiver(d) \in ends'[c] => Receiver(d) \in ends[c] \/ sent[c][d] = 0
  PROVE  Stream(c, d)'
  BY DEF Stream, Receiver

\* A packet sent goes to the end of the wire.
LEMMA StreamSend ==
  ASSUME TypeOK, NEW c \in Conns, NEW d \in Dirs, Stream(c, d), Send(c, d)
  PROVE  Stream(c, d)'
  <1>. DEFINE n == sent[c][d]
  <1>1. /\ sent'[c][d] = n + 1 /\ wire'[c][d] = Append(wire[c][d], n + 1)
        /\ hand' = hand /\ got' = got /\ ends' = ends
    BY DEF Send, TypeOK
  <1>2. n \in Nat /\ Len(got[c][d]) \in Nat
    BY PipeNat, LenProperties
  <1>3. Receiver(d) \in ends[c] =>
          Pipe(got[c][d], hand[c][d], Append(wire[c][d], n + 1), n + 1)
    BY PipeNat, PipeSend DEF Stream
  <1>4. Len(got[c][d]) <= n /\ InOrder(got[c][d])
    BY DEF Stream
  <1>5. n + 1 # 0 /\ Len(got[c][d]) <= n + 1
    BY <1>2, <1>4
  <1>. QED  BY <1>1, <1>3, <1>4, <1>5 DEF Stream, Receiver

\* The packet taken from the wire is the next one.
LEMMA StreamTake ==
  ASSUME TypeOK, NEW c \in Conns, NEW d \in Dirs, Stream(c, d),
         wire[c][d] # <<>>, hand[c][d] = <<>>,
         hand'[c][d] = <<Head(wire[c][d])>>, wire'[c][d] = Tail(wire[c][d]),
         got' = got, sent' = sent, ends' = ends
  PROVE  Stream(c, d)'
  <1>1. Pipe(got[c][d], hand[c][d], wire[c][d], sent[c][d]) =>
          Pipe(got[c][d], hand'[c][d], wire'[c][d], sent[c][d])
    BY PipeNat, PipeTake
  <1>. QED  BY <1>1 DEF Stream, Receiver

\* A packet written is the receiver's next one, or the receiver has gone.
LEMMA StreamDeliver ==
  ASSUME TypeOK, NEW c \in Conns, NEW d \in Dirs, Stream(c, d),
         Deliver(c, d), hand'[c][d] = <<>>,
         wire' = wire, sent' = sent, ends' = ends
  PROVE  Stream(c, d)'
  <1>1. CASE Receiver(d) \in ends[c]
    <2>1. got'[c][d] = got[c][d] \o hand[c][d]
      BY <1>1 DEF Deliver, TypeOK
    <2>2. /\ InOrder(got'[c][d]) /\ Len(got'[c][d]) <= sent[c][d]
          /\ Pipe(got'[c][d], hand'[c][d], wire[c][d], sent[c][d])
      BY <1>1, <2>1, PipeNat, PipeDeliver DEF Stream
    <2>. QED  BY <2>2 DEF Stream
  <1>2. CASE Receiver(d) \notin ends[c]
    <2>1. got' = got
      BY <1>2 DEF Deliver
    <2>2. ASSUME sent[c][d] = 0
          PROVE  hand[c][d] = <<>>
      <3>1. Len(got[c][d]) + Len(hand[c][d]) + Len(wire[c][d]) = 0
        BY <2>2 DEF Stream, Pipe
      <3>2. Len(got[c][d]) \in Nat /\ Len(hand[c][d]) \in Nat /\ Len(wire[c][d]) \in Nat
        BY PipeNat, LenProperties
      <3>3. \A a \in Nat, b \in Nat, e \in Nat : a + b + e = 0 => b = 0
        OBVIOUS
      <3>4. Len(hand[c][d]) = 0
        BY <3>1, <3>2, <3>3
      <3>. QED  BY <3>4, PipeNat, EmptySeq
    <2>. QED  BY <1>2, <2>1, <2>2 DEF Stream, Receiver
  <1>. QED  BY <1>1, <1>2

\* Clients and targets: a receiver that comes has been sent nothing.
LEMMA StreamsPeer ==
  ASSUME TypeOK, Handlers, Streams, Speech, NEW c \in Conns,
         Connect(c) \/ (\E e \in Ends : HangUp(c, e)) \/ \E d \in Dirs : Send(c, d)
  PROVE  Streams'
  <1>. SUFFICES ASSUME NEW x \in Conns, NEW y \in Dirs PROVE Stream(x, y)'
    BY StreamsAre DEF Streams, Stream
  <1>0. Stream(x, y)
    BY StreamsAre
  <1>1. CASE Connect(c)
    <2>1. UNCHANGED <<sent, wire, hand, got>> /\ pc[c] = "idle"
          /\ ends' = [ends EXCEPT ![c] = {"client"}]
      BY <1>1 DEF Connect, Goto, pipeVars
    <2>2. Receiver(y) \in ends'[x] => Receiver(y) \in ends[x] \/ sent[x][y] = 0
      <3>1. CASE x = c /\ y = "down"
        <4>1. ~(sent[c]["down"] > 0) /\ sent[c]["down"] \in Nat
          BY <2>1, PipeNat DEF Speech, Dirs
        <4>. QED  BY <3>1, <4>1
      <3>2. CASE x # c
        BY <2>1, <3>2 DEF TypeOK
      <3>3. CASE x = c /\ y # "down"
        BY <2>1, <3>3 DEF TypeOK, Receiver, Dirs
      <3>. QED  BY <3>1, <3>2, <3>3
    <2>. QED  BY <1>0, <2>1, <2>2, StreamKept
  <1>2. CASE \E e \in Ends : HangUp(c, e)
    <2>1. UNCHANGED <<sent, wire, hand, got>>
      BY <1>2 DEF HangUp, pipeVars
    <2>2. ends'[x] \subseteq ends[x]
      BY <1>2 DEF HangUp, TypeOK
    <2>. QED  BY <1>0, <2>1, <2>2, StreamKept
  <1>3. ASSUME NEW d \in Dirs, Send(c, d)
        PROVE  Stream(x, y)'
    <2>1. CASE x = c /\ y = d
      BY <1>0, <1>3, <2>1, StreamSend
    <2>2. CASE ~(x = c /\ y = d)
      <3>1. sent'[x][y] = sent[x][y] /\ wire'[x][y] = wire[x][y]
            /\ UNCHANGED <<hand, got, ends>>
        BY <1>3, <2>2 DEF Send, TypeOK
      <3>. QED  BY <1>0, <3>1, StreamKept
    <2>. QED  BY <2>1, <2>2
  <1>. QED  BY <1>1, <1>2, <1>3

\* The handler: the target comes before the client may send, and the first
\* packet passes through its hand.
LEMMA StreamsHandler ==
  ASSUME TypeOK, Handlers, Streams, Speech, NEW c \in Conns, Handler(c)
  PROVE  Streams'
  <1>. SUFFICES ASSUME NEW x \in Conns, NEW y \in Dirs PROVE Stream(x, y)'
    BY StreamsAre DEF Streams, Stream
  <1>0. Stream(x, y)
    BY StreamsAre
  <1>1. CASE \/ Refuse(c) \/ Hijack(c) \/ DialFails(c) \/ Reply(c) \/ Count(c)
             \/ Panic(c)
    <2>1. UNCHANGED <<sent, wire, hand, got, ends>>
      BY <1>1 DEF Refuse, Hijack, DialFails, Reply, Count, Panic, pipeVars
    <2>. QED  BY <1>0, <2>1, StreamKept
  <1>2. CASE Dial(c)
    <2>1. UNCHANGED <<sent, wire, hand, got>> /\ pc[c] = "dial"
          /\ ends' = [ends EXCEPT ![c] = @ \cup {"target"}]
      BY <1>2 DEF Dial, Goto, pipeVars
    <2>2. Receiver(y) \in ends'[x] => Receiver(y) \in ends[x] \/ sent[x][y] = 0
      <3>1. CASE x = c /\ y = "up"
        <4>1. ~(sent[c]["up"] > 0) /\ sent[c]["up"] \in Nat
          BY <2>1, PipeNat DEF Speech, Handlers, Counted, Dirs
        <4>. QED  BY <3>1, <4>1
      <3>2. CASE x # c
        BY <2>1, <3>2 DEF TypeOK
      <3>3. CASE x = c /\ y # "up"
        BY <2>1, <3>3 DEF TypeOK, Receiver, Dirs
      <3>. QED  BY <3>1, <3>2, <3>3
    <2>. QED  BY <1>0, <2>1, <2>2, StreamKept
  <1>3. CASE ReadFirst(c)
    <2>1. CASE x = c /\ y = "up"
      <3>1. /\ wire[x][y] # <<>> /\ hand[x][y] = <<>>
            /\ hand'[x][y] = <<Head(wire[x][y])>> /\ wire'[x][y] = Tail(wire[x][y])
            /\ got' = got /\ sent' = sent /\ ends' = ends
        BY <1>3, <2>1 DEF ReadFirst, Goto, TypeOK, Speech
      <3>. QED  BY <1>0, <3>1, StreamTake
    <2>2. CASE ~(x = c /\ y = "up")
      <3>1. wire'[x][y] = wire[x][y] /\ hand'[x][y] = hand[x][y]
            /\ UNCHANGED <<sent, got, ends>>
        BY <1>3, <2>2 DEF ReadFirst, TypeOK
      <3>. QED  BY <1>0, <3>1, StreamKept
    <2>. QED  BY <2>1, <2>2
  <1>4. CASE ForwardFirst(c)
    <2>1. CASE x = c /\ y = "up"
      <3>1. Deliver(x, y) /\ hand'[x][y] = <<>> /\ UNCHANGED <<wire, sent, ends>>
        BY <1>4, <2>1 DEF ForwardFirst, TypeOK
      <3>. QED  BY <1>0, <3>1, StreamDeliver
    <2>2. CASE ~(x = c /\ y = "up")
      <3>1. got'[x][y] = got[x][y]
        BY <1>4, <2>2 DEF ForwardFirst, Deliver, TypeOK
      <3>2. hand'[x][y] = hand[x][y] /\ UNCHANGED <<wire, sent, ends>>
        BY <1>4, <2>2 DEF ForwardFirst, TypeOK
      <3>. QED  BY <1>0, <3>1, <3>2, StreamKept
    <2>. QED  BY <2>1, <2>2
  <1>. QED  BY <1>1, <1>2, <1>3, <1>4 DEF Handler

\* The copiers.
LEMMA StreamsCopier ==
  ASSUME TypeOK, Streams, NEW c \in Conns, NEW d \in Dirs, Copier(c, d)
  PROVE  Streams'
  <1>. SUFFICES ASSUME NEW x \in Conns, NEW y \in Dirs PROVE Stream(x, y)'
    BY StreamsAre DEF Streams, Stream
  <1>0. Stream(x, y)
    BY StreamsAre
  <1>1. CASE CopyRead(c, d)
    <2>1. CASE x = c /\ y = d
      <3>1. /\ wire[x][y] # <<>> /\ hand[x][y] = <<>>
            /\ hand'[x][y] = <<Head(wire[x][y])>> /\ wire'[x][y] = Tail(wire[x][y])
            /\ got' = got /\ sent' = sent /\ ends' = ends
        BY <1>1, <2>1 DEF CopyRead, TypeOK
      <3>. QED  BY <1>0, <3>1, StreamTake
    <2>2. CASE ~(x = c /\ y = d)
      <3>1. wire'[x][y] = wire[x][y] /\ hand'[x][y] = hand[x][y]
            /\ UNCHANGED <<sent, got, ends>>
        BY <1>1, <2>2 DEF CopyRead, TypeOK
      <3>. QED  BY <1>0, <3>1, StreamKept
    <2>. QED  BY <2>1, <2>2
  <1>2. CASE CopyWrite(c, d)
    <2>1. CASE x = c /\ y = d
      <3>1. Deliver(x, y) /\ hand'[x][y] = <<>> /\ UNCHANGED <<wire, sent, ends>>
        BY <1>2, <2>1 DEF CopyWrite, TypeOK
      <3>. QED  BY <1>0, <3>1, StreamDeliver
    <2>2. CASE ~(x = c /\ y = d)
      <3>1. got'[x][y] = got[x][y]
        BY <1>2, <2>2 DEF CopyWrite, Deliver, TypeOK
      <3>2. hand'[x][y] = hand[x][y] /\ UNCHANGED <<wire, sent, ends>>
        BY <1>2, <2>2 DEF CopyWrite, TypeOK
      <3>. QED  BY <1>0, <3>1, <3>2, StreamKept
    <2>. QED  BY <2>1, <2>2
  <1>3. CASE CopyEnd(c, d)
    <2>1. UNCHANGED <<sent, wire, hand, got, ends>>
      BY <1>3 DEF CopyEnd
    <2>. QED  BY <1>0, <2>1, StreamKept
  <1>. QED  BY <1>1, <1>2, <1>3 DEF Copier

\* No step of handler, copiers, clients or targets disturbs the order.
THEOREM StreamsStep ==
  TypeOK /\ Handlers /\ Streams /\ Speech /\ [Next]_vars => Streams'
  <1>. SUFFICES ASSUME TypeOK, Handlers, Streams, Speech, [Next]_vars PROVE Streams'
    OBVIOUS
  <1>1. CASE UNCHANGED vars \/ Close
    <2>1. UNCHANGED <<sent, wire, hand, got, ends>>
      BY <1>1 DEF vars, Close, pipeVars
    <2>. QED  BY <2>1, StreamKept, StreamsAre DEF Streams, Stream
  <1>2. ASSUME NEW c \in Conns,
               \/ Connect(c) \/ Handler(c)
               \/ \E e \in Ends : HangUp(c, e)
               \/ \E d \in Dirs : Send(c, d) \/ Copier(c, d)
        PROVE  Streams'
    BY <1>2, StreamsPeer, StreamsHandler, StreamsCopier
  <1>. QED  BY <1>1, <1>2 DEF Next

-----------------------------------------------------------------------------
(* Speech *)

\* Nobody has spoken.
THEOREM SpeechInit == Init => Speech
  BY DEF Init, Speech, PerDir, Dirs

\* Clients and targets: a client sends when it was answered, a target when it
\* was dialed, and one that has gone stays away.
LEMMA SpeechPeer ==
  ASSUME TypeOK, Handlers, Speech, NEW c \in Conns,
         Connect(c) \/ (\E e \in Ends : HangUp(c, e)) \/ \E d \in Dirs : Send(c, d)
  PROVE  Speech'
  <1>. "up" \in Dirs /\ "down" \in Dirs /\ pc \in [Conns -> Places]
    BY DEF Dirs, TypeOK
  <1>1. CASE Connect(c)
    BY <1>1 DEF Connect, Goto, Speech, TypeOK, pipeVars
  <1>2. CASE \E e \in Ends : HangUp(c, e)
    BY <1>2 DEF HangUp, Speech, TypeOK, pipeVars
  <1>3. ASSUME NEW d \in Dirs, Send(c, d)
        PROVE  Speech'
    <2>1. /\ UNCHANGED <<pc, answer, ends, hand, got>>
          /\ \A x \in Conns, y \in Dirs : ~(x = c /\ y = d) =>
                sent'[x][y] = sent[x][y] /\ wire'[x][y] = wire[x][y]
          /\ sent'[c][d] = sent[c][d] + 1
      <3>1. UNCHANGED <<pc, answer, ends, hand, got>>
        BY <1>3 DEF Send
      <3>2. /\ sent' = [sent EXCEPT ![c][d] = @ + 1]
            /\ wire' = [wire EXCEPT ![c][d] = Append(@, sent'[c][d])]
            /\ sent \in [Conns -> [Dirs -> 0..MaxPackets]]
            /\ wire \in [Conns -> [Dirs -> Seq(1..MaxPackets)]]
        BY <1>3 DEF Send, TypeOK
      <3>3. ASSUME NEW x \in Conns, NEW y \in Dirs, ~(x = c /\ y = d)
            PROVE  sent'[x][y] = sent[x][y] /\ wire'[x][y] = wire[x][y]
        BY <3>2, <3>3
      <3>. QED  BY <3>1, <3>2, <3>3
    <2>2. sent[c][d] \in Nat /\ sent'[c][d] > 0
      BY <2>1, PipeNat
    <2>3. CASE d = "up"
      <3>1. answer[c] = "established"
        BY <1>3, <2>3 DEF Send
      <3>. QED  BY <2>1, <2>2, <2>3, <3>1 DEF Speech
    <2>4. CASE d = "down"
      <3>1. "target" \in ends[c]
        BY <1>3, <2>4 DEF Send, Sender
      <3>2. pc[c] \notin {"idle", "request", "dial"}
        BY <3>1 DEF Handlers
      <3>. QED  BY <2>1, <2>2, <2>4, <3>2 DEF Speech
    <2>. QED  BY <2>3, <2>4 DEF Dirs
  <1>. QED  BY <1>1, <1>2, <1>3

\* The handler falls into full duplex with the client's first packet.
LEMMA SpeechHandler ==
  ASSUME TypeOK, Handlers, Speech, NEW c \in Conns, Handler(c)
  PROVE  Speech'
  <1>. "up" \in Dirs /\ "down" \in Dirs /\ pc \in [Conns -> Places]
    BY DEF Dirs, TypeOK
  <1>1. CASE Refuse(c)
    <2>1. /\ pc[c] = "request" /\ pc' = [pc EXCEPT ![c] = "done"]
          /\ UNCHANGED <<sent, wire, hand, got, ends>>
          /\ \A x \in Conns : x # c => answer'[x] = answer[x]
      BY <1>1 DEF Refuse, Goto, pipeVars, TypeOK
    <2>2. answer[c] # "established"
      BY <2>1 DEF Handlers, Counted
    <2>. QED  BY <2>1, <2>2 DEF Speech
  <1>2. CASE Hijack(c)
    BY <1>2 DEF Hijack, Goto, Speech, TypeOK, pipeVars
  <1>3. CASE Dial(c)
    BY <1>3 DEF Dial, Goto, Speech, TypeOK, pipeVars
  <1>4. CASE DialFails(c)
    BY <1>4 DEF DialFails, Goto, Speech, TypeOK, pipeVars
  <1>5. CASE Reply(c)
    BY <1>5 DEF Reply, Goto, Speech, TypeOK, pipeVars
  <1>6. CASE Count(c)
    BY <1>6 DEF Count, Goto, Speech, TypeOK, pipeVars
  <1>7. CASE ReadFirst(c)
    <2>1. /\ pc[c] = "first" /\ pc' = [pc EXCEPT ![c] = "forward"]
          /\ UNCHANGED <<sent, answer, ends, got>>
          /\ wire[c]["up"] # <<>> /\ hand'[c]["up"] # <<>>
          /\ \A x \in Conns : x # c => hand'[x] = hand[x] /\ wire'[x] = wire[x]
      BY <1>7 DEF ReadFirst, Goto, TypeOK
    <2>. QED  BY <2>1 DEF Speech
  <1>8. CASE ForwardFirst(c)
    <2>1. /\ pc[c] = "forward" /\ pc' = [pc EXCEPT ![c] = "tunnel"]
          /\ UNCHANGED <<sent, wire, answer, ends>>
          /\ hand'[c]["up"] = <<>>
          /\ \A x \in Conns : x # c => hand'[x] = hand[x] /\ got'[x] = got[x]
          /\ got'[c]["down"] = got[c]["down"]
      BY <1>8 DEF ForwardFirst, Deliver, Goto, TypeOK
    <2>2. hand[c]["up"] # <<>> /\ sent[c]["up"] > 0
      BY <2>1 DEF Speech
    <2>3. CASE "target" \in ends[c]
      <3>1. got'[c]["up"] = got[c]["up"] \o hand[c]["up"]
        BY <1>8, <2>3 DEF ForwardFirst, Deliver, Receiver, TypeOK
      <3>2. got'[c]["up"] # <<>>
        BY <3>1, <2>2, PipeNat, ConcatEqualIffEmpty
      <3>. QED  BY <2>1, <3>2 DEF Speech
    <2>4. CASE "target" \notin ends[c]
      BY <2>1, <2>2, <2>4 DEF Speech
    <2>. QED  BY <2>3, <2>4
  <1>9. CASE Panic(c)
    BY <1>9 DEF Panic, Goto, Speech, TypeOK, pipeVars
  <1>. QED
    BY <1>1, <1>2, <1>3, <1>4, <1>5, <1>6, <1>7, <1>8, <1>9 DEF Handler

\* The copiers work in tunnels only, and what was got is not taken back.
LEMMA SpeechCopier ==
  ASSUME TypeOK, Handlers, Speech, NEW c \in Conns, NEW d \in Dirs, Copier(c, d)
  PROVE  Speech'
  <1>. "up" \in Dirs /\ "down" \in Dirs
    BY DEF Dirs
  <1>0. pc[c] = "tunnel" /\ UNCHANGED <<pc, answer, ends, sent>>
    <2>1. copy[c][d] = "on" /\ UNCHANGED <<pc, answer, ends, sent>>
      BY DEF Copier, CopyRead, CopyWrite, CopyEnd
    <2>. QED  BY <2>1 DEF Handlers
  <1>1. CASE CopyRead(c, d)
    <2>1. /\ got' = got /\ wire[c][d] # <<>>
          /\ \A x \in Conns, y \in Dirs : ~(x = c /\ y = d) =>
                hand'[x][y] = hand[x][y] /\ wire'[x][y] = wire[x][y]
      BY <1>1 DEF CopyRead, TypeOK
    <2>. QED  BY <1>0, <2>1 DEF Speech
  <1>2. CASE CopyWrite(c, d)
    <2>1. /\ wire' = wire /\ hand'[c][d] = <<>>
          /\ \A x \in Conns, y \in Dirs : ~(x = c /\ y = d) =>
                hand'[x][y] = hand[x][y] /\ got'[x][y] = got[x][y]
          /\ got'[c][d] = got[c][d] \o hand[c][d] \/ got'[c][d] = got[c][d]
      BY <1>2 DEF CopyWrite, Deliver, TypeOK
    <2>2. got[c][d] # <<>> => got'[c][d] # <<>>
      <3>1. got[c][d] \in Seq(Nat) /\ hand[c][d] \in Seq(Nat)
        BY PipeNat
      <3>2. got[c][d] \o hand[c][d] = <<>> => got[c][d] = <<>>
        BY <3>1, ConcatEqualIffEmpty
      <3>. QED  BY <2>1, <3>2
    <2>. QED  BY <1>0, <2>1, <2>2 DEF Speech
  <1>3. CASE CopyEnd(c, d)
    BY <1>0, <1>3 DEF CopyEnd, Speech
  <1>. QED  BY <1>1, <1>2, <1>3 DEF Copier

\* Every step keeps who may have spoken.
THEOREM SpeechStep == TypeOK /\ Handlers /\ Speech /\ [Next]_vars => Speech'
  <1>. SUFFICES ASSUME TypeOK, Handlers, Speech, [Next]_vars PROVE Speech'
    OBVIOUS
  <1>1. CASE UNCHANGED vars \/ Close
    BY <1>1 DEF vars, Close, pipeVars, Speech
  <1>2. ASSUME NEW c \in Conns,
               \/ Connect(c) \/ Handler(c)
               \/ \E e \in Ends : HangUp(c, e)
               \/ \E d \in Dirs : Send(c, d) \/ Copier(c, d)
        PROVE  Speech'
    BY <1>2, SpeechPeer, SpeechHandler, SpeechCopier
  <1>. QED  BY <1>1, <1>2 DEF Next

-----------------------------------------------------------------------------
(* The inductive invariant, and what follows from it *)

\* The inductive invariant holds when the proxy starts serving.
THEOREM IInvInit == Init => IInv
  BY TypeInit, HandlersInit, CountersInit, StreamsInit, SpeechInit DEF IInv

\* Every step of Next keeps the inductive invariant.
THEOREM IInvStep == IInv /\ [Next]_vars => IInv'
  BY TypeStep, HandlersStep, CountersStep, StreamsStep, SpeechStep DEF IInv

\* The inductive invariant holds throughout.
THEOREM Invariance == Spec => []IInv
  BY IInvInit, IInvStep, PTL DEF Spec

\* "wait for the first client packet before falling into full duplex mode".
THEOREM ClientFirst == Spec => []ClientSpeaksFirst
  <1>1. IInv => ClientSpeaksFirst
    BY DEF IInv, Speech, ClientSpeaksFirst
  <1>. QED  BY <1>1, Invariance, PTL

\* No packet is lost, doubled or overtaken on its way to an end that stays.
THEOREM PacketsInOrder == Spec => []StreamsInOrder
  <1>1. ASSUME TypeOK, Streams, NEW c \in Conns, NEW d \in Dirs
        PROVE  Len(got[c][d]) <= sent[c][d] /\ got[c][d] = Numbers(Len(got[c][d]))
    <2>. DEFINE g == got[c][d]
    <2>1. g \in Seq(Nat) /\ Len(g) <= sent[c][d] /\ \A i \in 1..Len(g) : g[i] = i
      BY <1>1, PipeNat DEF Streams, InOrder
    <2>2. g = [i \in 1..Len(g) |-> g[i]]
      BY <2>1, LenProperties
    <2>. HIDE DEF g
    <2>3. g = [i \in 1..Len(g) |-> i]
      BY <2>1, <2>2
    <2>. QED  BY <2>1, <2>3 DEF g, Numbers
  <1>2. IInv => StreamsInOrder
    BY <1>1 DEF IInv, StreamsInOrder
  <1>. QED  BY <1>2, Invariance, PTL

\* The counters lie between the clients that heard from their target and the
\* clients that were told "established".
THEOREM CountsInTime == Spec => []CountedWhenUsed
  <1>1. ASSUME IInv, NEW k \in Kinds
        PROVE  /\ Cardinality({c \in Conns : request[c] = k /\ got[c]["down"] # <<>>})
                    <= tunneled[k]
               /\ tunneled[k] <=
                    Cardinality({c \in Conns : request[c] = k /\ answer[c] = "established"})
    <2>. DEFINE Heard == {c \in Conns : request[c] = k /\ got[c]["down"] # <<>>}
                Told == {c \in Conns : request[c] = k /\ answer[c] = "established"}
    <2>1. tunneled[k] = Cardinality(CountedConns(k))
      BY <1>1 DEF IInv, Counters
    <2>2. Heard \subseteq CountedConns(k)
      BY <1>1 DEF IInv, Speech, CountedConns, Counted
    <2>3. CountedConns(k) \subseteq Told
      BY <1>1 DEF IInv, Handlers, CountedConns
    <2>4. IsFiniteSet(Told)
      BY FS_Subset, ProxyAssumption
    <2>. HIDE DEF Heard, Told
    <2>5. Cardinality(Heard) <= Cardinality(CountedConns(k))
      BY <2>2, CountedFinite, FS_Subset
    <2>6. Cardinality(CountedConns(k)) <= Cardinality(Told)
      BY <2>3, <2>4, FS_Subset
    <2>7. Cardinality(Heard) <= tunneled[k] /\ tunneled[k] <= Cardinality(Told)
      BY <2>1, <2>5, <2>6
    <2>. QED  BY <2>7 DEF Heard, Told
  <1>2. IInv => CountedWhenUsed
    BY <1>1 DEF CountedWhenUsed
  <1>. QED  BY <1>2, Invariance, PTL

-----------------------------------------------------------------------------
(* No packet strands *)

\* The proxy has closed nothing of a tunnel, and no goroutine of it has gone,
\* while both ends are there: it closes its side of a target only after one of
\* the ends has left.
Intact(c) ==
  /\ pc[c] \in {"idle", "request", "dial", "reply", "count", "first", "forward"} =>
       "target" \notin shut[c] /\ got[c]["up"] = <<>>
  /\ answer[c] = "established" => "client" \notin shut[c]
  /\ ends[c] = Ends /\ answer[c] = "established" =>
       /\ shut[c] = {} /\ pc[c] # "dropped"
       /\ \A d \in Dirs : copy[c][d] # "done"

\* The answer is given once the target was dialed, so an established tunnel
\* that has lost an end does not get it back.
LEMMA IntactKept ==
  ASSUME IInv, \A c \in Conns : Intact(c), [Next]_vars
  PROVE  \A c \in Conns : Intact(c)'
  <1>. TypeOK /\ Handlers /\ "up" \in Dirs /\ "down" \in Dirs
    BY DEF IInv, Dirs
  <1>0. SUFFICES ASSUME NEW x \in Conns PROVE Intact(x)'
    OBVIOUS
  <1>i. Intact(x)
    OBVIOUS
  <1>h. /\ answer[x] = "established" <=>
             pc[x] \in {"count", "first", "forward", "tunnel", "dropped"}
        /\ request[x] = "refused" => pc[x] \in {"idle", "request", "done"}
        /\ \A d \in Dirs : copy[x][d] # "off" <=> pc[x] = "tunnel"
    BY DEF Handlers, Counted
  <1>1. CASE UNCHANGED vars
    BY <1>i, <1>1 DEF vars, pipeVars, Intact
  <1>2. CASE Close
    <2>1. /\ UNCHANGED <<pc, answer, ends, got, copy>>
          /\ \/ shut'[x] = shut[x]
             \/ /\ shut'[x] = shut[x] \cup {"client"}
                /\ pc[x] = "request" \/ answer[x] = "refused"
      BY <1>2 DEF Close, pipeVars
    <2>2. pc[x] = "request" \/ answer[x] = "refused" => answer[x] # "established"
      BY <1>h
    <2>. QED  BY <1>i, <2>1, <2>2 DEF Intact
  <1>3. ASSUME NEW c \in Conns,
               \/ Connect(c) \/ Refuse(c) \/ Hijack(c) \/ Dial(c) \/ DialFails(c)
        PROVE  Intact(x)'
    <2>1. /\ UNCHANGED <<shut, got, copy>> /\ pc[c] \in {"idle", "request", "dial"}
          /\ \E p \in Places : pc' = [pc EXCEPT ![c] = p]
          /\ c # x => answer'[x] = answer[x] /\ ends'[x] = ends[x]
          /\ answer'[c] \in {answer[c], "refused"}
      BY <1>3 DEF Connect, Refuse, Hijack, Dial, DialFails, Goto, pipeVars, TypeOK, Places
    <2>2. CASE c = x
      <3>1. answer[x] # "established" /\ answer'[x] # "established"
        BY <1>h, <2>1, <2>2
      <3>2. "target" \notin shut[x] /\ got[x]["up"] = <<>>
        BY <1>i, <2>1, <2>2 DEF Intact
      <3>. QED  BY <2>1, <3>1, <3>2 DEF Intact
    <2>3. CASE c # x
      <3>1. pc'[x] = pc[x]
        BY <2>1, <2>3 DEF TypeOK
      <3>. QED  BY <1>i, <2>1, <2>3, <3>1 DEF Intact
    <2>. QED  BY <2>2, <2>3
  <1>4. ASSUME NEW c \in Conns, Reply(c)
        PROVE  Intact(x)'
    <2>1. /\ UNCHANGED <<shut, got, copy, ends>> /\ pc[c] = "reply"
          /\ pc' = [pc EXCEPT ![c] = "count"] /\ "client" \notin shut[c]
          /\ answer' = [answer EXCEPT ![c] = "established"]
      BY <1>4 DEF Reply, MayWrite, Goto, pipeVars
    <2>2. CASE c = x
      <3>1. shut[x] \subseteq Ends /\ "target" \notin shut[x] /\ got[x]["up"] = <<>>
        BY <1>i, <2>1, <2>2 DEF Intact, TypeOK
      <3>2. \A d \in Dirs : copy[x][d] = "off"
        BY <1>h, <2>1, <2>2
      <3>3. pc'[x] = "count"
        BY <2>1, <2>2 DEF TypeOK
      <3>. QED  BY <2>1, <2>2, <3>1, <3>2, <3>3 DEF Intact, Ends
    <2>3. CASE c # x
      <3>1. pc'[x] = pc[x] /\ answer'[x] = answer[x]
        BY <2>1, <2>3 DEF TypeOK
      <3>. QED  BY <1>i, <2>1, <3>1 DEF Intact
    <2>. QED  BY <2>2, <2>3
  <1>5. ASSUME NEW c \in Conns, Count(c) \/ ReadFirst(c)
        PROVE  Intact(x)'
    <2>1. /\ UNCHANGED <<shut, got, copy, ends, answer>> /\ pc[c] \in {"count", "first"}
          /\ \E p \in {"first", "forward"} : pc' = [pc EXCEPT ![c] = p]
      BY <1>5 DEF Count, ReadFirst, Goto, pipeVars
    <2>2. /\ c # x => pc'[x] = pc[x]
          /\ c = x => pc[x] \in {"count", "first"} /\ pc'[x] \in {"first", "forward"}
      BY <2>1 DEF TypeOK
    <2>. QED  BY <1>i, <2>1, <2>2 DEF Intact
  <1>6. ASSUME NEW c \in Conns, ForwardFirst(c)
        PROVE  Intact(x)'
    <2>1. /\ UNCHANGED <<shut, ends, answer>> /\ pc[c] = "forward"
          /\ pc' = [pc EXCEPT ![c] = "tunnel"]
          /\ copy' = [copy EXCEPT ![c] = [d \in Dirs |-> "on"]]
          /\ c # x => got'[x] = got[x]
      BY <1>6 DEF ForwardFirst, Deliver, Goto, TypeOK
    <2>2. /\ c # x => pc'[x] = pc[x] /\ copy'[x] = copy[x]
          /\ c = x => pc'[x] = "tunnel" /\ \A d \in Dirs : copy'[x][d] = "on"
      BY <2>1 DEF TypeOK
    <2>. QED  BY <1>i, <2>1, <2>2 DEF Intact
  <1>7. ASSUME NEW c \in Conns, Panic(c)
        PROVE  Intact(x)'
    <2>1. UNCHANGED <<shut, ends, answer, got, copy>>
      BY <1>7 DEF Panic, pipeVars
    <2>2. /\ c # x => pc'[x] = pc[x]
          /\ c = x => /\ pc'[x] = "aborted" /\ pc[x] = "reply"
                      \/ /\ pc'[x] = "dropped" /\ pc[x] \in {"first", "forward"}
                         /\ \E e \in Ends : e \in shut[x] \/ e \notin ends[x]
      BY <1>7 DEF Panic, Goto, MayFail, TypeOK, Ends
    <2>3. c = x /\ pc'[x] = "aborted" => answer'[x] # "established"
      BY <1>h, <2>1, <2>2
    <2>4. pc[x] \in {"first", "forward"} => answer[x] = "established"
      BY <1>h
    <2>. QED  BY <1>i, <2>1, <2>2, <2>3, <2>4 DEF Intact
  <1>8. ASSUME NEW c \in Conns, NEW d \in Dirs, Send(c, d)
        PROVE  Intact(x)'
    BY <1>i, <1>8 DEF Send, Intact
  <1>9. ASSUME NEW c \in Conns, NEW e \in Ends, HangUp(c, e)
        PROVE  Intact(x)'
    <2>1. UNCHANGED <<shut, answer, pc, got, copy>> /\ ends' = [ends EXCEPT ![c] = @ \ {e}]
      BY <1>9 DEF HangUp, pipeVars
    <2>2. ends'[x] = Ends => ends[x] = Ends
      BY <2>1 DEF TypeOK
    <2>. QED  BY <1>i, <2>1, <2>2 DEF Intact
  <1>10. ASSUME NEW c \in Conns, NEW d \in Dirs, CopyRead(c, d) \/ CopyWrite(c, d)
         PROVE  Intact(x)'
    <2>1. UNCHANGED <<shut, answer, pc, ends, copy>> /\ copy[c][d] = "on"
          /\ (c # x => got'[x] = got[x])
      BY <1>10 DEF CopyRead, CopyWrite, Deliver, TypeOK
    <2>2. c = x => pc[x] = "tunnel"
      BY <1>h, <2>1
    <2>. QED  BY <1>i, <2>1, <2>2 DEF Intact
  <1>11. ASSUME NEW c \in Conns, NEW d \in Dirs, CopyEnd(c, d)
         PROVE  Intact(x)'
    <2>1. /\ UNCHANGED <<answer, pc, ends, got>> /\ copy[c][d] = "on"
          /\ c # x => shut'[x] = shut[x] /\ copy'[x] = copy[x]
          /\ c = x => shut'[x] \in {shut[x], shut[x] \cup {"target"}}
          /\ \E e \in Ends : e \in shut[c] \/ e \notin ends[c]
      BY <1>11 DEF CopyEnd, MayFail, Sender, Receiver, Ends, TypeOK
    <2>2. CASE c # x
      BY <1>i, <2>1, <2>2 DEF Intact
    <2>3. CASE c = x
      <3>1. pc[x] = "tunnel" /\ answer[x] = "established"
        BY <1>h, <2>1, <2>3
      <3>2. ends[x] # Ends
        BY <1>i, <2>1, <2>3, <3>1 DEF Intact
      <3>. QED  BY <1>i, <2>1, <2>3, <3>1, <3>2 DEF Intact
    <2>. QED  BY <2>2, <2>3
  <1>. QED
    BY <1>1, <1>2, <1>3, <1>4, <1>5, <1>6, <1>7, <1>8, <1>9, <1>10, <1>11, NextSteps

\* A goroutine of the proxy can take the step that a packet of direction d waits for:
\* the handler up to the client's first packet, then the copier of the direction.
Moves(c, d) ==
  \/ pc[c] = "count"
  \/ pc[c] = "first" /\ wire[c]["up"] # <<>>
  \/ pc[c] = "forward" /\ MayWrite(c, "target")
  \/ /\ pc[c] = "tunnel" /\ copy[c][d] = "on"
     /\ \/ hand[c][d] # <<>> /\ MayWrite(c, Receiver(d))
        \/ hand[c][d] = <<>> /\ wire[c][d] # <<>> /\ Sender(d) \notin shut[c]

\* While both ends stay and the client has spoken, a packet that has not arrived
\* never waits for a goroutine that is gone, for one that waits for the other
\* direction, or for a connection the proxy has closed, whether the proxy itself
\* is closed meanwhile or not: what TunnelCarries needs besides fairness.
THEOREM NoPacketStrands ==
  Spec => [](\A c \in Conns, d \in Dirs :
               ends[c] = Ends /\ sent[c]["up"] > 0 /\ Len(got[c][d]) < sent[c][d]
                 => Moves(c, d))
  <1>1. Init => \A c \in Conns : Intact(c)
    BY DEF Init, Intact, PerDir, Dirs
  <1>2. ASSUME IInv, NEW c \in Conns, Intact(c), NEW d \in Dirs,
               ends[c] = Ends, sent[c]["up"] > 0, Len(got[c][d]) < sent[c][d]
        PROVE  Moves(c, d)
    <2>. "up" \in Dirs /\ Receiver(d) \in Ends /\ Sender(d) \in Ends /\ Receiver("up") \in Ends
      BY DEF Dirs, Receiver, Sender, Ends
    <2>1. answer[c] = "established"
      BY <1>2 DEF IInv, Speech
    <2>2. shut[c] = {} /\ pc[c] # "dropped" /\ copy[c][d] # "done"
      BY <1>2, <2>1 DEF Intact
    <2>3. pc[c] \in {"count", "first", "forward", "tunnel"}
      BY <1>2, <2>1, <2>2 DEF IInv, Handlers, Counted
    <2>4. CASE pc[c] = "first"
      <3>1. got[c]["up"] = <<>> /\ hand[c]["up"] = <<>>
        BY <1>2, <2>4 DEF Intact, IInv, Speech
      <3>2. Pipe(got[c]["up"], hand[c]["up"], wire[c]["up"], sent[c]["up"])
        BY <1>2 DEF IInv, Streams
      <3>3. Len(wire[c]["up"]) = sent[c]["up"]
        <4>1. wire[c]["up"] \in Seq(Packets) /\ sent[c]["up"] \in Nat
          BY <1>2, PipeTypes DEF IInv
        <4>2. Len(got[c]["up"]) = 0 /\ Len(hand[c]["up"]) = 0 /\ Len(wire[c]["up"]) \in Nat
          BY <3>1, <4>1
        <4>3. Len(got[c]["up"]) + Len(hand[c]["up"]) + Len(wire[c]["up"]) = sent[c]["up"]
          BY <3>2 DEF Pipe
        <4>. QED  BY <4>1, <4>2, <4>3
      <3>4. wire[c]["up"] # <<>>
        BY <1>2, <3>3
      <3>. QED  BY <2>4, <3>4 DEF Moves
    <2>5. CASE pc[c] = "tunnel"
      <3>1. copy[c][d] = "on"
        BY <1>2, <2>2, <2>5 DEF IInv, TypeOK, Handlers
      <3>2. hand[c][d] # <<>> \/ wire[c][d] # <<>>
        <4>1. /\ wire[c][d] \in Seq(Packets) /\ hand[c][d] \in Seq(Packets)
              /\ got[c][d] \in Seq(Packets) /\ Len(got[c][d]) \in Nat
          BY <1>2, PipeTypes DEF IInv
        <4>2. Len(got[c][d]) + Len(hand[c][d]) + Len(wire[c][d]) = sent[c][d]
          BY <1>2 DEF IInv, Streams, Pipe
        <4>3. ASSUME hand[c][d] = <<>>, wire[c][d] = <<>>
              PROVE  Len(got[c][d]) + 0 + 0 = sent[c][d]
          <5>1. Len(hand[c][d]) = 0 /\ Len(wire[c][d]) = 0
            BY <4>3
          <5>. QED  BY <4>2, <5>1
        <4>4. Len(got[c][d]) + 0 + 0 # sent[c][d]
          BY <1>2, <4>1
        <4>. QED  BY <4>3, <4>4
      <3>. QED  BY <2>2, <2>5, <3>1, <3>2 DEF Moves, MayWrite
    <2>6. CASE pc[c] \in {"count", "forward"}
      BY <2>2, <2>6 DEF Moves, MayWrite
    <2>. QED  BY <2>3, <2>4, <2>5, <2>6
  <1>3. IInv /\ (\A c \in Conns : Intact(c)) =>
          \A c \in Conns, d \in Dirs :
            ends[c] = Ends /\ sent[c]["up"] > 0 /\ Len(got[c][d]) < sent[c][d]
              => Moves(c, d)
    BY <1>2
  <1>4. IInv /\ (\A c \in Conns : Intact(c)) /\ [Next]_vars => (\A c \in Conns : Intact(c))'
    BY IntactKept
  <1>. QED  BY <1>1, <1>3, <1>4, Invariance, PTL DEF Spec
=============================================================================
