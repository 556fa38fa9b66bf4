-------------------------- MODULE HTTPConnectProxy --------------------------
(***************************************************************************)
(* The HTTP CONNECT proxy the runner starts for features that expect       *)
(* proxied connections (harness/go/harness/httpproxy.go).  Each client     *)
(* connection has a handler, and once its tunnel is full duplex two        *)
(* goroutines that copy, one per direction.  runBatch closes the proxy     *)
(* when the batch returns and, before, compares its two counters.          *)
(*                                                                         *)
(* A packet is its number in its direction.  Clients and targets are       *)
(* outside: they send and close when they like, but a client that speaks   *)
(* CONNECT sends nothing before it was told the tunnel is established.     *)
(***************************************************************************)
EXTENDS Integers, Sequences, FiniteSets

CONSTANTS
  Conns,       \* the connections clients make
  MaxPackets   \* bound: packets per direction of a connection

ASSUME ProxyAssumption == IsFiniteSet(Conns) /\ MaxPackets \in Nat

Kinds == {"unauthed", "authed"}
Dirs  == {"up", "down"}         \* from the client, from the target
Ends  == {"client", "target"}

Sender(d)   == IF d = "up" THEN "client" ELSE "target"
Receiver(d) == IF d = "up" THEN "target" ELSE "client"

VARIABLES
  srv,       \* the http.Server: "serving" or "closed"
  request,   \* what a client asks: CONNECT without or with the credentials,
             \* or "refused": another method, or wrong credentials
  pc,        \* where the handler of a connection is
  answer,    \* what the client was told: "none", "refused", "established"
  ends,      \* the ends that have not closed the connection
  shut,      \* the ends the proxy has closed its connection to
  sent,      \* direction -> packets sent
  wire,      \* direction -> packets sent that the proxy has not read
  hand,      \* direction -> the packet read and not written yet
  got,       \* direction -> packets the receiver has got
  copy,      \* direction -> the copying goroutine: "off", "on", "done"
  tunneled   \* the two counters

pipeVars == <<sent, wire, hand, got, copy>>
vars == <<srv, request, pc, answer, ends, shut, pipeVars, tunneled>>

PerDir(x) == [c \in Conns |-> [d \in Dirs |-> x]]

Init ==
  /\ srv = "serving"
  /\ request \in [Conns -> Kinds \cup {"refused"}]
  /\ pc = [c \in Conns |-> "idle"] /\ answer = [c \in Conns |-> "none"]
  /\ ends = [c \in Conns |-> {}] /\ shut = [c \in Conns |-> {}]
  /\ sent = PerDir(0) /\ wire = PerDir(<<>>) /\ hand = PerDir(<<>>)
  /\ got = PerDir(<<>>) /\ copy = PerDir("off")
  /\ tunneled = [k \in Kinds |-> 0]

\* A write to a peer that has closed may go through, or fail; one to a
\* connection the proxy has closed fails.
MayWrite(c, e) == e \notin shut[c]
MayFail(c, e)  == e \in shut[c] \/ e \notin ends[c]

\* What a write in direction d does to what the receiver has got.
Deliver(c, d) ==
  got' = IF Receiver(d) \in ends[c]
           THEN [got EXCEPT ![c][d] = @ \o hand[c][d]] ELSE got

Goto(c, from, to) == pc[c] = from /\ pc' = [pc EXCEPT ![c] = to]

-----------------------------------------------------------------------------
(* Clients and targets *)

Connect(c) ==
  /\ srv = "serving" /\ Goto(c, "idle", "request")
  /\ ends' = [ends EXCEPT ![c] = {"client"}]
  /\ UNCHANGED <<srv, request, answer, shut, pipeVars, tunneled>>

Send(c, d) ==
  /\ Sender(d) \in ends[c] /\ sent[c][d] < MaxPackets
  /\ d = "up" => answer[c] = "established"
  /\ sent' = [sent EXCEPT ![c][d] = @ + 1]
  /\ wire' = [wire EXCEPT ![c][d] = Append(@, sent'[c][d])]
  /\ UNCHANGED <<srv, request, pc, answer, ends, shut, hand, got, copy, tunneled>>

HangUp(c, e) ==
  /\ e \in ends[c]
  /\ ends' = [ends EXCEPT ![c] = @ \ {e}]
  /\ UNCHANGED <<srv, request, pc, answer, shut, pipeVars, tunneled>>

-----------------------------------------------------------------------------
(* The handler *)

\* Not a CONNECT, or the wrong credentials.
Refuse(c) ==
  /\ request[c] = "refused" /\ Goto(c, "request", "done")
  /\ answer' = [answer EXCEPT ![c] = "refused"]
  /\ UNCHANGED <<srv, request, ends, shut, pipeVars, tunneled>>

Hijack(c) ==
  /\ request[c] # "refused" /\ Goto(c, "request", "dial")
  /\ UNCHANGED <<srv, request, answer, ends, shut, pipeVars, tunneled>>

Dial(c) ==
  /\ Goto(c, "dial", "reply")
  /\ ends' = [ends EXCEPT ![c] = @ \cup {"target"}]
  /\ UNCHANGED <<srv, request, answer, shut, pipeVars, tunneled>>

\* http.Error on a hijacked connection writes nothing, and nothing closes it.
DialFails(c) ==
  /\ Goto(c, "dial", "done")
  /\ UNCHANGED <<srv, request, answer, ends, shut, pipeVars, tunneled>>

\* "HTTP/1.1 200 Connection established"
Reply(c) ==
  /\ MayWrite(c, "client") /\ Goto(c, "reply", "count")
  /\ answer' = [answer EXCEPT ![c] = "established"]
  /\ UNCHANGED <<srv, request, ends, shut, pipeVars, tunneled>>

\* Mutant: hasAuth is inverted.
CountOther(c) ==
  /\ Goto(c, "count", "first")
  /\ tunneled' = [tunneled EXCEPT !["unauthed"] = @ + 1]
  /\ UNCHANGED <<srv, request, answer, ends, shut, pipeVars>>

\* Mutant: full duplex at once.
CountThenCopy(c) ==
  /\ Goto(c, "count", "tunnel")
  /\ tunneled' = [tunneled EXCEPT ![request[c]] = @ + 1]
  /\ copy' = [copy EXCEPT ![c] = [d \in Dirs |-> "on"]]
  /\ UNCHANGED <<srv, request, answer, ends, shut, sent, wire, hand, got>>

Count(c) ==
  /\ Goto(c, "count", "first")
  /\ tunneled' = [tunneled EXCEPT ![request[c]] = @ + 1]
  /\ UNCHANGED <<srv, request, answer, ends, shut, pipeVars>>

\* clientConn.Read
ReadFirst(c) ==
  /\ Goto(c, "first", "forward")
  /\ wire[c]["up"] # <<>>
  /\ hand' = [hand EXCEPT ![c]["up"] = <<Head(wire[c]["up"])>>]
  /\ wire' = [wire EXCEPT ![c]["up"] = Tail(@)]
  /\ UNCHANGED <<srv, request, answer, ends, shut, sent, got, copy, tunneled>>

\* Mutant: the first packet stays in the buffer that is copied from.
ForwardFirstKept(c) ==
  /\ MayWrite(c, "target") /\ Goto(c, "forward", "tunnel")
  /\ Deliver(c, "up")
  /\ copy' = [copy EXCEPT ![c] = [d \in Dirs |-> "on"]]
  /\ UNCHANGED <<srv, request, answer, ends, shut, sent, wire, hand, tunneled>>

\* Mutant: only the direction from the client is copied.
ForwardFirstHalf(c) ==
  /\ MayWrite(c, "target") /\ Goto(c, "forward", "tunnel")
  /\ Deliver(c, "up") /\ hand' = [hand EXCEPT ![c]["up"] = <<>>]
  /\ copy' = [copy EXCEPT ![c]["up"] = "on"]
  /\ UNCHANGED <<srv, request, answer, ends, shut, sent, wire, tunneled>>

\* The client's first packet goes to the target, and both copiers start.
ForwardFirst(c) ==
  /\ MayWrite(c, "target") /\ Goto(c, "forward", "tunnel")
  /\ Deliver(c, "up") /\ hand' = [hand EXCEPT ![c]["up"] = <<>>]
  /\ copy' = [copy EXCEPT ![c] = [d \in Dirs |-> "on"]]
  /\ UNCHANGED <<srv, request, answer, ends, shut, sent, wire, tunneled>>

\* The handler panics: net/http recovers, no hijacked connection is closed.
Panic(c) ==
  /\ \/ MayFail(c, "client") /\ Goto(c, "reply", "aborted")
     \/ MayFail(c, "client") /\ Goto(c, "first", "dropped")
     \/ MayFail(c, "target") /\ Goto(c, "forward", "dropped")
  /\ UNCHANGED <<srv, request, answer, ends, shut, pipeVars, tunneled>>

Handler(c) ==
  \/ Refuse(c) \/ Hijack(c) \/ Dial(c) \/ DialFails(c) \/ Reply(c) \/ Count(c)
  \/ ReadFirst(c) \/ ForwardFirst(c) \/ Panic(c)

-----------------------------------------------------------------------------
(* io.Copy in direction d, then targetConn.Close() for the one downwards *)

\* Mutant: the next packet is read before the last one is written.
CopyReadAhead(c, d) ==
  /\ copy[c][d] = "on" /\ wire[c][d] # <<>>
  /\ Sender(d) \notin shut[c]
  /\ hand' = [hand EXCEPT ![c][d] = Append(@, Head(wire[c][d]))]
  /\ wire' = [wire EXCEPT ![c][d] = Tail(@)]
  /\ UNCHANGED <<srv, request, pc, answer, ends, shut, sent, got, copy, tunneled>>

CopyRead(c, d) ==
  /\ copy[c][d] = "on" /\ hand[c][d] = <<>> /\ wire[c][d] # <<>>
  /\ Sender(d) \notin shut[c]
  /\ hand' = [hand EXCEPT ![c][d] = <<Head(wire[c][d])>>]
  /\ wire' = [wire EXCEPT ![c][d] = Tail(@)]
  /\ UNCHANGED <<srv, request, pc, answer, ends, shut, sent, got, copy, tunneled>>

CopyWrite(c, d) ==
  /\ copy[c][d] = "on" /\ hand[c][d] # <<>> /\ MayWrite(c, Receiver(d))
  /\ Deliver(c, d)
  /\ hand' = [hand EXCEPT ![c][d] = <<>>]
  /\ UNCHANGED <<srv, request, pc, answer, ends, shut, sent, wire, copy, tunneled>>

\* EOF or an error of a read, or an error of a write.  A peer that closed
\* may have reset the connection, so what it sent before may be lost.
CopyEnd(c, d) ==
  /\ copy[c][d] = "on"
  /\ \/ hand[c][d] = <<>> /\ MayFail(c, Sender(d))
     \/ hand[c][d] # <<>> /\ MayFail(c, Receiver(d))
  /\ copy' = [copy EXCEPT ![c][d] = "done"]
  /\ shut' = IF d = "down" THEN [shut EXCEPT ![c] = @ \cup {"target"}] ELSE shut
  /\ UNCHANGED <<srv, request, pc, answer, ends, sent, wire, hand, got, tunneled>>

Copier(c, d) == CopyRead(c, d) \/ CopyWrite(c, d) \/ CopyEnd(c, d)

-----------------------------------------------------------------------------
\* http.Server.Close closes the connections that are not hijacked.
Close ==
  /\ srv = "serving" /\ srv' = "closed"
  /\ shut' = [c \in Conns |->
                IF pc[c] = "request" \/ answer[c] = "refused"
                  THEN shut[c] \cup {"client"} ELSE shut[c]]
  /\ UNCHANGED <<request, pc, answer, ends, pipeVars, tunneled>>

Next ==
  \/ \E c \in Conns : Connect(c) \/ Handler(c)
  \/ \E c \in Conns, d \in Dirs : Send(c, d) \/ Copier(c, d)
  \/ \E c \in Conns, e \in Ends : HangUp(c, e)
  \/ Close

\* The goroutines are scheduled; clients, targets and runBatch need do nothing.
Fairness ==
  \A c \in Conns :
    WF_vars(Handler(c)) /\ \A d \in Dirs : WF_vars(Copier(c, d))

Spec == Init /\ [][Next]_vars /\ Fairness

-----------------------------------------------------------------------------
(* Properties *)

Places == {"idle", "request", "dial", "reply", "count", "first", "forward",
           "tunnel", "done", "aborted", "dropped"}

\* Type invariant of the proxy, its connections and their goroutines.
TypeOK ==
  /\ srv \in {"serving", "closed"}
  /\ request \in [Conns -> Kinds \cup {"refused"}]
  /\ pc \in [Conns -> Places]
  /\ answer \in [Conns -> {"none", "refused", "established"}]
  /\ ends \in [Conns -> SUBSET Ends] /\ shut \in [Conns -> SUBSET Ends]
  /\ sent \in [Conns -> [Dirs -> 0..MaxPackets]]
  /\ wire \in [Conns -> [Dirs -> Seq(1..MaxPackets)]]
  /\ hand \in [Conns -> [Dirs -> {<<>>} \cup {<<p>> : p \in 1..MaxPackets}]]
  /\ got \in [Conns -> [Dirs -> Seq(1..MaxPackets)]]
  /\ copy \in [Conns -> [Dirs -> {"off", "on", "done"}]]
  /\ tunneled \in [Kinds -> Nat]

\* "This is incremented on each successful CONNECT", and in time: a client
\* that has heard from its target is counted, under the kind of its request,
\* so the comparison in runBatch after the harness sees it; a client that was
\* not told "established" never is.
CountedWhenUsed ==
  \A k \in Kinds :
    /\ Cardinality({c \in Conns : request[c] = k /\ got[c]["down"] # <<>>})
         <= tunneled[k]
    /\ tunneled[k] <=
         Cardinality({c \in Conns : request[c] = k /\ answer[c] = "established"})

\* "wait for the first client packet before falling into full duplex mode":
\* no client gets a packet of its target before the target got one of it,
\* or before one was lost because the target had closed.
ClientSpeaksFirst ==
  \A c \in Conns : got[c]["down"] # <<>> =>
    \/ got[c]["up"] # <<>>
    \/ sent[c]["up"] > 0 /\ "target" \notin ends[c]

Numbers(n) == [i \in 1..n |-> i]

\* Each end gets the packets of the other without gap, repetition or change
\* of order, across the hand-over from the handler to the copiers, and
\* whichever end closes first.
StreamsInOrder ==
  \A c \in Conns, d \in Dirs :
    /\ Len(got[c][d]) <= sent[c][d]
    /\ got[c][d] = Numbers(Len(got[c][d]))

\* While both ends stay, an established tunnel carries every packet: the
\* client's at once, the target's once the client has spoken, whether the
\* proxy is closed meanwhile or not.
TunnelCarries ==
  \A c \in Conns, d \in Dirs : \A n \in 1..MaxPackets :
    sent[c][d] >= n /\ sent[c]["up"] > 0
      ~> Len(got[c][d]) >= n \/ ends[c] # Ends
=============================================================================
