----------------------------- MODULE Broadcast -----------------------------
(***************************************************************************)
(* The BroadcastManagers of a network of nodes, pkg/node/broadcast.go.     *)
(* Every node keeps the hashes it has seen with the time it saw them; what *)
(* it has not seen it handles and relays to its peers, and a cleanup       *)
(* forgets hashes after MessageTTL.                                        *)
(*                                                                         *)
(* A goroutine is a pair: <<n, f>> is node n's readLoop for its peer f,    *)
(* whose handler calls RelayIfNew or Relay, and <<n, n>> is whatever calls *)
(* Broadcast or GossipBroadcast at n.  A message stands for its hash.      *)
(***************************************************************************)
EXTENDS Integers, Sequences, FiniteSets

CONSTANTS
    Nodes, Msgs,
    Links,          \* pairs {m, n} of nodes that are connected at first
    Fragile,        \* links that may break
    Publishers,     \* nodes where messages originate
    Cleaners,       \* nodes where Start was called: a cleanup loop runs
    Fanout,         \* GossipFanout
    MessageTTL,
    NoTime, NoMsg,
    MaxTime         \* bound: the clock stops here

ASSUME NetworkAssumption ==
    /\ IsFiniteSet(Nodes) /\ IsFiniteSet(Msgs)
    /\ Links \subseteq SUBSET Nodes /\ Fragile \subseteq Links
    /\ \A l \in Links : \E m, n \in Nodes : m # n /\ l = {m, n}
    /\ Publishers \subseteq Nodes /\ Cleaners \subseteq Nodes
    /\ {Fanout, MessageTTL, MaxTime} \subseteq Nat
    /\ NoTime \notin Nat /\ NoMsg \notin Msgs

VARIABLES
    seen,           \* seenMessages: for each node and message a time or NoTime
    count,          \* the counter beside it
    pc, msg, at,    \* for each goroutine its step, message and time.Now()
    todo,           \* peers it has still to send the message to
    wire,           \* wire[f][n]: what f has sent to n and n has not read
    up,             \* links that are connected
    cleanAt,        \* the time at which a node's cleanup began, or NoTime
    toVisit,        \* entries that this cleanup has still to look at
    deleted,        \* entries it has deleted
    now,
    last,           \* history: when a node last took a message for new
    sampled         \* history: messages that a gossip has left a peer out for

cleanup == <<cleanAt, toVisit, deleted>>
history == <<last, sampled>>
vars == <<seen, count, pc, msg, at, todo, wire, up, cleanup, now, history>>

Procs == Nodes \X Nodes
Connected(n) == {p \in Nodes : p # n /\ {n, p} \in up}
IsSeen(n, m) == seen[n][m] # NoTime
-----------------------------------------------------------------------------
(* MarkSeen.                                                               *)

\* The hash is computed and the time read.
Begin(g, m) ==
    /\ pc[g] = "idle"
    /\ pc' = [pc EXCEPT ![g] = "store"]
    /\ msg' = [msg EXCEPT ![g] = m]
    /\ at' = [at EXCEPT ![g] = now]

Return(g) ==
    /\ pc' = [pc EXCEPT ![g] = "idle"]
    /\ msg' = [msg EXCEPT ![g] = NoMsg]
    /\ at' = [at EXCEPT ![g] = 0]

\* Wrong: Store for LoadOrStore.
MarkSeenAlways(g) ==
    LET n == g[1]
    IN  /\ pc[g] = "store"
        /\ pc' = [pc EXCEPT ![g] = "count"]
        /\ seen' = [seen EXCEPT ![n][msg[g]] = at[g]]
        /\ last' = [last EXCEPT ![n][msg[g]] = at[g]]
        /\ UNCHANGED <<count, msg, at, todo, wire, up, cleanup, now, sampled>>

\* LoadOrStore: a hash that is there ends the call.
MarkSeen(g) ==
    LET n == g[1]
    IN  /\ pc[g] = "store"
        /\ IF IsSeen(n, msg[g])
           THEN /\ Return(g)
                /\ UNCHANGED <<seen, last>>
           ELSE /\ pc' = [pc EXCEPT ![g] = "count"]
                /\ seen' = [seen EXCEPT ![n][msg[g]] = at[g]]
                /\ last' = [last EXCEPT ![n][msg[g]] = at[g]]
                /\ UNCHANGED <<msg, at>>
        /\ UNCHANGED <<count, todo, wire, up, cleanup, now, sampled>>
-----------------------------------------------------------------------------
(* Sending.                                                                *)

\* Wrong: one peer less than the fanout.
SelectFewer(candidates) ==
    {S \in SUBSET candidates :
        Cardinality(S) = IF Cardinality(candidates) < Fanout THEN Cardinality(candidates)
                         ELSE Fanout - 1}

\* selectGossipTargets: Fanout of the candidates, whichever the shuffle picks.
SelectGossipTargets(candidates) ==
    {S \in SUBSET candidates :
        Cardinality(S) = IF Cardinality(candidates) <= Fanout THEN Cardinality(candidates)
                         ELSE Fanout}

\* The loop over the peers, S of them left.
GoOn(g, S) ==
    /\ todo' = [todo EXCEPT ![g] = S]
    /\ IF S = {} THEN Return(g)
       ELSE pc' = [pc EXCEPT ![g] = "send"] /\ UNCHANGED <<msg, at>>

\* The counter goes up, and the peers to send to are chosen: for a readLoop
\* without the peer the message came from.  Broadcast takes all of them.
CountAndSelect(g) ==
    LET n == g[1]
        candidates == Connected(n) \ {g[2]}
    IN  /\ pc[g] = "count"
        /\ count' = [count EXCEPT ![n] = @ + 1]
        /\ \E S \in SelectGossipTargets(candidates) \cup
                        IF g[2] = n THEN {candidates} ELSE {} :
              /\ sampled' = IF Cardinality(candidates) > Fanout /\ S # candidates
                            THEN sampled \cup {msg[g]} ELSE sampled
              /\ GoOn(g, S)
        /\ UNCHANGED <<seen, wire, up, cleanup, now, last>>

\* WriteMessage to one peer; it fails when the link is broken, and nobody
\* tries again.
Send(g) ==
    LET n == g[1]
    IN  /\ pc[g] = "send"
        /\ \E p \in todo[g] :
              /\ GoOn(g, todo[g] \ {p})
              /\ wire' = IF {n, p} \in up
                         THEN [wire EXCEPT ![n][p] = Append(@, msg[g])] ELSE wire
        /\ UNCHANGED <<seen, count, up, cleanup, now, history>>

\* Broadcast or GossipBroadcast is called.
Publish(n, m) ==
    /\ Begin(<<n, n>>, m)
    /\ UNCHANGED <<seen, count, todo, wire, up, cleanup, now, history>>

\* n's readLoop for f reads a message, and the handler calls RelayIfNew.
Receive(n, f) ==
    /\ wire[f][n] # <<>>
    /\ Begin(<<n, f>>, Head(wire[f][n]))
    /\ wire' = [wire EXCEPT ![f][n] = Tail(@)]
    /\ UNCHANGED <<seen, count, todo, up, cleanup, now, history>>

\* A connection breaks; what has arrived already can still be read.
LinkDown(m, n) ==
    /\ {m, n} \in up \cap Fragile
    /\ up' = up \ {{m, n}}
    /\ \E i \in 0..Len(wire[m][n]), j \in 0..Len(wire[n][m]) :
          wire' = [wire EXCEPT ![m][n] = SubSeq(wire[m][n], 1, i),
                               ![n][m] = SubSeq(wire[n][m], 1, j)]
    /\ UNCHANGED <<seen, count, pc, msg, at, todo, cleanup, now, history>>
-----------------------------------------------------------------------------
(* cleanup, when the ticker fires.                                         *)

CleanStart(n) ==
    /\ cleanAt[n] = NoTime
    /\ cleanAt' = [cleanAt EXCEPT ![n] = now]
    /\ toVisit' = [toVisit EXCEPT ![n] = Msgs]
    /\ UNCHANGED <<seen, count, pc, msg, at, todo, wire, up, deleted, now, history>>

\* Wrong: an entry is deleted as soon as it is as old as MessageTTL.
CleanVisitEarly(n, m) ==
    /\ m \in toVisit[n]
    /\ toVisit' = [toVisit EXCEPT ![n] = @ \ {m}]
    /\ IF IsSeen(n, m) /\ cleanAt[n] - seen[n][m] >= MessageTTL
       THEN /\ seen' = [seen EXCEPT ![n][m] = NoTime]
            /\ deleted' = [deleted EXCEPT ![n] = @ + 1]
       ELSE UNCHANGED <<seen, deleted>>
    /\ UNCHANGED <<count, pc, msg, at, todo, wire, up, cleanAt, now, history>>

\* Range meets m: before it is stored, or after.  The value read and Delete are
\* one step, because nothing but the one cleanup loop changes an entry.
CleanVisit(n, m) ==
    /\ m \in toVisit[n]
    /\ toVisit' = [toVisit EXCEPT ![n] = @ \ {m}]
    /\ IF IsSeen(n, m) /\ cleanAt[n] - seen[n][m] > MessageTTL
       THEN /\ seen' = [seen EXCEPT ![n][m] = NoTime]
            /\ deleted' = [deleted EXCEPT ![n] = @ + 1]
       ELSE UNCHANGED <<seen, deleted>>
    /\ UNCHANGED <<count, pc, msg, at, todo, wire, up, cleanAt, now, history>>

\* Wrong: every entry that was visited is subtracted.
CleanEndAll(n) ==
    /\ cleanAt[n] # NoTime /\ toVisit[n] = {}
    /\ count' = [count EXCEPT ![n] = @ - Cardinality(Msgs)]
    /\ deleted' = [deleted EXCEPT ![n] = 0]
    /\ cleanAt' = [cleanAt EXCEPT ![n] = NoTime]
    /\ UNCHANGED <<seen, pc, msg, at, todo, wire, up, toVisit, now, history>>

CleanEnd(n) ==
    /\ cleanAt[n] # NoTime /\ toVisit[n] = {}
    /\ count' = [count EXCEPT ![n] = @ - deleted[n]]
    /\ deleted' = [deleted EXCEPT ![n] = 0]
    /\ cleanAt' = [cleanAt EXCEPT ![n] = NoTime]
    /\ UNCHANGED <<seen, pc, msg, at, todo, wire, up, toVisit, now, history>>

Tick ==
    /\ now < MaxTime
    /\ now' = now + 1
    /\ UNCHANGED <<seen, count, pc, msg, at, todo, wire, up, cleanup, history>>
-----------------------------------------------------------------------------
\* NewBroadcastManager, at every node
Init ==
    /\ seen = [n \in Nodes |-> [m \in Msgs |-> NoTime]]
    /\ last = seen
    /\ count = [n \in Nodes |-> 0]
    /\ pc = [g \in Procs |-> "idle"]
    /\ msg = [g \in Procs |-> NoMsg]
    /\ at = [g \in Procs |-> 0]
    /\ todo = [g \in Procs |-> {}]
    /\ wire = [f \in Nodes |-> [n \in Nodes |-> <<>>]]
    /\ up = Links
    /\ cleanAt = [n \in Nodes |-> NoTime]
    /\ toVisit = [n \in Nodes |-> {}]
    /\ deleted = [n \in Nodes |-> 0]
    /\ now = 0
    /\ sampled = {}

Runs(g) == MarkSeen(g) \/ CountAndSelect(g) \/ Send(g)

Clean(n) == CleanStart(n) \/ (\E m \in Msgs : CleanVisit(n, m)) \/ CleanEnd(n)

Next ==
    \/ \E g \in Procs : Runs(g)
    \/ \E n \in Publishers, m \in Msgs : Publish(n, m)
    \/ \E n, f \in Nodes : Receive(n, f) \/ LinkDown(n, f)
    \/ \E n \in Cleaners : Clean(n)
    \/ Tick

Spec == Init /\ [][Next]_vars

\* Goroutines run, and a readLoop reads what has arrived.  That anything is
\* published, a link breaks or a ticker fires is not assumed.
FairSpec ==
    /\ Spec
    /\ \A n, f \in Nodes : WF_vars(Runs(<<n, f>>) \/ Receive(n, f))
-----------------------------------------------------------------------------
Times == 0..now

TypeOK ==
    /\ seen \in [Nodes -> [Msgs -> Times \cup {NoTime}]]
    /\ last \in [Nodes -> [Msgs -> Times \cup {NoTime}]]
    /\ count \in [Nodes -> Int]
    /\ pc \in [Procs -> {"idle", "store", "count", "send"}]
    /\ msg \in [Procs -> Msgs \cup {NoMsg}]
    /\ at \in [Procs -> Times]
    /\ todo \in [Procs -> SUBSET Nodes]
    /\ wire \in [Nodes -> [Nodes -> Seq(Msgs)]]
    /\ up \subseteq Links
    /\ cleanAt \in [Nodes -> Times \cup {NoTime}]
    /\ toVisit \in [Nodes -> SUBSET Msgs]
    /\ deleted \in [Nodes -> 0..Cardinality(Msgs)]
    /\ now \in 0..MaxTime
    /\ sampled \subseteq Msgs

\* The counter lacks only the additions of MarkSeen calls that have stored and
\* not yet counted, and the deletions of a cleanup that has not subtracted them
\* yet, however calls of many readLoops and the cleanup interleave.
CountExact ==
    /\ TypeOK
    /\ \A n \in Nodes :
          count[n] = Cardinality({m \in Msgs : IsSeen(n, m)}) + deleted[n]
                     - Cardinality({g \in Procs : g[1] = n /\ pc[g] = "count"})

\* A node takes a message for new a second time only when more than MessageTTL
\* has passed since the time it noted for the first: of several peers that
\* deliver it together one wins, and the cleanup never forgets it too early.
HandledOncePerTTL ==
    [][\A n \in Nodes, m \in Msgs :
          (\E f \in Nodes :
              pc[<<n, f>>] = "store" /\ msg[<<n, f>>] = m /\ pc'[<<n, f>>] = "count")
          => last[n][m] = NoTime \/ now - last[n][m] > MessageTTL]_vars

\* What one node has handled every node handles in the end although links break
\* and nobody sends twice: a relay leaves out only the peer that has it already,
\* and a node that has it already needs no relay.  It is not promised when a
\* gossip had more peers than Fanout and left one out (broadcast.go:388), nor
\* over links that may break: Links without Fragile connect all nodes.
Delivery ==
    \A m \in Msgs :
        (\E n \in Nodes : last[n][m] # NoTime)
            ~> (m \in sampled \/ \A n \in Nodes : last[n][m] # NoTime)
=============================================================================
