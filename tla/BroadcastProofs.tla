-------------------------- MODULE BroadcastProofs --------------------------
(***************************************************************************)
(* Proofs about Broadcast for any finite network, any messages, links that *)
(* break, fanout and time to live: the counter beside the seen cache is    *)
(* exact but for calls under way, and nobody handles a message twice       *)
(* within the time to live.                                                *)
(***************************************************************************)
EXTENDS Broadcast, FiniteSetTheorems, TLAPS

SeenAt(n) == {m \in Msgs : IsSeen(n, m)}
Counting(n) == {g \in Procs : g[1] = n /\ pc[g] = "count"}

\* A goroutine at work has a message.
WorkOK == \A g \in Procs : pc[g] # "idle" => msg[g] \in Msgs

\* A cleanup deletes each entry at most once.
CleanOK ==
    \A n \in Nodes :
        /\ deleted[n] + Cardinality(toVisit[n]) <= Cardinality(Msgs)
        /\ cleanAt[n] = NoTime => deleted[n] = 0 /\ toVisit[n] = {}

\* What a node has forgotten it took for new more than MessageTTL ago.
SeenOK ==
    \A n \in Nodes, m \in Msgs :
        /\ IsSeen(n, m) => seen[n][m] = last[n][m]
        /\ ~IsSeen(n, m) /\ last[n][m] # NoTime => now - last[n][m] > MessageTTL

CountOK ==
    \A n \in Nodes : count[n] = Cardinality(SeenAt(n)) + deleted[n] - Cardinality(Counting(n))

IInv == TypeOK /\ WorkOK /\ CleanOK /\ SeenOK /\ CountOK
-----------------------------------------------------------------------------
LEMMA Constants ==
    /\ IsFiniteSet(Nodes) /\ IsFiniteSet(Msgs) /\ IsFiniteSet(Procs)
    /\ Fanout \in Nat /\ MessageTTL \in Nat /\ MaxTime \in Nat
    /\ NoTime \notin Nat /\ NoMsg \notin Msgs
    /\ Publishers \subseteq Nodes /\ Cleaners \subseteq Nodes
    /\ Cardinality(Msgs) \in Nat
    /\ \A g \in Procs : g[1] \in Nodes /\ g[2] \in Nodes /\ g = <<g[1], g[2]>>
    /\ \A n \in Nodes, f \in Nodes : <<n, f>> \in Procs
<1>1. IsFiniteSet(Procs)
  BY NetworkAssumption, FS_Product DEF NetworkAssumption, Procs
<1>2. Cardinality(Msgs) \in Nat
  BY NetworkAssumption, FS_CardinalityType DEF NetworkAssumption
<1> QED
  BY <1>1, <1>2, NetworkAssumption DEF NetworkAssumption, Procs

\* The sets whose sizes are counted are finite.
LEMMA Finite ==
    ASSUME TypeOK, NEW n \in Nodes
    PROVE  /\ IsFiniteSet(SeenAt(n)) /\ IsFiniteSet(Counting(n)) /\ IsFiniteSet(toVisit[n])
           /\ Cardinality(SeenAt(n)) \in Nat /\ Cardinality(Counting(n)) \in Nat
           /\ Cardinality(toVisit[n]) \in Nat
<1>1. SeenAt(n) \subseteq Msgs /\ Counting(n) \subseteq Procs /\ toVisit[n] \subseteq Msgs
  BY DEF TypeOK, SeenAt, Counting
<1>2. IsFiniteSet(SeenAt(n)) /\ IsFiniteSet(Counting(n)) /\ IsFiniteSet(toVisit[n])
  BY <1>1, Constants, FS_Subset
<1> QED
  BY <1>2, FS_CardinalityType

\* A function of two arguments that is changed at one place.
LEMMA SetAt ==
    ASSUME NEW A, NEW B, NEW S, NEW f \in [A -> [B -> S]],
           NEW a \in A, NEW b \in B, NEW v \in S
    PROVE  LET h == [f EXCEPT ![a][b] = v]
           IN /\ h \in [A -> [B -> S]]
              /\ h[a][b] = v
              /\ \A x \in A, y \in B : <<x, y>> # <<a, b>> => h[x][y] = f[x][y]
OBVIOUS

\* The same for one argument.
LEMMA SetOne ==
    ASSUME NEW A, NEW S, NEW f \in [A -> S], NEW a \in A, NEW v \in S
    PROVE  LET h == [f EXCEPT ![a] = v]
           IN h \in [A -> S] /\ h[a] = v /\ \A x \in A : x # a => h[x] = f[x]
OBVIOUS
-----------------------------------------------------------------------------
(* What each action does, argument by argument.                            *)

Steps == {"idle", "store", "count", "send"}

\* The goroutine g goes to step t, the others stay where they are.
Moves(g, t) ==
    /\ pc' \in [Procs -> Steps] /\ msg' \in [Procs -> Msgs \cup {NoMsg}]
    /\ at' \in [Procs -> Times]
    /\ pc'[g] = t /\ (t # "idle" => msg'[g] \in Msgs)
    /\ \A h \in Procs : h # g => pc'[h] = pc[h] /\ msg'[h] = msg[h]

LEMMA BeginMoves ==
    ASSUME TypeOK, NEW g \in Procs, NEW m \in Msgs, Begin(g, m)
    PROVE  pc[g] = "idle" /\ Moves(g, "store")
<1>1. pc[g] = "idle" /\ pc' \in [Procs -> Steps] /\ pc'[g] = "store"
      /\ \A h \in Procs : h # g => pc'[h] = pc[h]
  BY DEF Begin, TypeOK, Steps
<1>2. msg' \in [Procs -> Msgs \cup {NoMsg}] /\ msg'[g] = m
      /\ \A h \in Procs : h # g => msg'[h] = msg[h]
  BY DEF Begin, TypeOK
<1>3. now \in Times /\ at' \in [Procs -> Times]
  BY DEF Begin, TypeOK, Times
<1> QED
  BY <1>1, <1>2, <1>3 DEF Moves

LEMMA ReturnMoves ==
    ASSUME TypeOK, NEW g \in Procs, Return(g)
    PROVE  Moves(g, "idle")
<1>1. pc' \in [Procs -> Steps] /\ pc'[g] = "idle"
      /\ \A h \in Procs : h # g => pc'[h] = pc[h]
  BY DEF Return, TypeOK, Steps
<1>2. msg' \in [Procs -> Msgs \cup {NoMsg}] /\ \A h \in Procs : h # g => msg'[h] = msg[h]
  BY DEF Return, TypeOK
<1>3. 0 \in Times /\ at' \in [Procs -> Times]
  BY Constants DEF Return, TypeOK, Times
<1> QED
  BY <1>1, <1>2, <1>3 DEF Moves

LEMMA GotoMoves ==
    ASSUME TypeOK, WorkOK, NEW g \in Procs, pc[g] # "idle", NEW t \in Steps,
           pc' = [pc EXCEPT ![g] = t], UNCHANGED <<msg, at>>
    PROVE  Moves(g, t)
BY DEF TypeOK, WorkOK, Moves, Steps

LEMMA GoOnMoves ==
    ASSUME TypeOK, WorkOK, NEW g \in Procs, pc[g] # "idle",
           NEW S \in SUBSET Nodes, GoOn(g, S)
    PROVE  /\ Moves(g, "idle") \/ Moves(g, "send")
           /\ todo' \in [Procs -> SUBSET Nodes]
<1>1. todo' \in [Procs -> SUBSET Nodes]
  BY DEF GoOn, TypeOK
<1>2. "send" \in Steps
  BY DEF Steps
<1> QED
  BY <1>1, <1>2, ReturnMoves, GotoMoves DEF GoOn

\* n notes that it takes m for new, at the time t.
Notes(n, m, t) ==
    /\ seen' \in [Nodes -> [Msgs -> Times \cup {NoTime}]]
    /\ last' \in [Nodes -> [Msgs -> Times \cup {NoTime}]]
    /\ seen'[n][m] = t /\ last'[n][m] = t
    /\ \A k \in Nodes, j \in Msgs : <<k, j>> # <<n, m>> =>
          seen'[k][j] = seen[k][j] /\ last'[k][j] = last[k][j]

LEMMA MarkSeenDoes ==
    ASSUME TypeOK, WorkOK, NEW g \in Procs, MarkSeen(g)
    PROVE  /\ pc[g] = "store" /\ msg[g] \in Msgs /\ at[g] \in Times
           /\ UNCHANGED <<count, todo, wire, up, cleanup, now, sampled>>
           /\ \/ IsSeen(g[1], msg[g]) /\ Moves(g, "idle") /\ UNCHANGED <<seen, last>>
              \/ ~IsSeen(g[1], msg[g]) /\ Moves(g, "count") /\ Notes(g[1], msg[g], at[g])
<1>1. /\ pc[g] = "store" /\ msg[g] \in Msgs /\ at[g] \in Times /\ g[1] \in Nodes
      /\ UNCHANGED <<count, todo, wire, up, cleanup, now, sampled>>
  BY Constants DEF MarkSeen, WorkOK, TypeOK
<1>2. CASE IsSeen(g[1], msg[g])
  BY <1>1, <1>2, ReturnMoves DEF MarkSeen
<1>3. CASE ~IsSeen(g[1], msg[g])
  <2>1. /\ pc' = [pc EXCEPT ![g] = "count"] /\ UNCHANGED <<msg, at>>
        /\ seen' = [seen EXCEPT ![g[1]][msg[g]] = at[g]]
        /\ last' = [last EXCEPT ![g[1]][msg[g]] = at[g]]
    BY <1>3 DEF MarkSeen
  <2>2. Moves(g, "count")
    BY <1>1, <2>1, GotoMoves DEF Steps
  <2>3. /\ seen \in [Nodes -> [Msgs -> Times \cup {NoTime}]]
        /\ last \in [Nodes -> [Msgs -> Times \cup {NoTime}]]
        /\ at[g] \in Times \cup {NoTime}
    BY <1>1 DEF TypeOK
  <2>4. Notes(g[1], msg[g], at[g])
    BY <1>1, <2>1, <2>3, SetAt DEF Notes
  <2> QED
    BY <1>1, <1>3, <2>2, <2>4
<1> QED
  BY <1>2, <1>3

LEMMA SelectDoes ==
    ASSUME TypeOK, WorkOK, NEW g \in Procs, CountAndSelect(g)
    PROVE  /\ pc[g] = "count" /\ (Moves(g, "idle") \/ Moves(g, "send"))
           /\ todo' \in [Procs -> SUBSET Nodes]
           /\ count' \in [Nodes -> Int] /\ count'[g[1]] = count[g[1]] + 1
           /\ \A n \in Nodes : n # g[1] => count'[n] = count[n]
           /\ sampled' \subseteq Msgs
           /\ UNCHANGED <<seen, wire, up, cleanup, now, last>>
<1> DEFINE candidates == Connected(g[1]) \ {g[2]}
<1>1. /\ pc[g] = "count" /\ msg[g] \in Msgs /\ g[1] \in Nodes
      /\ count' = [count EXCEPT ![g[1]] = @ + 1]
      /\ UNCHANGED <<seen, wire, up, cleanup, now, last>>
  BY Constants DEF CountAndSelect, WorkOK
<1>2. PICK S \in SelectGossipTargets(candidates) \cup
                     (IF g[2] = g[1] THEN {candidates} ELSE {}) :
          /\ sampled' = IF Cardinality(candidates) > Fanout /\ S # candidates
                        THEN sampled \cup {msg[g]} ELSE sampled
          /\ GoOn(g, S)
  BY DEF CountAndSelect
<1>3. S \in SUBSET Nodes
  BY <1>2 DEF SelectGossipTargets, Connected
<1>4. (Moves(g, "idle") \/ Moves(g, "send")) /\ todo' \in [Procs -> SUBSET Nodes]
  BY <1>1, <1>2, <1>3, GoOnMoves
<1>5. sampled' \subseteq Msgs
  BY <1>1, <1>2 DEF TypeOK
<1>6. /\ count' \in [Nodes -> Int] /\ count'[g[1]] = count[g[1]] + 1
      /\ \A n \in Nodes : n # g[1] => count'[n] = count[n]
  BY <1>1 DEF TypeOK
<1> QED
  BY <1>1, <1>4, <1>5, <1>6

LEMMA SendDoes ==
    ASSUME TypeOK, WorkOK, NEW g \in Procs, Send(g)
    PROVE  /\ pc[g] = "send" /\ (Moves(g, "idle") \/ Moves(g, "send"))
           /\ todo' \in [Procs -> SUBSET Nodes]
           /\ wire' \in [Nodes -> [Nodes -> Seq(Msgs)]]
           /\ UNCHANGED <<seen, count, up, cleanup, now, history>>
<1>1. PICK p \in todo[g] :
          /\ GoOn(g, todo[g] \ {p})
          /\ wire' = IF {g[1], p} \in up
                     THEN [wire EXCEPT ![g[1]][p] = Append(@, msg[g])] ELSE wire
  BY DEF Send
<1>2. /\ pc[g] = "send" /\ msg[g] \in Msgs /\ g[1] \in Nodes /\ p \in Nodes
      /\ todo[g] \ {p} \in SUBSET Nodes
      /\ UNCHANGED <<seen, count, up, cleanup, now, history>>
  BY <1>1, Constants DEF Send, WorkOK, TypeOK
<1>3. (Moves(g, "idle") \/ Moves(g, "send")) /\ todo' \in [Procs -> SUBSET Nodes]
  BY <1>1, <1>2, GoOnMoves
<1>4. wire' \in [Nodes -> [Nodes -> Seq(Msgs)]]
  <2>1. wire \in [Nodes -> [Nodes -> Seq(Msgs)]] /\ wire[g[1]][p] \in Seq(Msgs)
    BY <1>2 DEF TypeOK
  <2>2. Append(wire[g[1]][p], msg[g]) \in Seq(Msgs)
    BY <1>2, <2>1
  <2>3. \/ wire' = [wire EXCEPT ![g[1]][p] = Append(wire[g[1]][p], msg[g])]
        \/ wire' = wire
    BY <1>1
  <2>4. [wire EXCEPT ![g[1]][p] = Append(wire[g[1]][p], msg[g])]
            \in [Nodes -> [Nodes -> Seq(Msgs)]]
    BY <1>2, <2>1, <2>2, SetAt
  <2> QED
    BY <2>1, <2>3, <2>4
<1> QED
  BY <1>2, <1>3, <1>4

LEMMA ReceiveDoes ==
    ASSUME TypeOK, NEW n \in Nodes, NEW f \in Nodes, Receive(n, f)
    PROVE  /\ pc[<<n, f>>] = "idle" /\ Moves(<<n, f>>, "store")
           /\ wire' \in [Nodes -> [Nodes -> Seq(Msgs)]]
           /\ UNCHANGED <<seen, count, todo, up, cleanup, now, history>>
<1>1. wire \in [Nodes -> [Nodes -> Seq(Msgs)]] /\ wire[f][n] \in Seq(Msgs) /\ wire[f][n] # <<>>
  BY DEF TypeOK, Receive
<1>2. Head(wire[f][n]) \in Msgs /\ Tail(wire[f][n]) \in Seq(Msgs)
  BY <1>1
<1>3. wire' = [wire EXCEPT ![f][n] = Tail(wire[f][n])]
  BY DEF Receive
<1>4. wire' \in [Nodes -> [Nodes -> Seq(Msgs)]]
  BY <1>1, <1>2, <1>3, SetAt
<1>5. pc[<<n, f>>] = "idle" /\ Moves(<<n, f>>, "store")
  BY <1>2, BeginMoves, Constants DEF Receive
<1> QED
  BY <1>4, <1>5 DEF Receive

\* A beginning of a sequence is a sequence.
LEMMA Beginning ==
    ASSUME NEW S, NEW s \in Seq(S), NEW i \in 0 .. Len(s)
    PROVE  SubSeq(s, 1, i) \in Seq(S)
OBVIOUS

LEMMA LinkDownDoes ==
    ASSUME TypeOK, NEW m \in Nodes, NEW n \in Nodes, LinkDown(m, n)
    PROVE  /\ up' \subseteq Links
           /\ wire' \in [Nodes -> [Nodes -> Seq(Msgs)]]
           /\ UNCHANGED <<seen, count, pc, msg, at, todo, cleanup, now, history>>
<1>1. PICK i \in 0 .. Len(wire[m][n]), j \in 0 .. Len(wire[n][m]) :
          wire' = [wire EXCEPT ![m][n] = SubSeq(wire[m][n], 1, i),
                               ![n][m] = SubSeq(wire[n][m], 1, j)]
  BY DEF LinkDown
<1>2. /\ wire \in [Nodes -> [Nodes -> Seq(Msgs)]]
      /\ wire[m][n] \in Seq(Msgs) /\ wire[n][m] \in Seq(Msgs)
  BY DEF TypeOK
<1> DEFINE s == SubSeq(wire[m][n], 1, i)
           t == SubSeq(wire[n][m], 1, j)
           w == [wire EXCEPT ![m][n] = s]
<1>3. s \in Seq(Msgs) /\ t \in Seq(Msgs)
  BY <1>2, Beginning
<1>4. wire' = [wire EXCEPT ![m][n] = s, ![n][m] = t]
  BY <1>1
<1> HIDE DEF s, t
<1>5. w \in [Nodes -> [Nodes -> Seq(Msgs)]]
  BY <1>2, <1>3, SetAt
<1>6. wire' = [w EXCEPT ![n][m] = t]
  BY <1>4
<1> HIDE DEF w
<1>7. wire' \in [Nodes -> [Nodes -> Seq(Msgs)]]
  BY <1>3, <1>5, <1>6, SetAt
<1> QED
  BY <1>7 DEF LinkDown, TypeOK

LEMMA PublishDoes ==
    ASSUME TypeOK, NEW n \in Nodes, NEW m \in Msgs, Publish(n, m)
    PROVE  /\ pc[<<n, n>>] = "idle" /\ Moves(<<n, n>>, "store")
           /\ UNCHANGED <<seen, count, todo, wire, up, cleanup, now, history>>
BY Constants, BeginMoves DEF Publish

\* A cleanup looks at m: an entry that is too old is forgotten.
Forgets(n, m) ==
    /\ IsSeen(n, m) /\ cleanAt[n] - seen[n][m] > MessageTTL
    /\ seen' \in [Nodes -> [Msgs -> Times \cup {NoTime}]]
    /\ seen'[n][m] = NoTime
    /\ \A k \in Nodes, j \in Msgs : <<k, j>> # <<n, m>> => seen'[k][j] = seen[k][j]
    /\ deleted' = [deleted EXCEPT ![n] = deleted[n] + 1]

LEMMA VisitDoes ==
    ASSUME TypeOK, NEW n \in Nodes, NEW m \in Msgs, CleanVisit(n, m)
    PROVE  /\ m \in toVisit[n] /\ toVisit' = [toVisit EXCEPT ![n] = toVisit[n] \ {m}]
           /\ Forgets(n, m) \/ UNCHANGED <<seen, deleted>>
           /\ UNCHANGED <<count, pc, msg, at, todo, wire, up, cleanAt, now, history>>
<1>1. CASE IsSeen(n, m) /\ cleanAt[n] - seen[n][m] > MessageTTL
  <2>1. /\ seen' = [seen EXCEPT ![n][m] = NoTime]
        /\ deleted' = [deleted EXCEPT ![n] = deleted[n] + 1]
    BY <1>1 DEF CleanVisit
  <2>2. seen \in [Nodes -> [Msgs -> Times \cup {NoTime}]]
    BY DEF TypeOK
  <2>3. Forgets(n, m)
    BY <1>1, <2>1, <2>2, SetAt DEF Forgets
  <2> QED
    BY <2>3 DEF CleanVisit
<1>2. CASE ~(IsSeen(n, m) /\ cleanAt[n] - seen[n][m] > MessageTTL)
  BY <1>2 DEF CleanVisit
<1> QED
  BY <1>1, <1>2
-----------------------------------------------------------------------------
(* The actions of Next, and what they keep.                                *)

\* One case for each action.
LEMMA Actions ==
    ASSUME Next
    PROVE  \/ \E g \in Procs : MarkSeen(g)
           \/ \E g \in Procs : CountAndSelect(g)
           \/ \E g \in Procs : Send(g)
           \/ \E n \in Nodes, m \in Msgs : Publish(n, m)
           \/ \E n, f \in Nodes : Receive(n, f)
           \/ \E m, n \in Nodes : LinkDown(m, n)
           \/ \E n \in Nodes : CleanStart(n)
           \/ \E n \in Nodes, m \in Msgs : CleanVisit(n, m)
           \/ \E n \in Nodes : CleanEnd(n)
           \/ Tick
BY Constants DEF Next, Runs, Clean

\* What a goroutine's move keeps.
LEMMA MovesType ==
    ASSUME TypeOK, NEW g \in Procs, NEW t, Moves(g, t), now' = now
    PROVE  /\ pc' \in [Procs -> {"idle", "store", "count", "send"}]
           /\ msg' \in [Procs -> Msgs \cup {NoMsg}]
           /\ at' \in [Procs -> Times'] /\ Times' = Times
BY DEF Moves, Steps, Times

LEMMA MovesWork ==
    ASSUME WorkOK, NEW g \in Procs, NEW t, Moves(g, t)
    PROVE  WorkOK'
BY DEF Moves, WorkOK

LEMMA TypeStep ==
    ASSUME TypeOK, WorkOK, CleanOK, Next
    PROVE  TypeOK'
<1>1. ASSUME NEW g \in Procs, MarkSeen(g) PROVE TypeOK'
  <2>1. CASE Moves(g, "idle") /\ UNCHANGED <<seen, last>>
    BY <1>1, <2>1, MarkSeenDoes, MovesType DEF TypeOK, cleanup
  <2>2. CASE Moves(g, "count") /\ Notes(g[1], msg[g], at[g])
    BY <1>1, <2>2, MarkSeenDoes, MovesType DEF TypeOK, cleanup, Notes
  <2> QED
    BY <1>1, <2>1, <2>2, MarkSeenDoes
<1>2. ASSUME NEW g \in Procs, CountAndSelect(g) PROVE TypeOK'
  BY <1>2, SelectDoes, MovesType DEF TypeOK, cleanup
<1>3. ASSUME NEW g \in Procs, Send(g) PROVE TypeOK'
  BY <1>3, SendDoes, MovesType DEF TypeOK, cleanup, history
<1>4. ASSUME NEW n \in Nodes, NEW m \in Msgs, Publish(n, m) PROVE TypeOK'
  BY <1>4, PublishDoes, Constants, MovesType DEF TypeOK, cleanup, history
<1>5. ASSUME NEW n \in Nodes, NEW f \in Nodes, Receive(n, f) PROVE TypeOK'
  BY <1>5, ReceiveDoes, Constants, MovesType DEF TypeOK, cleanup, history
<1>6. ASSUME NEW m \in Nodes, NEW n \in Nodes, LinkDown(m, n) PROVE TypeOK'
  BY <1>6, LinkDownDoes DEF TypeOK, cleanup, history, Times
<1>7. ASSUME NEW n \in Nodes, CleanStart(n) PROVE TypeOK'
  <2>1. now \in Times /\ Times' = Times
    BY <1>7 DEF TypeOK, Times, CleanStart, history
  <2> QED
    BY <1>7, <2>1 DEF TypeOK, CleanStart, history
<1>8. ASSUME NEW n \in Nodes, NEW m \in Msgs, CleanVisit(n, m) PROVE TypeOK'
  <2>1. /\ Times' = Times
        /\ toVisit' = [toVisit EXCEPT ![n] = toVisit[n] \ {m}]
        /\ UNCHANGED <<count, pc, msg, at, todo, wire, up, cleanAt, now, history>>
    BY <1>8, VisitDoes DEF Times
  <2>2. seen' \in [Nodes -> [Msgs -> Times \cup {NoTime}]]
    BY <1>8, VisitDoes DEF TypeOK, Forgets
  <2>3. deleted' \in [Nodes -> 0 .. Cardinality(Msgs)]
    <3>1. CASE UNCHANGED deleted
      BY <3>1 DEF TypeOK
    <3>2. CASE Forgets(n, m)
      <4>1. m \in toVisit[n] /\ IsFiniteSet(toVisit[n]) /\ Cardinality(toVisit[n]) \in Nat
        BY <1>8, VisitDoes, Finite
      <4>2. Cardinality(toVisit[n]) >= 1
        BY <4>1, FS_EmptySet
      <4>3. deleted[n] + 1 \in 0 .. Cardinality(Msgs)
        BY <4>1, <4>2, Constants DEF CleanOK, TypeOK
      <4> QED
        BY <3>2, <4>3 DEF Forgets, TypeOK
    <3> QED
      BY <1>8, <3>1, <3>2, VisitDoes
  <2> QED
    BY <2>1, <2>2, <2>3 DEF TypeOK, history
<1>9. ASSUME NEW n \in Nodes, CleanEnd(n) PROVE TypeOK'
  <2>1. count[n] - deleted[n] \in Int /\ 0 \in 0 .. Cardinality(Msgs) /\ Times' = Times
    BY <1>9, Constants DEF TypeOK, Times, CleanEnd, history
  <2> QED
    BY <1>9, <2>1 DEF TypeOK, CleanEnd, history
<1>10. CASE Tick
  <2>1. now' \in 0 .. MaxTime /\ Times \subseteq Times'
    BY <1>10, Constants DEF TypeOK, Times, Tick
  <2> QED
    BY <1>10, <2>1 DEF TypeOK, Tick, cleanup, history
<1> QED
  BY <1>1, <1>2, <1>3, <1>4, <1>5, <1>6, <1>7, <1>8, <1>9, <1>10, Actions

LEMMA WorkStep ==
    ASSUME TypeOK, WorkOK, Next
    PROVE  WorkOK'
<1>1. CASE UNCHANGED <<pc, msg>>
  BY <1>1 DEF WorkOK
<1>2. ASSUME NEW g \in Procs, NEW t, Moves(g, t) PROVE WorkOK'
  BY <1>2, MovesWork
<1>3. ASSUME NEW g \in Procs, Runs(g) PROVE WorkOK'
  BY <1>2, <1>3, MarkSeenDoes, SelectDoes, SendDoes DEF Runs
<1>4. ASSUME NEW n \in Nodes, NEW m \in Msgs, Publish(n, m) PROVE WorkOK'
  BY <1>2, <1>4, PublishDoes, Constants
<1>5. ASSUME NEW n \in Nodes, NEW f \in Nodes, Receive(n, f) PROVE WorkOK'
  BY <1>2, <1>5, ReceiveDoes, Constants
<1> QED
  BY <1>1, <1>3, <1>4, <1>5, Actions
     DEF Runs, LinkDown, CleanStart, CleanVisit, CleanEnd, Tick

\* Only the cleanup of a node changes its own bookkeeping.
LEMMA CleanStep ==
    ASSUME TypeOK, CleanOK, Next
    PROVE  CleanOK'
<1>1. CASE UNCHANGED cleanup
  BY <1>1 DEF CleanOK, cleanup
<1>2. ASSUME NEW n \in Nodes, CleanStart(n) PROVE CleanOK'
  <2>1. deleted[n] = 0 /\ cleanAt'[n] = now /\ now # NoTime
    BY <1>2, Constants DEF CleanOK, CleanStart, TypeOK
  <2> QED
    BY <1>2, <2>1, Constants DEF CleanOK, CleanStart, TypeOK
<1>3. ASSUME NEW n \in Nodes, NEW m \in Msgs, CleanVisit(n, m) PROVE CleanOK'
  <2>1. /\ m \in toVisit[n] /\ toVisit' = [toVisit EXCEPT ![n] = toVisit[n] \ {m}]
        /\ UNCHANGED cleanAt
        /\ deleted' = deleted \/ deleted' = [deleted EXCEPT ![n] = deleted[n] + 1]
    BY <1>3, VisitDoes DEF Forgets
  <2>2. Cardinality(toVisit[n] \ {m}) = Cardinality(toVisit[n]) - 1
    BY <2>1, Finite, FS_RemoveElement
  <2>3. deleted[n] \in Nat /\ Cardinality(toVisit[n]) \in Nat /\ cleanAt[n] # NoTime
    BY <2>1, Finite, Constants DEF TypeOK, CleanOK
  <2>4. toVisit'[n] = toVisit[n] \ {m} /\ deleted'[n] \in {deleted[n], deleted[n] + 1}
    BY <2>1 DEF TypeOK
  <2>5. \A k \in Nodes : k # n => toVisit'[k] = toVisit[k] /\ deleted'[k] = deleted[k]
    BY <2>1 DEF TypeOK
  <2> QED
    BY <2>1, <2>2, <2>3, <2>4, <2>5, Constants DEF CleanOK
<1>4. ASSUME NEW n \in Nodes, CleanEnd(n) PROVE CleanOK'
  <2>1. 0 + Cardinality(toVisit[n]) <= Cardinality(Msgs)
    BY <1>4, Constants, FS_EmptySet DEF CleanEnd
  <2> QED
    BY <1>4, <2>1 DEF CleanOK, CleanEnd, TypeOK
<1> QED
  BY <1>1, <1>2, <1>3, <1>4, Actions
     DEF MarkSeen, CountAndSelect, Send, Publish, Receive, LinkDown, Tick

\* An entry that is stored has the time of the message last taken for new; one
\* that is deleted was older than MessageTTL when the cleanup began.
LEMMA SeenStep ==
    ASSUME TypeOK, WorkOK, CleanOK, SeenOK, Next
    PROVE  SeenOK'
<1>1. CASE UNCHANGED <<seen, last, now>>
  BY <1>1 DEF SeenOK, IsSeen
<1>2. ASSUME NEW g \in Procs, MarkSeen(g), Notes(g[1], msg[g], at[g]) PROVE SeenOK'
  <2>1. at[g] \in Nat /\ at[g] # NoTime /\ g[1] \in Nodes /\ msg[g] \in Msgs /\ now' = now
    BY SMTT(30), <1>2, MarkSeenDoes, Constants DEF Times, TypeOK
  <2> QED
    BY <1>2, <2>1 DEF SeenOK, IsSeen, Notes
<1>3. ASSUME NEW n \in Nodes, NEW m \in Msgs, CleanVisit(n, m), Forgets(n, m) PROVE SeenOK'
  <2>1. UNCHANGED <<now, last>>
    BY <1>3, VisitDoes DEF history
  <2>2. last[n][m] = seen[n][m] /\ now - last[n][m] > MessageTTL
    <3>1. /\ seen[n][m] \in Nat /\ now \in Nat
          /\ cleanAt[n] \in 0 .. now \/ cleanAt[n] = NoTime
      BY <1>3, Constants DEF TypeOK, Times, Forgets, IsSeen
    <3>2. cleanAt[n] \in 0 .. now
      BY <1>3, <3>1, VisitDoes DEF CleanOK
    <3> QED
      BY <1>3, <3>1, <3>2, Constants DEF SeenOK, Forgets
  <2>3. /\ seen'[n][m] = NoTime
        /\ \A k \in Nodes, j \in Msgs : <<k, j>> # <<n, m>> => seen'[k][j] = seen[k][j]
    BY <1>3 DEF Forgets
  <2> QED
    BY <2>1, <2>2, <2>3 DEF SeenOK, IsSeen
<1>4. CASE Tick
  <2>1. now' = now + 1 /\ now \in Nat /\ UNCHANGED <<seen, last>>
    BY <1>4 DEF Tick, TypeOK, history
  <2>2. \A n \in Nodes, m \in Msgs : last[n][m] \in Nat \cup {NoTime}
    BY DEF TypeOK, Times
  <2> QED
    BY <2>1, <2>2, Constants DEF SeenOK, IsSeen
<1> QED
  BY <1>1, <1>2, <1>3, <1>4, Actions, MarkSeenDoes, VisitDoes
     DEF CountAndSelect, Send, Publish, Receive, LinkDown, CleanStart, CleanEnd, history
-----------------------------------------------------------------------------
(* The counter.                                                            *)

\* Who is between the store and the addition, when one goroutine moves.
LEMMA MovesCounting ==
    ASSUME TypeOK, NEW g \in Procs, NEW t, Moves(g, t)
    PROVE  /\ pc[g] # "count" /\ t # "count" =>
                  \A n \in Nodes : Counting(n)' = Counting(n)
           /\ \A n \in Nodes : n # g[1] => Counting(n)' = Counting(n)
           /\ pc[g] # "count" /\ t = "count" =>
                  Counting(g[1])' = Counting(g[1]) \cup {g} /\ g \notin Counting(g[1])
           /\ pc[g] = "count" /\ t # "count" =>
                  Counting(g[1])' = Counting(g[1]) \ {g} /\ g \in Counting(g[1])
BY DEF Moves, Counting

\* The number is right for one node.
CountAt(n) == count[n] = Cardinality(SeenAt(n)) + deleted[n] - Cardinality(Counting(n))

LEMMA Untouched ==
    ASSUME NEW n \in Nodes, CountAt(n), count'[n] = count[n], deleted'[n] = deleted[n],
           SeenAt(n)' = SeenAt(n), Counting(n)' = Counting(n)
    PROVE  CountAt(n)'
BY DEF CountAt

\* An entry is stored: one more to be seen, one more to be counted.
LEMMA CountStored ==
    ASSUME TypeOK, WorkOK, CountOK, NEW g \in Procs, MarkSeen(g)
    PROVE  CountOK'
<1>1. pc[g] = "store" /\ msg[g] \in Msgs /\ at[g] \in Times /\ g[1] \in Nodes
      /\ UNCHANGED <<count, deleted>>
  BY MarkSeenDoes, Constants DEF cleanup
<1>2. CASE Moves(g, "idle") /\ UNCHANGED seen
  <2>1. \A n \in Nodes : Counting(n)' = Counting(n) /\ SeenAt(n)' = SeenAt(n)
    BY <1>1, <1>2, MovesCounting DEF SeenAt, IsSeen
  <2> QED
    BY <1>1, <2>1 DEF CountOK
<1>3. CASE ~IsSeen(g[1], msg[g]) /\ Moves(g, "count") /\ Notes(g[1], msg[g], at[g])
  <2>1. at[g] # NoTime
    BY <1>1, Constants DEF Times, TypeOK
  <2>2. /\ SeenAt(g[1])' = SeenAt(g[1]) \cup {msg[g]} /\ msg[g] \notin SeenAt(g[1])
        /\ \A n \in Nodes : n # g[1] => SeenAt(n)' = SeenAt(n)
    BY <1>1, <1>3, <2>1 DEF Notes, SeenAt, IsSeen
  <2>3. /\ Counting(g[1])' = Counting(g[1]) \cup {g} /\ g \notin Counting(g[1])
        /\ \A n \in Nodes : n # g[1] => Counting(n)' = Counting(n)
    BY <1>1, <1>3, MovesCounting
  <2>4. /\ Cardinality(SeenAt(g[1])') = Cardinality(SeenAt(g[1])) + 1
        /\ Cardinality(Counting(g[1])') = Cardinality(Counting(g[1])) + 1
    <3>1. IsFiniteSet(SeenAt(g[1])) /\ IsFiniteSet(Counting(g[1]))
      BY <1>1, Finite
    <3>2. Cardinality(SeenAt(g[1])') = Cardinality(SeenAt(g[1])) + 1
      BY <2>2, <3>1, FS_AddElement
    <3>3. Cardinality(Counting(g[1])') = Cardinality(Counting(g[1])) + 1
      BY <2>3, <3>1, FS_AddElement
    <3> QED
      BY <3>2, <3>3
  <2>5. CountAt(g[1])'
    <3>1. CountAt(g[1]) /\ count'[g[1]] = count[g[1]] /\ deleted'[g[1]] = deleted[g[1]]
      BY <1>1 DEF CountOK, CountAt
    <3>2. Cardinality(SeenAt(g[1])) \in Nat /\ Cardinality(Counting(g[1])) \in Nat
          /\ deleted[g[1]] \in Int
      BY <1>1, Finite, Constants DEF TypeOK
    <3> QED
      BY <2>4, <3>1, <3>2 DEF CountAt
  <2>6. \A n \in Nodes : n # g[1] => CountAt(n)'
    BY <1>1, <2>2, <2>3, Untouched DEF CountOK, CountAt
  <2> QED
    BY <2>5, <2>6 DEF CountOK, CountAt
<1> QED
  BY <1>2, <1>3, MarkSeenDoes

\* The addition: one fewer that has still to count.
LEMMA CountAdded ==
    ASSUME TypeOK, WorkOK, CountOK, NEW g \in Procs, CountAndSelect(g)
    PROVE  CountOK'
<1>1. pc[g] = "count" /\ g[1] \in Nodes /\ UNCHANGED <<seen, deleted>>
      /\ count'[g[1]] = count[g[1]] + 1
      /\ \A n \in Nodes : n # g[1] => count'[n] = count[n]
  BY SelectDoes, Constants DEF cleanup
<1>2. \A n \in Nodes : SeenAt(n)' = SeenAt(n)
  BY <1>1 DEF SeenAt, IsSeen
<1>3. /\ Counting(g[1])' = Counting(g[1]) \ {g} /\ g \in Counting(g[1])
      /\ \A n \in Nodes : n # g[1] => Counting(n)' = Counting(n)
  BY <1>1, SelectDoes, MovesCounting
<1>4. Cardinality(Counting(g[1])') = Cardinality(Counting(g[1])) - 1
  BY <1>1, <1>3, Finite, FS_RemoveElement
<1>5. CountAt(g[1])'
  <2>1. /\ CountAt(g[1]) /\ count[g[1]] \in Int /\ deleted[g[1]] \in Int
        /\ Cardinality(SeenAt(g[1])) \in Nat /\ Cardinality(Counting(g[1])) \in Nat
    BY SMTT(30), <1>1, Finite, Constants DEF CountOK, CountAt, TypeOK
  <2> QED
    BY <1>1, <1>2, <1>4, <2>1 DEF CountAt
<1>6. \A n \in Nodes : n # g[1] => CountAt(n)'
  BY <1>1, <1>2, <1>3, Untouched DEF CountOK, CountAt
<1> QED
  BY <1>5, <1>6 DEF CountOK, CountAt

\* A deletion: one fewer seen, one more to subtract.
LEMMA CountDeleted ==
    ASSUME TypeOK, CountOK, NEW n \in Nodes, NEW m \in Msgs, CleanVisit(n, m)
    PROVE  CountOK'
<1>1. UNCHANGED <<count, pc>> /\ \A k \in Nodes : Counting(k)' = Counting(k)
  BY VisitDoes DEF Counting
<1>2. CASE UNCHANGED <<seen, deleted>>
  BY <1>1, <1>2 DEF CountOK, SeenAt, IsSeen
<1>3. CASE Forgets(n, m)
  <2>1. /\ SeenAt(n)' = SeenAt(n) \ {m} /\ m \in SeenAt(n)
        /\ \A k \in Nodes : k # n => SeenAt(k)' = SeenAt(k)
    BY <1>3 DEF Forgets, SeenAt, IsSeen
  <2>2. deleted'[n] = deleted[n] + 1 /\ \A k \in Nodes : k # n => deleted'[k] = deleted[k]
    BY <1>3 DEF Forgets, TypeOK
  <2>3. Cardinality(SeenAt(n)') = Cardinality(SeenAt(n)) - 1
    BY <2>1, Finite, FS_RemoveElement
  <2>4. CountAt(n)'
    <3>1. /\ CountAt(n) /\ deleted[n] \in Int
          /\ Cardinality(SeenAt(n)) \in Nat /\ Cardinality(Counting(n)) \in Nat
      BY Finite, Constants DEF CountOK, CountAt, TypeOK
    <3> QED
      BY <1>1, <2>2, <2>3, <3>1 DEF CountAt
  <2>5. \A k \in Nodes : k # n => CountAt(k)'
    BY <1>1, <2>1, <2>2, Untouched DEF CountOK, CountAt
  <2> QED
    BY <2>4, <2>5 DEF CountOK, CountAt
<1> QED
  BY <1>2, <1>3, VisitDoes

\* The subtraction settles what was deleted.
LEMMA CountSubtracted ==
    ASSUME TypeOK, CountOK, NEW n \in Nodes, CleanEnd(n)
    PROVE  CountOK'
<1>1. \A k \in Nodes : Counting(k)' = Counting(k) /\ SeenAt(k)' = SeenAt(k)
  BY DEF CleanEnd, Counting, SeenAt, IsSeen
<1>2. /\ count'[n] = count[n] - deleted[n] /\ deleted'[n] = 0
      /\ \A k \in Nodes : k # n => count'[k] = count[k] /\ deleted'[k] = deleted[k]
  BY DEF CleanEnd, TypeOK
<1>3. /\ CountAt(n) /\ deleted[n] \in Int
      /\ Cardinality(SeenAt(n)) \in Nat /\ Cardinality(Counting(n)) \in Nat
  BY Finite, Constants DEF CountOK, CountAt, TypeOK
<1>4. CountAt(n)'
  BY <1>1, <1>2, <1>3 DEF CountAt
<1>5. \A k \in Nodes : k # n => CountAt(k)'
  BY <1>1, <1>2, Untouched DEF CountOK, CountAt
<1> QED
  BY <1>4, <1>5 DEF CountOK, CountAt

LEMMA CountStep ==
    ASSUME TypeOK, WorkOK, CountOK, Next
    PROVE  CountOK'
<1>1. CASE UNCHANGED <<seen, deleted, count, pc>>
  BY <1>1 DEF CountOK, SeenAt, IsSeen, Counting
<1>2. ASSUME NEW g \in Procs, NEW t, Moves(g, t), pc[g] # "count", t # "count",
             UNCHANGED <<seen, deleted, count>>
      PROVE  CountOK'
  <2>1. \A n \in Nodes : Counting(n)' = Counting(n) /\ SeenAt(n)' = SeenAt(n)
    BY <1>2, MovesCounting DEF SeenAt, IsSeen
  <2> QED
    BY <1>2, <2>1 DEF CountOK
<1>3. ASSUME NEW g \in Procs, Send(g) PROVE CountOK'
  BY <1>2, <1>3, SendDoes DEF cleanup
<1>4. ASSUME NEW n \in Nodes, NEW m \in Msgs, Publish(n, m) PROVE CountOK'
  BY <1>2, <1>4, PublishDoes, Constants DEF cleanup
<1>5. ASSUME NEW n \in Nodes, NEW f \in Nodes, Receive(n, f) PROVE CountOK'
  BY <1>2, <1>5, ReceiveDoes, Constants DEF cleanup
<1> QED
  BY <1>1, <1>3, <1>4, <1>5, CountStored, CountAdded, CountDeleted, CountSubtracted, Actions
     DEF LinkDown, CleanStart, Tick, cleanup
-----------------------------------------------------------------------------
(* The invariant and the theorems.                                         *)

LEMMA InitInvariant ==
    ASSUME Init
    PROVE  IInv
<1>1. 0 \in Times /\ 0 \in 0 .. MaxTime /\ 0 \in 0 .. Cardinality(Msgs)
  BY Constants DEF Init, Times
<1>2. TypeOK
  BY <1>1 DEF Init, TypeOK
<1>3. WorkOK
  BY DEF Init, WorkOK
<1>4. CleanOK
  BY Constants, FS_EmptySet DEF Init, CleanOK
<1>5. SeenOK
  BY DEF Init, SeenOK, IsSeen
<1>6. CountOK
  <2>1. \A n \in Nodes : SeenAt(n) = {} /\ Counting(n) = {}
    BY DEF Init, SeenAt, Counting, IsSeen
  <2>2. \A n \in Nodes : Cardinality(SeenAt(n)) = 0 /\ Cardinality(Counting(n)) = 0
    BY <2>1, FS_EmptySet
  <2>3. \A n \in Nodes : count[n] = 0 /\ deleted[n] = 0
    BY DEF Init
  <2> QED
    BY <2>2, <2>3 DEF CountOK
<1> QED
  BY <1>2, <1>3, <1>4, <1>5, <1>6 DEF IInv

LEMMA StutterInvariant ==
    ASSUME IInv, UNCHANGED vars
    PROVE  IInv'
<1> USE DEF vars, cleanup, history
<1>1. TypeOK'
  BY DEF IInv, TypeOK, Times
<1>2. WorkOK' /\ CleanOK' /\ SeenOK'
  BY DEF IInv, WorkOK, CleanOK, SeenOK, IsSeen
<1>3. CountOK'
  BY DEF IInv, CountOK, SeenAt, Counting, IsSeen
<1> QED
  BY <1>1, <1>2, <1>3 DEF IInv

LEMMA Invariance == Spec => []IInv
<1>1. Init => IInv
  BY InitInvariant
<1>2. IInv /\ [Next]_vars => IInv'
  <2> SUFFICES ASSUME IInv, [Next]_vars PROVE IInv'
    OBVIOUS
  <2>1. CASE Next
    BY <2>1, TypeStep, WorkStep, CleanStep, SeenStep, CountStep DEF IInv
  <2>2. CASE UNCHANGED vars
    BY <2>2, StutterInvariant
  <2> QED
    BY <2>1, <2>2
<1> QED
  BY <1>1, <1>2, PTL DEF Spec

\* The counter beside the cache is the number of hashes in it, but for MarkSeen
\* calls between LoadOrStore and the addition and deletions the cleanup has not
\* subtracted yet, for every number of readLoops (broadcast.go, MarkSeen and
\* cleanup).
THEOREM CountStaysExact == Spec => []CountExact
<1>1. IInv => CountExact
  BY DEF IInv, CountExact, CountOK, SeenAt, Counting
<1> QED
  BY <1>1, Invariance, PTL

\* A node takes a message for new again only after MessageTTL: of the goroutines
\* that hold the same message one wins LoadOrStore, and what the cleanup forgot
\* in between was old enough (broadcast.go, MarkSeen and cleanup).
THEOREM NewOncePerTTL == Spec => HandledOncePerTTL
<1> DEFINE OncePerTTL ==
        \A n \in Nodes, m \in Msgs :
            (\E f \in Nodes :
                pc[<<n, f>>] = "store" /\ msg[<<n, f>>] = m /\ pc'[<<n, f>>] = "count")
            => last[n][m] = NoTime \/ now - last[n][m] > MessageTTL
<1>1. ASSUME IInv, Next PROVE OncePerTTL
  <2> SUFFICES ASSUME NEW n \in Nodes, NEW f \in Nodes,
                      pc[<<n, f>>] = "store", pc'[<<n, f>>] = "count"
               PROVE  /\ msg[<<n, f>>] \in Msgs
                      /\ ~IsSeen(n, msg[<<n, f>>])
    BY <1>1 DEF IInv, SeenOK
  <2>1. <<n, f>> \in Procs /\ <<n, f>>[1] = n
    BY Constants
  <2>2. ASSUME NEW g \in Procs, NEW t, Moves(g, t), pc[g] # "store" \/ t # "count"
        PROVE  FALSE
    BY <2>1, <2>2 DEF Moves
  <2>3. PICK g \in Procs : MarkSeen(g) /\ Moves(g, "count") /\ ~IsSeen(g[1], msg[g])
                           /\ msg[g] \in Msgs
    BY <1>1, <2>1, <2>2, Actions, Constants, MarkSeenDoes, SelectDoes, SendDoes, PublishDoes,
       ReceiveDoes
       DEF IInv, LinkDown, CleanStart, CleanVisit, CleanEnd, Tick
  <2>4. g = <<n, f>>
    BY <2>1, <2>3 DEF Moves
  <2> QED
    BY <2>1, <2>3, <2>4
<1>2. ASSUME UNCHANGED vars PROVE OncePerTTL
  BY <1>2, Constants DEF vars
<1>3. IInv /\ [Next]_vars => [OncePerTTL]_vars
  BY <1>1, <1>2
<1> QED
  BY <1>3, Invariance, PTL DEF Spec, HandledOncePerTTL
=============================================================================
