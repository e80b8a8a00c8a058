----------------------------- MODULE Handshake -----------------------------
(***************************************************************************)
(* How nodes become peers: dialling and accepting, the exchange of         *)
(* Handshake and HandshakeAck, and the registration at both ends, by       *)
(* pkg/node/node.go and pkg/protocol/handshake.go.                         *)
(*                                                                         *)
(* Every node runs the same code and has a registry of its own, of which   *)
(* the two maps are modelled, as in PeerManager.tla: one step for each     *)
(* operation on a map.  Whether a limit has been reached is left open.     *)
(* Each end of a connection has a goroutine.  A connection whose two       *)
(* goroutines are over ("none") may be dialled again.                      *)
(*                                                                         *)
(* TCP delivers what was written in order, or the connection fails, which  *)
(* it may do at any moment, a timeout being one reason.  A process may end *)
(* and be started again at the same address: it gets another ID and nonce. *)
(***************************************************************************)
EXTENDS Integers

CONSTANTS
    Nodes,              \* also stands for the listening addresses
    Conns, From, To,    \* connections: who dials, and whom
    MaxRestarts,        \* bound: restarts of each node
    VersionOf,          \* the protocol version of each node, which may be
                        \* another one after a restart
    None

\* Who a node is, as its messages say: its ID and nonce, which New draws.
Identities == Nodes \X (0 .. MaxRestarts)

ASSUME HandshakeAssumption ==
    /\ From \in [Conns -> Nodes] /\ To \in [Conns -> Nodes]
    /\ MaxRestarts \in Nat
    /\ VersionOf \in [Identities -> Nat]
    /\ None \notin Identities \cup (Conns \X {"out", "in"})

VARIABLES
    inc,            \* how often each node has been started again
    ids, addrs,     \* each node's PeerManager.peers and peersByAddr
    pc, open,       \* of each end: its goroutine's next step, its socket
    known,          \* of each end: Peer.id
    wire            \* of each end: the handshake message on its way to it

vars == <<inc, ids, addrs, pc, open, known, wire>>

Identity(n) == <<n, inc[n]>>

Ends == {"out", "in"}
Other(e) == IF e = "out" THEN "in" ELSE "out"
At(c, e) == IF e = "out" THEN From[c] ELSE To[c]
Far(c, e) == At(c, Other(e))
Entries == Conns \X Ends

\* The goroutine waits for bytes from the other end.
Waiting == {"hs", "ack", "reading"}
Steps == Waiting \cup {"none", "dial", "backlog", "sendAck", "close",
                       "storeID", "storeAddr", "rollback", "deleteID", "deleteAddr"}

Goto(c, e, step, target) == pc[c][e] = step /\ pc' = [pc EXCEPT ![c][e] = target]
-----------------------------------------------------------------------------
(* The end that dials: connectToPeer.                                      *)

Dial(c) ==
    /\ pc[c]["in"] = "none"
    /\ Goto(c, "out", "none", "dial")
    /\ addrs[From[c]][To[c]] = None
    /\ UNCHANGED <<inc, ids, addrs, open, known, wire>>

\* The connection stands and sendHandshake writes the first message.
Connect(c) ==
    /\ pc[c]["out"] = "dial"
    /\ pc' = [pc EXCEPT ![c] = [e \in Ends |-> IF e = "out" THEN "ack" ELSE "backlog"]]
    /\ open' = [open EXCEPT ![c] = [e \in Ends |-> TRUE]]
    /\ wire' = [wire EXCEPT ![c]["in"] = Identity(From[c])]
    /\ UNCHANGED <<inc, ids, addrs, known>>

ConnectFail(c) ==
    /\ Goto(c, "out", "dial", "none")
    /\ UNCHANGED <<inc, ids, addrs, open, known, wire>>

\* The message that end e has waited for is read; Peer.id is set if it is good.
Receive(c, e, step, good, next) ==
    LET m == wire[c][e]
    IN /\ pc[c][e] = step /\ m # None
       /\ wire' = [wire EXCEPT ![c][e] = None]
       /\ pc' = [pc EXCEPT ![c][e] = IF good THEN next ELSE "close"]
       /\ known' = [known EXCEPT ![c][e] = IF good THEN m ELSE @]
       /\ UNCHANGED <<inc, ids, addrs, open>>

\* The only Ack the code sends accepts.
ReceiveHandshakeAck(c) ==
    Receive(c, "out", "ack", wire[c]["out"] # Identity(From[c]), "storeID")
-----------------------------------------------------------------------------
(* The end that accepts: acceptLoop and handleInboundConnection.           *)

Accept(c) ==
    /\ Goto(c, "in", "backlog", "hs") \/ Goto(c, "in", "backlog", "close")
    /\ UNCHANGED <<inc, ids, addrs, open, known, wire>>

SameVersion(m, n) == VersionOf[m] = VersionOf[Identity(n)]

\* Wrong: a node does not recognize itself.
GreetsAnyone(n, m) == SameVersion(m, n) /\ ids[n][m] = None

\* receiveHandshake: not myself, my version, not a peer already.
Greets(n, m) ==
    /\ m # Identity(n)
    /\ SameVersion(m, n)
    /\ ids[n][m] = None

ReceiveHandshake(c) ==
    Receive(c, "in", "hs", wire[c]["in"] # None => Greets(To[c], wire[c]["in"]), "sendAck")

\* What is written to an end that has closed nobody reads.
SendHandshakeAck(c) ==
    /\ Goto(c, "in", "sendAck", "storeID")
    /\ wire' = [wire EXCEPT ![c]["out"] = IF open[c]["out"] THEN Identity(To[c]) ELSE None]
    /\ UNCHANGED <<inc, ids, addrs, open, known>>
-----------------------------------------------------------------------------
(* startPeer, readLoop and removePeer, at either end.  The address of a     *)
(* peer is the one that was dialled, or the one its Handshake gave.         *)

\* AddPeer: a limit or the ID refuses, or the ID is stored.
StoreID(c, e) ==
    LET n == At(c, e)
    IN /\ \/ /\ Goto(c, e, "storeID", "storeAddr")
             /\ ids[n][known[c][e]] = None
             /\ ids' = [ids EXCEPT ![n][known[c][e]] = <<c, e>>]
          \/ Goto(c, e, "storeID", "close") /\ UNCHANGED ids
       /\ UNCHANGED <<inc, addrs, open, known, wire>>

StoreAddr(c, e) ==
    LET n == At(c, e)
    IN /\ \/ /\ Goto(c, e, "storeAddr", "reading")
             /\ addrs[n][Far(c, e)] = None
             /\ addrs' = [addrs EXCEPT ![n][Far(c, e)] = <<c, e>>]
          \/ /\ Goto(c, e, "storeAddr", "rollback")
             /\ addrs[n][Far(c, e)] # None
             /\ UNCHANGED addrs
       /\ UNCHANGED <<inc, ids, open, known, wire>>

Rollback(c, e) ==
    /\ Goto(c, e, "rollback", "close")
    /\ ids' = [ids EXCEPT ![At(c, e)][known[c][e]] = None]
    /\ UNCHANGED <<inc, addrs, open, known, wire>>

\* Wrong: the connection of a peer that was refused stays open.
CloseUnlessRefused(c, e) ==
    /\ Goto(c, e, "close", "none")
    /\ open' = [open EXCEPT ![c][e] = known[c][e] # None /\ ids[At(c, e)][known[c][e]] # None]
    /\ known' = [known EXCEPT ![c][e] = None]
    /\ wire' = [wire EXCEPT ![c][e] = None]
    /\ UNCHANGED <<inc, ids, addrs>>

\* The socket is closed and the goroutine ends.
Close(c, e) ==
    /\ Goto(c, e, "close", "none")
    /\ open' = [open EXCEPT ![c][e] = FALSE]
    /\ known' = [known EXCEPT ![c][e] = None]
    /\ wire' = [wire EXCEPT ![c][e] = None]
    /\ UNCHANGED <<inc, ids, addrs>>

\* What the goroutine does about an error of the socket.
GiveUp(c, e) ==
    /\ pc' = [pc EXCEPT ![c][e] = IF @ = "reading" THEN "deleteID" ELSE "close"]
    /\ UNCHANGED <<inc, ids, addrs, open, known, wire>>

\* A read or a write fails: a timeout, or a peer that this node disconnects.
Fail(c, e) ==
    /\ pc[c][e] \in Waiting \cup {"sendAck"}
    /\ GiveUp(c, e)

\* Wrong: readLoop reads on after an error.
ReadEOFInHandshake(c, e) ==
    /\ pc[c][e] \in {"hs", "ack"}
    /\ ~open[c][Other(e)] /\ wire[c][e] = None
    /\ GiveUp(c, e)

\* A read finds that the other end has closed.
ReadEOF(c, e) ==
    /\ pc[c][e] \in Waiting
    /\ ~open[c][Other(e)] /\ wire[c][e] = None
    /\ GiveUp(c, e)

\* RemovePeer.
DeleteID(c, e) ==
    /\ Goto(c, e, "deleteID", "deleteAddr")
    /\ ids' = [ids EXCEPT ![At(c, e)][known[c][e]] = None]
    /\ UNCHANGED <<inc, addrs, open, known, wire>>

DeleteAddr(c, e) ==
    /\ Goto(c, e, "deleteAddr", "close")
    /\ addrs' = [addrs EXCEPT ![At(c, e)][Far(c, e)] = None]
    /\ UNCHANGED <<inc, ids, open, known, wire>>
-----------------------------------------------------------------------------
\* The process of n ends, which closes its sockets, and another one begins.
Restart(n) ==
    LET Mine(c, e) == At(c, e) = n
        Alive(c, e, x, dead) == IF Mine(c, e) THEN dead ELSE x
    IN /\ inc[n] < MaxRestarts
       /\ inc' = [inc EXCEPT ![n] = @ + 1]
       /\ ids' = [ids EXCEPT ![n] = [i \in Identities |-> None]]
       /\ addrs' = [addrs EXCEPT ![n] = [m \in Nodes |-> None]]
       /\ pc' = [c \in Conns |-> [e \in Ends |-> Alive(c, e, pc[c][e], "none")]]
       /\ open' = [c \in Conns |-> [e \in Ends |-> Alive(c, e, open[c][e], FALSE)]]
       /\ known' = [c \in Conns |-> [e \in Ends |-> Alive(c, e, known[c][e], None)]]
       /\ wire' = [c \in Conns |-> [e \in Ends |-> Alive(c, e, wire[c][e], None)]]

Init ==
    /\ inc = [n \in Nodes |-> 0]
    /\ ids = [n \in Nodes |-> [i \in Identities |-> None]]
    /\ addrs = [n \in Nodes |-> [m \in Nodes |-> None]]
    /\ pc = [c \in Conns |-> [e \in Ends |-> "none"]]
    /\ open = [c \in Conns |-> [e \in Ends |-> FALSE]]
    /\ known = [c \in Conns |-> [e \in Ends |-> None]]
    /\ wire = [c \in Conns |-> [e \in Ends |-> None]]

\* The goroutine of an end, but for errors that it need not meet.
Goroutine(c, e) ==
    \/ e = "out" /\ (Connect(c) \/ ReceiveHandshakeAck(c))
    \/ e = "in" /\ (Accept(c) \/ ReceiveHandshake(c) \/ SendHandshakeAck(c))
    \/ StoreID(c, e)
    \/ StoreAddr(c, e)
    \/ Rollback(c, e)
    \/ ReadEOF(c, e)
    \/ DeleteID(c, e)
    \/ DeleteAddr(c, e)
    \/ Close(c, e)

Next ==
    \/ \E c \in Conns : Dial(c) \/ ConnectFail(c)
    \/ \E c \in Conns, e \in Ends : Goroutine(c, e) \/ Fail(c, e)
    \/ \E n \in Nodes : Restart(n)

\* Goroutines run, a closed socket shows as such to the reader at its other end.
Spec ==
    /\ Init /\ [][Next]_vars
    /\ \A c \in Conns, e \in Ends : WF_vars(Goroutine(c, e))
-----------------------------------------------------------------------------
TypeOK ==
    /\ inc \in [Nodes -> 0 .. MaxRestarts]
    /\ ids \in [Nodes -> [Identities -> Entries \cup {None}]]
    /\ addrs \in [Nodes -> [Nodes -> Entries \cup {None}]]
    /\ pc \in [Conns -> [Ends -> Steps]]
    /\ open \in [Conns -> [Ends -> BOOLEAN]]
    /\ known \in [Conns -> [Ends -> Identities \cup {None}]]
    /\ wire \in [Conns -> [Ends -> Identities \cup {None}]]

\* What is registered is another node, of the same protocol version, at the
\* address it is registered under: at the dialling end too, which compares
\* nonces but not versions and relies on the other end for them.
PeersCompatible ==
    /\ TypeOK
    /\ \A n \in Nodes, i \in Identities : ids[n][i] # None =>
          /\ i[1] # n /\ SameVersion(i, n)
          /\ LET c == ids[n][i][1]  e == ids[n][i][2]
             IN At(c, e) = n /\ Far(c, e) = i[1] /\ known[c][e] = i

\* An end whose goroutine does nothing until something comes from outside.
AtRest(c, e) ==
    \/ pc[c][e] = "none"
    \/ pc[c][e] \in Waiting /\ wire[c][e] = None /\ open[c][Other(e)]

\* When two nodes dial each other at once, or one is refused after its Ack was
\* sent, an end may be registered that the other end has given up; but not for
\* long: as soon as nothing is under way, who is registered at one node has
\* registered that node, over the same connection, and under the ID and the
\* address alike.
AgreeAtRest ==
    (\A c \in Conns, e \in Ends : AtRest(c, e)) =>
        \A n \in Nodes, m \in Nodes :
            /\ addrs[n][m] = ids[n][Identity(m)]
            /\ LET x == addrs[n][m]
               IN x # None => addrs[m][n] = <<x[1], Other(x[2])>>

\* The entries of n under IDs of processes that have ended.
Stale(n) == {i \in Identities : ids[n][i] # None /\ i[2] < inc[i[1]]}

\* A node that was restarted has a new ID, and nobody removes the old one when
\* the new one registers: it is the end of the old connection, noticed in
\* readLoop or in the handshake, that makes every other node forget it.
StaleForgotten == []<>(\A n \in Nodes : Stale(n) = {})
=============================================================================
