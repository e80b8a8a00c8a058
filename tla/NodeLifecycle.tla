--------------------------- MODULE NodeLifecycle ---------------------------
(***************************************************************************)
(* The life of a Node and of its connections, pkg/node/node.go: Start,     *)
(* Stop, the goroutines they start and wait for, and those they do not     *)
(* wait for.  A handshake runs in a goroutine that no WaitGroup counts; it *)
(* registers its peer and starts a readLoop, which the WaitGroup counts.   *)
(*                                                                         *)
(* An element of Conns is a connection: the *Peer, its socket and the      *)
(* goroutine that owns it.  When that goroutine is over ("none") the       *)
(* element may stand for the next connection of the same remote.           *)
(*                                                                         *)
(* The registry is reduced to its map by ID and to what PeerManager.tla    *)
(* shows of it: AddPeer stores p if the ID is free and may then still roll *)
(* back, or refuses, because of a limit or of the ID; RemovePeer takes p   *)
(* out.  How long a read, a write, a dial or a handshake takes is open.    *)
(***************************************************************************)
EXTENDS Integers, FiniteSets

CONSTANTS
    Conns,
    Inbound,        \* connections that the server accepts
    Seeds,          \* connections that Start dials; any that is not Inbound
                    \* may be dialled when a Peers message names it
    RemoteIDs,
    RemoteID,       \* peer.ID of the remote
    NoConn,
    MaxStarts       \* bound: Start is called so many times

ASSUME ConnsAssumption ==
    /\ IsFiniteSet(Conns)
    /\ Inbound \subseteq Conns /\ Seeds \subseteq Conns \ Inbound
    /\ RemoteID \in [Conns -> RemoteIDs]
    /\ NoConn \notin Conns
    /\ MaxStarts \in Nat

VARIABLES
    running, ctx,   \* n.running; n.ctx: "none", "live" or "cancelled"
    listening,      \* the server's listener is open
    ctl,            \* next step of the goroutine that calls Start and Stop
    toVisit,        \* IDs that Range of PeerManager.Close has still to visit
    accept, tickers,\* acceptLoop, and which of the loops with a ticker run
    wg,             \* the WaitGroup's counter
    stepOf,         \* next step of the goroutine of a connection
    conn, state,    \* the socket, and Peer.state
    closing,        \* for both callers of Peer.Close, its next step
    ids,            \* PeerManager.peers
    starts          \* history: calls of Start, for the bound

node == <<running, ctx, listening, ctl, toVisit, starts>>
loops == <<accept, tickers>>
peerVars == <<stepOf, conn, state, closing, ids>>
nodeVars == <<node, loops, wg, peerVars>>

\* Who calls Peer.Close: p's own goroutine, or Stop.
Callers == {"owner", "stop"}
ClosedStates == {"Disconnecting", "Disconnected"}
\* Steps of the goroutine that the WaitGroup counts: readLoop.  "told" is the
\* head of the loop, as "check" is, after a Disconnect message.
ReaderSteps == {"check", "told", "read", "handle", "removing", "leaving"}
Registered(p) == ids[RemoteID[p]] = p

Goto(p, step, target) == stepOf[p] = step /\ stepOf' = [stepOf EXCEPT ![p] = target]
-----------------------------------------------------------------------------
(* Peer.Close, called by the goroutine of p or by Stop.                    *)

\* The test of the state at its beginning: nothing to do for a second caller.
CloseBegun(p, caller) ==
    closing' = [closing EXCEPT ![p][caller] =
                    IF state[p] \in ClosedStates THEN "done" ELSE "set"]

CloseSet(p, caller) ==
    /\ closing[p][caller] = "set"
    /\ closing' = [closing EXCEPT ![p][caller] = "conn"]
    /\ state' = [state EXCEPT ![p] = "Disconnecting"]
    /\ UNCHANGED <<node, loops, wg, stepOf, conn, ids>>

CloseConn(p, caller) ==
    /\ closing[p][caller] = "conn"
    /\ closing' = [closing EXCEPT ![p][caller] = "end"]
    /\ conn' = [conn EXCEPT ![p] = "closed"]
    /\ UNCHANGED <<node, loops, wg, stepOf, state, ids>>

CloseEnd(p, caller) ==
    /\ closing[p][caller] = "end"
    /\ closing' = [closing EXCEPT ![p][caller] = "done"]
    /\ state' = [state EXCEPT ![p] = "Disconnected"]
    /\ UNCHANGED <<node, loops, wg, stepOf, conn, ids>>

Close(p, caller) ==
    CloseSet(p, caller) \/ CloseConn(p, caller) \/ CloseEnd(p, caller)
-----------------------------------------------------------------------------
(* Start and Stop, called in turn by one goroutine.                        *)

StartClaim ==
    /\ ctl = "idle" /\ ~running /\ starts < MaxStarts
    /\ running' = TRUE
    /\ ctl' = "start"
    /\ starts' = starts + 1
    /\ UNCHANGED <<ctx, listening, toVisit, loops, wg, peerVars>>

\* The new context, the listener, the three loops and the seeds' goroutines.
StartListen ==
    /\ ctl = "start"
    /\ ctl' = "idle"
    /\ ctx' = "live"
    /\ listening' = TRUE
    /\ accept' = "check"
    /\ tickers' = {"discovery", "ping"}
    /\ wg' = wg + 3
    /\ stepOf' = [p \in Conns |-> IF p \in Seeds /\ stepOf[p] = "none" THEN "dial" ELSE stepOf[p]]
    /\ UNCHANGED <<running, toVisit, starts, conn, state, closing, ids>>

\* The address is in use: Start returns an error.
StartFail ==
    /\ ctl = "start"
    /\ ctl' = "idle"
    /\ ctx' = "live"
    /\ UNCHANGED <<running, listening, toVisit, starts, loops, wg, peerVars>>

StopClaim ==
    /\ ctl = "idle" /\ running
    /\ running' = FALSE
    /\ ctl' = "cancel"
    /\ UNCHANGED <<ctx, listening, toVisit, starts, loops, wg, peerVars>>

StopCancel ==
    /\ ctl = "cancel"
    /\ ctx' = "cancelled"
    /\ ctl' = "closeServer"
    /\ UNCHANGED <<running, listening, toVisit, starts, loops, wg, peerVars>>

StopServer ==
    /\ ctl = "closeServer"
    /\ listening' = FALSE
    /\ ctl' = "closePeers"
    /\ UNCHANGED <<running, ctx, toVisit, starts, loops, wg, peerVars>>

\* Range visits every key that is there when it begins, and may or may not
\* visit one that is stored later.
StopRange ==
    /\ ctl = "closePeers"
    /\ ctl' = "range"
    /\ \E later \in SUBSET RemoteIDs :
          toVisit' = later \cup {id \in RemoteIDs : ids[id] # NoConn}
    /\ UNCHANGED <<running, ctx, listening, starts, loops, wg, peerVars>>

StopIsClosing == \E p \in Conns : closing[p]["stop"] \in {"set", "conn", "end"}

StopVisit(id) ==
    /\ ctl = "range" /\ id \in toVisit /\ ~StopIsClosing
    /\ toVisit' = toVisit \ {id}
    /\ IF ids[id] = NoConn THEN UNCHANGED closing ELSE CloseBegun(ids[id], "stop")
    /\ UNCHANGED <<running, ctx, listening, ctl, starts, loops, wg>>
    /\ UNCHANGED <<stepOf, conn, state, ids>>

\* Wrong: Stop does not wait for the goroutines.
StopNoWait ==
    /\ ctl = "range" /\ toVisit = {} /\ ~StopIsClosing
    /\ ctl' = "idle"
    /\ UNCHANGED <<running, ctx, listening, toVisit, starts, loops, wg, peerVars>>

\* wg.Wait() returns, and then Stop.
StopWait ==
    /\ ctl = "range" /\ toVisit = {} /\ ~StopIsClosing
    /\ wg = 0
    /\ ctl' = "idle"
    /\ UNCHANGED <<running, ctx, listening, toVisit, starts, loops, wg, peerVars>>
-----------------------------------------------------------------------------
(* acceptLoop, and the loops with a ticker.                                *)

\* The socket of p is connected; its goroutine goes on at step.
Connect(p, step) ==
    /\ stepOf' = [stepOf EXCEPT ![p] = step]
    /\ conn' = [conn EXCEPT ![p] = "open"]
    /\ state' = [state EXCEPT ![p] = "Connecting"]

EndAccept == accept' = "none" /\ wg' = wg - 1

AcceptCheck ==
    /\ accept = "check"
    /\ IF ctx = "cancelled" THEN EndAccept ELSE accept' = "accept" /\ UNCHANGED wg
    /\ UNCHANGED <<node, tickers, peerVars>>

\* A connection beyond MaxInboundPeers is closed at once.
AcceptRefuse ==
    /\ accept = "accept" /\ listening
    /\ accept' = "check"
    /\ UNCHANGED <<node, tickers, wg, peerVars>>

AcceptConn(p) ==
    /\ accept = "accept" /\ listening
    /\ stepOf[p] = "none" /\ closing[p]["stop"] = "done"
    /\ Connect(p, "handshake")
    /\ accept' = "check"
    /\ UNCHANGED <<node, tickers, wg, closing, ids>>

\* The listener is closed: the loop ends, or goes on if the node was not stopped.
AcceptError ==
    /\ accept = "accept" /\ ~listening
    /\ IF ctx = "cancelled" THEN EndAccept ELSE accept' = "check" /\ UNCHANGED wg
    /\ UNCHANGED <<node, tickers, peerVars>>

EndTicker(l) ==
    /\ l \in tickers /\ ctx = "cancelled"
    /\ tickers' = tickers \ {l}
    /\ wg' = wg - 1
    /\ UNCHANGED <<node, accept, peerVars>>
-----------------------------------------------------------------------------
(* The goroutine of a connection, up to readLoop.                          *)

\* connectToPeer gives up: connected already, too many peers, or no answer.
DialFail(p) ==
    /\ Goto(p, "dial", "none")
    /\ UNCHANGED <<node, loops, wg, conn, state, closing, ids>>

Dial(p) ==
    /\ stepOf[p] = "dial" /\ closing[p]["stop"] = "done"
    /\ Connect(p, "handshake")
    /\ UNCHANGED <<node, loops, wg, closing, ids>>

\* Wrong: a failed handshake leaves the socket open.
HandshakeFailOpen(p) ==
    /\ Goto(p, "handshake", "none")
    /\ UNCHANGED <<node, loops, wg, conn, state, closing, ids>>

\* An error, a refusal or HandshakeTimeout; the socket is closed, and the
\* state of the Peer stays.
HandshakeFail(p) ==
    /\ Goto(p, "handshake", "none")
    /\ conn' = [conn EXCEPT ![p] = "closed"]
    /\ UNCHANGED <<node, loops, wg, state, closing, ids>>

HandshakeDone(p) ==
    /\ Goto(p, "handshake", "register")
    /\ state' = [state EXCEPT ![p] = "Connected"]
    /\ UNCHANGED <<node, loops, wg, conn, closing, ids>>

\* Wrong: AddPeer overwrites the peer that has the ID.
RegisterOverwrite(p) ==
    /\ Goto(p, "register", "start")
    /\ ids' = [ids EXCEPT ![RemoteID[p]] = p]
    /\ UNCHANGED <<node, loops, wg, conn, state, closing>>

\* AddPeer stores the peer by its ID.
Register(p) ==
    /\ Goto(p, "register", "start")
    /\ ids[RemoteID[p]] = NoConn
    /\ ids' = [ids EXCEPT ![RemoteID[p]] = p]
    /\ UNCHANGED <<node, loops, wg, conn, state, closing>>

\* AddPeer refuses: the ID or a place is taken.
RegisterRefuse(p) ==
    /\ Goto(p, "register", "refused")
    /\ CloseBegun(p, "owner")
    /\ UNCHANGED <<node, loops, wg, conn, state, ids>>

\* The address is taken: the ID is given back.
RegisterRollback(p) ==
    /\ Goto(p, "start", "refused")
    /\ ids' = [ids EXCEPT ![RemoteID[p]] = NoConn]
    /\ CloseBegun(p, "owner")
    /\ UNCHANGED <<node, loops, wg, conn, state>>

Refused(p) ==
    /\ Goto(p, "refused", "none")
    /\ closing[p]["owner"] = "done"
    /\ UNCHANGED <<node, loops, wg, conn, state, closing, ids>>

\* wg.Add(1) and go n.readLoop(p)
StartReadLoop(p) ==
    /\ Goto(p, "start", "check")
    /\ wg' = wg + 1
    /\ UNCHANGED <<node, loops, conn, state, closing, ids>>
-----------------------------------------------------------------------------
(* readLoop.                                                               *)

\* Wrong: the loop does not look at the context.
ReadUnchecked(p) ==
    /\ Goto(p, "check", "read") \/ Goto(p, "told", "read")
    /\ UNCHANGED <<node, loops, wg, conn, state, closing, ids>>

ReadCheck(p) ==
    /\ \E step \in {"check", "told"} :
          Goto(p, step, IF ctx = "cancelled" THEN "removing" ELSE "read")
    /\ UNCHANGED <<node, loops, wg, conn, state, closing, ids>>

\* A message that was received before the socket was closed may still come out
\* of the buffer.
ReadMessage(p) ==
    /\ Goto(p, "read", "handle")
    /\ UNCHANGED <<node, loops, wg, conn, state, closing, ids>>

\* The remote is gone, or the socket is closed.
ReadError(p) ==
    /\ Goto(p, "read", "removing")
    /\ UNCHANGED <<node, loops, wg, conn, state, closing, ids>>

\* Ping, Pong, GetPeers, or a message that cannot be decoded: nothing changes.
HandleOther(p) ==
    /\ Goto(p, "handle", "check")
    /\ UNCHANGED <<node, loops, wg, conn, state, closing, ids>>

\* handlePeers starts goroutines that dial.
HandlePeers(p) ==
    /\ stepOf[p] = "handle"
    /\ \E found \in SUBSET {q \in Conns \ Inbound : stepOf[q] = "none"} :
          stepOf' = [q \in Conns |-> IF q = p THEN "check"
                                 ELSE IF q \in found THEN "dial" ELSE stepOf[q]]
    /\ UNCHANGED <<node, loops, wg, conn, state, closing, ids>>

\* handleDisconnect returns an error, which handleMessage logs.
HandleDisconnect(p) ==
    /\ Goto(p, "handle", "told")
    /\ UNCHANGED <<node, loops, wg, conn, state, closing, ids>>

\* Wrong: the peer is closed and stays in the registry.
UnregisterKeep(p) ==
    /\ Goto(p, "removing", "leaving")
    /\ CloseBegun(p, "owner")
    /\ UNCHANGED <<node, loops, wg, conn, state, ids>>

\* RemovePeer takes out what it finds under the ID; Close begins.
Unregister(p) ==
    /\ Goto(p, "removing", "leaving")
    /\ ids' = [ids EXCEPT ![RemoteID[p]] = NoConn]
    /\ CloseBegun(p, "owner")
    /\ UNCHANGED <<node, loops, wg, conn, state>>

\* Close has returned: wg.Done().
ReadLoopDone(p) ==
    /\ Goto(p, "leaving", "none")
    /\ closing[p]["owner"] = "done"
    /\ wg' = wg - 1
    /\ UNCHANGED <<node, loops, conn, state, closing, ids>>
-----------------------------------------------------------------------------
\* New
NodeInit ==
    /\ running = FALSE /\ ctx = "none" /\ listening = FALSE
    /\ ctl = "idle" /\ toVisit = {} /\ starts = 0
    /\ accept = "none" /\ tickers = {} /\ wg = 0
    /\ stepOf = [p \in Conns |-> "none"]
    /\ conn = [p \in Conns |-> "closed"]
    /\ state = [p \in Conns |-> "Disconnected"]
    /\ closing = [p \in Conns |-> [c \in Callers |-> "done"]]
    /\ ids = [id \in RemoteIDs |-> NoConn]

Start == StartClaim \/ StartListen \/ StartFail

\* The rest of Stop, once it has begun.
StopGoesOn ==
    \/ StopCancel \/ StopServer \/ StopRange \/ StopWait
    \/ \E id \in RemoteIDs : StopVisit(id)
    \/ \E p \in Conns : Close(p, "stop")

Loops ==
    \/ AcceptCheck \/ AcceptRefuse \/ AcceptError
    \/ \E p \in Inbound : AcceptConn(p)
    \/ \E l \in {"discovery", "ping"} : EndTicker(l)

\* The steps of p's goroutine that wait for nothing outside of the node.
Runs(p) ==
    \/ HandshakeFail(p) \/ HandshakeDone(p)
    \/ Register(p) \/ RegisterRefuse(p) \/ RegisterRollback(p) \/ Refused(p)
    \/ StartReadLoop(p) \/ ReadCheck(p)
    \/ HandleOther(p) \/ HandlePeers(p) \/ HandleDisconnect(p)
    \/ Unregister(p) \/ ReadLoopDone(p)
    \/ Close(p, "owner")
    \/ DialFail(p) \/ Dial(p)

NodeNext ==
    \/ Start \/ StopClaim \/ StopGoesOn \/ Loops
    \/ \E p \in Conns : Runs(p) \/ ReadMessage(p) \/ ReadError(p)

NodeSpec == NodeInit /\ [][NodeNext]_nodeVars

\* Every goroutine that can run does; a dial and a handshake end, by their
\* time limits if not otherwise; ReadMessage returns once the socket is closed,
\* and may wait for ever before.  Start and Stop need not be called.
FairSpec ==
    /\ NodeSpec
    /\ WF_nodeVars(StopGoesOn)
    /\ WF_nodeVars(AcceptCheck) /\ WF_nodeVars(AcceptError)
    /\ \A l \in {"discovery", "ping"} : WF_nodeVars(EndTicker(l))
    /\ \A p \in Conns : WF_nodeVars(Runs(p))
                            /\ WF_nodeVars(conn[p] = "closed" /\ ReadError(p))
-----------------------------------------------------------------------------
NodeTypeOK ==
    /\ running \in BOOLEAN /\ listening \in BOOLEAN
    /\ ctx \in {"none", "live", "cancelled"}
    /\ ctl \in {"idle", "start", "cancel", "closeServer", "closePeers", "range"}
    /\ toVisit \subseteq RemoteIDs
    /\ accept \in {"none", "check", "accept"}
    /\ tickers \subseteq {"discovery", "ping"}
    /\ wg \in Nat
    /\ stepOf \in [Conns -> {"none", "dial", "handshake", "register", "start", "refused"}
                            \cup ReaderSteps]
    /\ conn \in [Conns -> {"open", "closed"}]
    /\ state \in [Conns -> {"Connecting", "Connected"} \cup ClosedStates]
    /\ closing \in [Conns -> [Callers -> {"set", "conn", "end", "done"}]]
    /\ ids \in [RemoteIDs -> Conns \cup {NoConn}]
    /\ starts \in 0 .. MaxStarts

\* The peer that a readLoop serves is in the registry under its ID until that
\* loop takes it out: Stop, which finds peers only there, misses no readLoop.
ReadersRegistered ==
    /\ NodeTypeOK
    /\ \A p \in Conns : stepOf[p] \in ReaderSteps \ {"leaving"} => Registered(p)

\* No socket is left behind: when the goroutine of a connection is over the
\* socket is closed, or Stop, which made Peer.Close return early, is about to
\* close it.
NoLeakedConnection ==
    \A p \in Conns : stepOf[p] = "none" /\ conn[p] = "open"
                        => closing[p]["stop"] = "conn"

\* A peer that says Disconnected has a closed socket, whichever of two calls of
\* Close has set the state.
DisconnectedIsClosed ==
    \A p \in Conns : state[p] = "Disconnected" => conn[p] = "closed"

\* Peer.Close, called by two at once, leaves no socket open behind a goroutine
\* that is over or a state that says it is closed.
SocketsClosed == NoLeakedConnection /\ DisconnectedIsClosed

\* When Stop has returned no message is read or handled until the next Start,
\* not even for a peer whose handshake ends afterwards.
QuietWhenStopped ==
    ctl = "idle" /\ ~running => \A p \in Conns : stepOf[p] \notin {"read", "handle"}

\* Stop returns: every readLoop ends, also one whose peer is registered while
\* PeerManager.Close goes through the registry and does not meet it, and though
\* a remote may keep its side open and silent for ever.
StopReturns == ctl = "cancel" ~> ctl = "idle"

\* A node that stays stopped gets rid of everything: in the end no socket is
\* open and the registry is empty, handshakes that Stop did not wait for
\* included.
NothingRemains ==
    (ctl = "idle" /\ ~running)
        ~> (ctl = "start" \/ \A p \in Conns : conn[p] = "closed" /\ ~Registered(p))
=============================================================================
