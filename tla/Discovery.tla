----------------------------- MODULE Discovery -----------------------------
(***************************************************************************)
(* The discovery of peers, pkg/discovery: the table of known addresses of  *)
(* SeedDiscovery with its cleanup, its retries and its events, and the     *)
(* gossip loop that GossipDiscovery adds.                                  *)
(*                                                                         *)
(* Processes: any number of callers of AddPeer, HandleGossip and           *)
(* RemovePeer; discoveryLoop; gossipLoop; one goroutine that calls Start   *)
(* and Stop; and one that dials what GetRetryablePeers returns, in the way *)
(* the comments of seed.go describe it (the repository has no caller yet). *)
(***************************************************************************)
EXTENDS Integers, FiniteSets

CONSTANTS
    Addrs, Seeds, LocalAddr,
    Heard,              \* addresses that callers add and remove
    Dialled,            \* addresses that the dialling goroutine cares for
    MaxPeers, PeerTTL,
    RetryBaseInterval, MaxRetryAttempts,
    MaxBackoff,         \* one hour
    DurationLimit,      \* a Duration is below it: 2^63
    MaxGossipPeers, GossipTTL,
    NoPeer, NoAddr, NoTime,
    MaxTime             \* bound: the clock stops here

ASSUME DiscoveryAssumption ==
    /\ IsFiniteSet(Addrs)
    /\ Seeds \subseteq Addrs /\ Heard \subseteq Addrs /\ Dialled \subseteq Addrs
    /\ LocalAddr \in Addrs
    /\ {MaxPeers, PeerTTL, RetryBaseInterval, MaxRetryAttempts, MaxBackoff,
        MaxGossipPeers, GossipTTL, MaxTime} \subseteq Nat
    /\ DurationLimit \in Nat \ {0}
    /\ NoTime \notin Nat /\ NoAddr \notin Addrs
    /\ NoPeer \notin [seed : BOOLEAN, seen : Nat, attempts : Nat, tried : Nat \cup {NoTime}]
    /\ NoPeer \notin [known : BOOLEAN, addr : Addrs]

VARIABLES
    peers,          \* for each address its PeerInfo, or NoPeer
    mu,             \* who holds mu for writing: "free", "call" or "clean"
    event,          \* the event whose handlers are running: [known, addr], or NoPeer
    running, gossipRunning,
    ctl,            \* the step of the goroutine that calls Start and Stop
    dpc, cleanAt, toVisit,  \* discoveryLoop: its step, the time of the cleanup
                            \* and the entries it has still to look at
    gpc, batch,     \* gossipLoop: its step and the addresses it is to send
    recentGossip,
    due, dialling,  \* the dialling goroutine
    now,
    view,           \* history: the addresses that a listener to events knows
    fresh,          \* history: addresses discovered since the last cleanup
    lastGossip      \* history: when an address was last recorded as gossiped

cleaner == <<dpc, cleanAt, toVisit>>
gossiper == <<gpc, batch, recentGossip, lastGossip>>
dialler == <<due, dialling>>
control == <<running, gossipRunning, ctl>>
vars == <<peers, mu, event, control, cleaner, gossiper, dialler, now, view, fresh>>

Known == {a \in Addrs : peers[a] # NoPeer}
Removable == {a \in Known : ~peers[a].seed}
-----------------------------------------------------------------------------
(* Events.  The handlers run while mu is held.                             *)

Emit(known, a) == event' = [known |-> known, addr |-> a]

\* The handlers return; a caller has nothing left to do but to unlock.
HandlersReturn ==
    /\ event # NoPeer
    /\ view' = IF event.known THEN view \cup {event.addr} ELSE view \ {event.addr}
    /\ event' = NoPeer
    /\ mu' = IF mu = "call" THEN "free" ELSE mu
    /\ UNCHANGED <<peers, control, cleaner, gossiper, dialler, now, fresh>>
-----------------------------------------------------------------------------
(* The table.                                                              *)

\* An address that is known is seen again and keeps its attempts.  A source of
\* "seed" is given by the constructor only.
AddPeer(a) ==
    /\ a # LocalAddr
    /\ mu = "free"
    /\ mu' = "call"
    /\ peers' = [peers EXCEPT ![a] =
                    IF a \in Known THEN [@ EXCEPT !.seen = now]
                    ELSE [seed |-> FALSE, seen |-> now, attempts |-> 0, tried |-> NoTime]]
    /\ fresh' = IF a \in Known THEN fresh ELSE fresh \cup {a}
    /\ Emit(TRUE, a)
    /\ UNCHANGED <<control, cleaner, gossiper, dialler, now, view>>

\* Wrong: no event.
RemovePeerSilently(a) ==
    /\ a \in Known
    /\ mu = "free"
    /\ peers' = [peers EXCEPT ![a] = NoPeer]
    /\ UNCHANGED <<mu, event, control, cleaner, gossiper, dialler, now, view, fresh>>

RemovePeer(a) ==
    /\ a \in Known
    /\ mu = "free"
    /\ mu' = "call"
    /\ peers' = [peers EXCEPT ![a] = NoPeer]
    /\ Emit(FALSE, a)
    /\ UNCHANGED <<control, cleaner, gossiper, dialler, now, view, fresh>>
-----------------------------------------------------------------------------
(* discoveryLoop.                                                          *)

DiscoveryTick ==
    /\ dpc = "wait"
    /\ dpc' = "clean"
    /\ UNCHANGED <<peers, mu, event, control, cleanAt, toVisit, gossiper, dialler,
                   now, view, fresh>>

DiscoveryExit ==
    /\ dpc = "wait"
    /\ ~running
    /\ dpc' = "none"
    /\ UNCHANGED <<peers, mu, event, control, cleanAt, toVisit, gossiper, dialler,
                   now, view, fresh>>

CleanupLock ==
    /\ dpc = "clean"
    /\ mu = "free"
    /\ mu' = "clean"
    /\ dpc' = "expire"
    /\ cleanAt' = now
    /\ toVisit' = Known
    /\ UNCHANGED <<peers, event, control, gossiper, dialler, now, view, fresh>>

\* The cleanup deletes an entry and its handlers begin.
Drop(a) == peers' = [peers EXCEPT ![a] = NoPeer] /\ Emit(FALSE, a)

\* The loop over the map, in any order.
CleanupVisit(a) ==
    /\ dpc = "expire" /\ event = NoPeer
    /\ a \in toVisit
    /\ toVisit' = toVisit \ {a}
    /\ IF a \in Removable /\ cleanAt - peers[a].seen > PeerTTL
       THEN Drop(a) ELSE UNCHANGED <<peers, event>>
    /\ UNCHANGED <<mu, control, dpc, cleanAt, gossiper, dialler, now, view, fresh>>

\* The entries seen least recently, seeds left out; the map's order decides.
Oldest == {a \in Removable : \A b \in Removable : peers[a].seen <= peers[b].seen}

\* Wrong: one entry too many stays.
TooManyByOne == Cardinality(Known) > MaxPeers + 1 /\ Removable # {}

TooMany == Cardinality(Known) > MaxPeers /\ Removable # {}

\* trimOldestPeersLocked, one entry.
Trim ==
    /\ dpc = "expire" /\ event = NoPeer /\ toVisit = {}
    /\ TooMany
    /\ \E a \in Oldest : Drop(a)
    /\ UNCHANGED <<mu, control, cleaner, gossiper, dialler, now, view, fresh>>

CleanupUnlock ==
    /\ dpc = "expire" /\ event = NoPeer /\ toVisit = {}
    /\ ~TooMany
    /\ mu' = "free"
    /\ dpc' = "wait"
    /\ cleanAt' = 0
    /\ fresh' = {}
    /\ UNCHANGED <<peers, event, control, toVisit, gossiper, dialler, now, view>>

Cleanup == CleanupLock \/ (\E a \in Addrs : CleanupVisit(a)) \/ Trim \/ CleanupUnlock
-----------------------------------------------------------------------------
(* gossipLoop.                                                             *)

GossipStep(from, to) == gpc = from /\ gpc' = to

RestOfGossip == <<peers, mu, event, control, cleaner, dialler, now, view, fresh>>

\* The random delay is over.
GossipJitter ==
    /\ GossipStep("jitter", "wait")
    /\ UNCHANGED <<batch, recentGossip, lastGossip, RestOfGossip>>

GossipTick ==
    /\ GossipStep("wait", "gossip")
    /\ UNCHANGED <<batch, recentGossip, lastGossip, RestOfGossip>>

\* Wrong: once the delay is over the loop does not look at gossipStopCh.
GossipExitDelayed ==
    /\ GossipStep("jitter", "none")
    /\ ~gossipRunning
    /\ UNCHANGED <<batch, recentGossip, lastGossip, RestOfGossip>>

\* gossipStopCh is closed when gossipRunning is cleared.
GossipExit ==
    /\ GossipStep("jitter", "none") \/ GossipStep("wait", "none")
    /\ ~gossipRunning
    /\ UNCHANGED <<batch, recentGossip, lastGossip, RestOfGossip>>

\* selectPeersToGossip copies the table under its read lock ...
GossipCopy ==
    /\ GossipStep("gossip", "select")
    /\ mu = "free"
    /\ batch' = Known
    /\ UNCHANGED <<recentGossip, lastGossip, RestOfGossip>>

\* ... and picks at random what was not gossiped within GossipTTL.
GossipSelect ==
    LET candidates == {a \in batch : recentGossip[a] = NoTime
                                        \/ now - recentGossip[a] > GossipTTL}
    IN  /\ gpc = "select"
        /\ \E S \in SUBSET candidates :
              /\ Cardinality(S) = IF Cardinality(candidates) > MaxGossipPeers
                                  THEN MaxGossipPeers ELSE Cardinality(candidates)
              /\ batch' = S
              /\ gpc' = IF S = {} THEN "tidy" ELSE "send"
        /\ UNCHANGED <<recentGossip, lastGossip, RestOfGossip>>

\* gossipFunc succeeds, or fails and nothing is recorded.
GossipSend ==
    /\ \/ GossipStep("send", "record") /\ UNCHANGED batch
       \/ GossipStep("send", "tidy") /\ batch' = {}
    /\ UNCHANGED <<recentGossip, lastGossip, RestOfGossip>>

GossipRecord ==
    /\ GossipStep("record", "tidy")
    /\ recentGossip' = [a \in Addrs |-> IF a \in batch THEN now ELSE recentGossip[a]]
    /\ lastGossip' = [a \in Addrs |-> IF a \in batch THEN now ELSE lastGossip[a]]
    /\ batch' = {}
    /\ UNCHANGED RestOfGossip

\* Wrong: the whole cache is dropped.
GossipForget ==
    /\ GossipStep("tidy", "wait")
    /\ recentGossip' = [a \in Addrs |-> NoTime]
    /\ batch' = {}
    /\ UNCHANGED <<lastGossip, RestOfGossip>>

\* cleanupRecentGossip
GossipTidy ==
    /\ GossipStep("tidy", "wait")
    /\ recentGossip' = [a \in Addrs |->
            IF recentGossip[a] # NoTime /\ now - recentGossip[a] > GossipTTL * 2
            THEN NoTime ELSE recentGossip[a]]
    /\ batch' = {}
    /\ UNCHANGED <<lastGossip, RestOfGossip>>

Gossip == GossipCopy \/ GossipSelect \/ GossipSend \/ GossipRecord \/ GossipTidy
-----------------------------------------------------------------------------
(* Start and Stop of GossipDiscovery.  A stop channel is made when its flag *)
(* is set and closed when it is cleared.                                   *)

RestOfControl == <<peers, event, cleanAt, toVisit, batch, recentGossip, lastGossip,
                   dialler, now, view, fresh>>

ControlStep(from, to) == ctl = from /\ ctl' = to

\* SeedDiscovery.Start
Start ==
    /\ ControlStep("idle", "start")
    /\ mu = "free"
    /\ running' = TRUE
    /\ dpc' = IF running THEN dpc ELSE "clean"
    /\ UNCHANGED <<mu, gossipRunning, gpc, RestOfControl>>

StartGossip ==
    /\ ControlStep("start", "idle")
    /\ mu = "free"
    /\ gossipRunning' = TRUE
    /\ gpc' = IF gossipRunning THEN gpc ELSE "jitter"
    /\ UNCHANGED <<mu, running, dpc, RestOfControl>>

Stop ==
    /\ ControlStep("idle", "stop")
    /\ mu = "free"
    /\ gossipRunning' = FALSE
    /\ UNCHANGED <<mu, running, dpc, gpc, RestOfControl>>

StopWaitGossip ==
    /\ ControlStep("stop", "stop_seed")
    /\ gpc = "none"
    /\ UNCHANGED <<mu, running, gossipRunning, dpc, gpc, RestOfControl>>

\* SeedDiscovery.Stop
StopSeed ==
    /\ ControlStep("stop_seed", "stop_wait")
    /\ mu = "free"
    /\ running' = FALSE
    /\ UNCHANGED <<mu, gossipRunning, dpc, gpc, RestOfControl>>

\* Wrong: Stop does not wait.
StopNoWait ==
    /\ ControlStep("stop_wait", "idle")
    /\ UNCHANGED <<mu, running, gossipRunning, dpc, gpc, RestOfControl>>

StopWait ==
    /\ ControlStep("stop_wait", "idle")
    /\ dpc = "none"
    /\ UNCHANGED <<mu, running, gossipRunning, dpc, gpc, RestOfControl>>

GoesOn == StartGossip \/ StopWaitGossip \/ StopSeed \/ StopWait
-----------------------------------------------------------------------------
(* Dialling.                                                               *)

\* A Duration wraps.
Wrap(d) == ((d + DurationLimit) % (2 * DurationLimit)) - DurationLimit

Backoff(attempts) ==
    LET b == Wrap(RetryBaseInterval * 2 ^ attempts)
    IN  IF b > MaxBackoff THEN MaxBackoff ELSE b

\* Wrong: the wait after the first failure is the base interval.
ShouldRetrySoon(p) ==
    /\ p.attempts < MaxRetryAttempts
    /\ p.tried = NoTime \/ now - p.tried >= Backoff(p.attempts - 1)

ShouldRetry(p) ==
    /\ p.attempts < MaxRetryAttempts
    /\ p.tried = NoTime \/ now - p.tried >= Backoff(p.attempts)

RestOfDialler == <<event, control, cleaner, gossiper, now, view, fresh>>

GetRetryablePeers ==
    /\ due = {} /\ dialling = NoAddr
    /\ mu = "free"
    /\ due' = {a \in (Known \cap Dialled) \ {LocalAddr} : ShouldRetry(peers[a])}
    /\ UNCHANGED <<peers, mu, dialling, RestOfDialler>>

\* The address may have left the table since GetRetryablePeers returned it.
MarkAttempt(a) ==
    /\ a \in due /\ dialling = NoAddr
    /\ mu = "free"
    /\ due' = due \ {a}
    /\ dialling' = a
    /\ peers' = IF a \in Known
                THEN [peers EXCEPT ![a].attempts = @ + 1, ![a].tried = now] ELSE peers
    /\ UNCHANGED <<mu, RestOfDialler>>

MarkSuccess ==
    /\ dialling # NoAddr
    /\ mu = "free"
    /\ dialling' = NoAddr
    /\ peers' = IF dialling \in Known
                THEN [peers EXCEPT ![dialling].attempts = 0, ![dialling].tried = NoTime,
                                   ![dialling].seen = now]
                ELSE peers
    /\ UNCHANGED <<mu, due, RestOfDialler>>

DialFails ==
    /\ dialling # NoAddr
    /\ dialling' = NoAddr
    /\ UNCHANGED <<peers, mu, due, RestOfDialler>>

Tick ==
    /\ now < MaxTime
    /\ now' = now + 1
    /\ UNCHANGED <<peers, mu, event, control, cleaner, gossiper, dialler, view, fresh>>
-----------------------------------------------------------------------------
\* NewSeedDiscovery and NewGossipDiscovery
Init ==
    /\ peers = [a \in Addrs |->
                    IF a \in Seeds
                    THEN [seed |-> TRUE, seen |-> 0, attempts |-> 0, tried |-> NoTime]
                    ELSE NoPeer]
    /\ mu = "free" /\ event = NoPeer
    /\ running = FALSE /\ gossipRunning = FALSE /\ ctl = "idle"
    /\ dpc = "none" /\ cleanAt = 0 /\ toVisit = {}
    /\ gpc = "none" /\ batch = {}
    /\ recentGossip = [a \in Addrs |-> NoTime] /\ lastGossip = recentGossip
    /\ due = {} /\ dialling = NoAddr
    /\ now = 0
    /\ view = Seeds /\ fresh = {}

Next ==
    \/ HandlersReturn
    \/ \E a \in Heard : AddPeer(a) \/ RemovePeer(a)
    \/ DiscoveryTick \/ DiscoveryExit \/ Cleanup
    \/ GossipJitter \/ GossipTick \/ GossipExit \/ Gossip
    \/ Start \/ Stop \/ GoesOn
    \/ GetRetryablePeers \/ MarkSuccess \/ DialFails
    \/ \E a \in Dialled : MarkAttempt(a)
    \/ Tick

Spec == Init /\ [][Next]_vars

\* Handlers and gossipFunc return, and a mutex starves nobody; a select with
\* several cases ready picks one at random, so that it does not pass over a
\* closed channel for ever.  That a ticker fires is not assumed.
FairSpec ==
    /\ Spec
    /\ WF_vars(HandlersReturn)
    /\ SF_vars(GoesOn)
    /\ SF_vars(Cleanup) /\ SF_vars(DiscoveryExit)
    /\ SF_vars(Gossip) /\ SF_vars(GossipExit)
-----------------------------------------------------------------------------
Times == 0..now

Info == [seed : BOOLEAN, seen : Times, attempts : 0..MaxRetryAttempts,
         tried : Times \cup {NoTime}]

\* An address is never dialled more than MaxRetryAttempts times without success.
TypeOK ==
    /\ peers \in [Addrs -> Info \cup {NoPeer}]
    /\ mu \in {"free", "call", "clean"}
    /\ event \in [known : BOOLEAN, addr : Addrs] \cup {NoPeer}
    /\ running \in BOOLEAN /\ gossipRunning \in BOOLEAN
    /\ ctl \in {"idle", "start", "stop", "stop_seed", "stop_wait"}
    /\ dpc \in {"none", "clean", "expire", "wait"}
    /\ cleanAt \in Times /\ toVisit \subseteq Addrs
    /\ gpc \in {"none", "jitter", "wait", "gossip", "select", "send", "record", "tidy"}
    /\ batch \subseteq Addrs
    /\ recentGossip \in [Addrs -> Times \cup {NoTime}]
    /\ lastGossip \in [Addrs -> Times \cup {NoTime}]
    /\ due \subseteq Addrs /\ dialling \in Addrs \cup {NoAddr}
    /\ now \in 0..MaxTime
    /\ view \subseteq Addrs /\ fresh \subseteq Addrs

\* The table exceeds MaxPeers, or the number of seeds if that is larger, only by
\* addresses that were discovered since the last cleanup ended (seed.go:201,
\* seed.go:284), however additions, removals and retries fall between cleanups.
WithinLimit ==
    Cardinality(Known \ fresh)
        <= IF MaxPeers > Cardinality(Seeds) THEN MaxPeers ELSE Cardinality(Seeds)

\* The table and all that belongs to it keeps its form, and the table its limit.
SizeBounded == TypeOK /\ WithinLimit

\* Whenever nobody holds mu, a listener that follows the events knows exactly
\* the addresses of the table, seeds included: no deletion by a caller, by expiry
\* or by trimming goes unannounced, and events arrive in the order of changes.
ListenerInStep == mu = "free" => view = Known

\* An address is gossiped again only when more than GossipTTL has passed since
\* it was recorded (gossip.go:296), although the cache is tidied meanwhile and
\* the loops are stopped and started, and entries leave and enter the table.
GossipSpaced ==
    [][gpc = "send" /\ gpc' = "record" =>
          \A a \in batch : lastGossip[a] = NoTime \/ now - lastGossip[a] > GossipTTL]_vars

\* As long as its entry stays in the table, an address that was dialled n times
\* without success is dialled again only RetryBaseInterval * 2^n (or MaxBackoff)
\* after the last attempt: the list that GetRetryablePeers returned may be stale
\* when it is used, but an entry that came anew in between was never tried.
AttemptsSpaced ==
    [][\A a \in Addrs :
          LET p == peers[a]
              wait == RetryBaseInterval * 2 ^ p.attempts
          IN  (dialling = NoAddr /\ dialling' = a /\ a \in Known /\ p.tried # NoTime)
                => now - p.tried >= IF wait < MaxBackoff THEN wait ELSE MaxBackoff]_vars

\* Between a Stop and the next Start neither loop is there: nothing is deleted
\* behind the back of the callers, and nothing is gossiped.
QuietWhenStopped == ctl = "idle" /\ ~running => dpc = "none" /\ gpc = "none"

\* Stop returns, although both loops may be waiting for mu or be in a handler
\* or in gossipFunc when it is called, and callers go on taking mu.
StopReturns == ctl = "stop" ~> ctl = "idle"
=============================================================================
