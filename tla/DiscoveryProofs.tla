-------------------------- MODULE DiscoveryProofs --------------------------
(***************************************************************************)
(* Proofs about Discovery for every finite set of addresses and every      *)
(* choice of its limits and times.                                         *)
(***************************************************************************)
EXTENDS Discovery, FiniteSetTheorems, TLAPS

\* mu is taken by a caller exactly as long as its handlers run, and by the
\* cleanup from one end to the other.
LockOK ==
    /\ mu = "free" => event = NoPeer
    /\ mu = "call" => event # NoPeer
    /\ mu = "clean" <=> dpc = "expire"

\* What a listener will know when the handlers that are running have returned.
Heeded ==
    IF event = NoPeer THEN view
    ELSE IF event.known THEN view \cup {event.addr} ELSE view \ {event.addr}

HeededOK == Heeded = Known

\* What the step of Start or Stop says of the flags, and the flags of the loops.
ControlOK ==
    /\ ctl = "idle" => running = gossipRunning
    /\ ctl = "start" => running
    /\ ctl \in {"stop", "stop_seed", "stop_wait"} => ~gossipRunning
    /\ ctl = "stop_wait" => ~running
    /\ gpc # "none" => gossipRunning \/ ctl = "stop"
    /\ dpc # "none" => running \/ ctl = "stop_wait"

\* An entry that is to be dialled may be: it has attempts left, and has waited
\* long enough if it was tried at all.
DueOK ==
    \A a \in due :
        /\ MaxRetryAttempts > 0
        /\ a \in Known => ShouldRetry(peers[a])

\* What is protected from trimming was given to the constructor.
SeedsOK == \A a \in Known : peers[a].seed => a \in Seeds

\* The cache forgets only what is old enough, and what is being sent is so.
CacheOK ==
    \A a \in Addrs :
        /\ recentGossip[a] # NoTime => lastGossip[a] = recentGossip[a]
        /\ recentGossip[a] = NoTime /\ lastGossip[a] # NoTime
              => now - lastGossip[a] > GossipTTL
        /\ gpc = "send" /\ a \in batch /\ lastGossip[a] # NoTime
              => now - lastGossip[a] > GossipTTL

IInv ==
    /\ TypeOK /\ LockOK /\ HeededOK /\ ControlOK /\ DueOK
    /\ SeedsOK /\ WithinLimit /\ CacheOK
-----------------------------------------------------------------------------
(* The steps, sorted by what they leave alone.                               *)

TableSteps == HandlersReturn \/ \E a \in Heard : AddPeer(a) \/ RemovePeer(a)
CleanerSteps == DiscoveryTick \/ DiscoveryExit \/ Cleanup
GossipSteps == GossipJitter \/ GossipTick \/ GossipExit \/ Gossip
ControlSteps == Start \/ Stop \/ GoesOn
DiallerSteps == GetRetryablePeers \/ MarkSuccess \/ DialFails \/ \E a \in Dialled : MarkAttempt(a)

LEMMA StepCases ==
    ASSUME [Next]_vars
    PROVE  \/ TableSteps \/ CleanerSteps \/ GossipSteps
           \/ ControlSteps \/ DiallerSteps \/ Tick \/ UNCHANGED vars
BY DEF Next, TableSteps, CleanerSteps, GossipSteps, ControlSteps, DiallerSteps

LEMMA GossipKeeps == GossipSteps => UNCHANGED RestOfGossip
BY DEF GossipSteps, Gossip, GossipJitter, GossipTick, GossipExit, GossipCopy, GossipSelect,
       GossipSend, GossipRecord, GossipTidy

LEMMA ControlKeeps == ControlSteps => UNCHANGED <<mu, RestOfControl>>
BY DEF ControlSteps, GoesOn, Start, StartGossip, Stop, StopWaitGossip, StopSeed, StopWait

LEMMA DiallerKeeps == DiallerSteps => UNCHANGED <<mu, RestOfDialler>>
BY DEF DiallerSteps, GetRetryablePeers, MarkAttempt, MarkSuccess, DialFails
-----------------------------------------------------------------------------
(* What the changes of the table do.                                       *)

LEMMA Limits ==
    /\ MaxRetryAttempts \in Nat /\ MaxPeers \in Nat /\ PeerTTL \in Nat
    /\ GossipTTL \in Nat /\ MaxTime \in Nat /\ MaxBackoff \in Nat
    /\ RetryBaseInterval \in Nat
BY DiscoveryAssumption

LEMMA EmitAnnounces ==
    ASSUME NEW k \in BOOLEAN, NEW a \in Addrs, Emit(k, a)
    PROVE  /\ event' \in [known : BOOLEAN, addr : Addrs]
           /\ event' # NoPeer /\ event'.known = k /\ event'.addr = a
BY DiscoveryAssumption DEF Emit

LEMMA EntryType ==
    ASSUME TypeOK, NEW a \in Known
    PROVE  /\ peers[a] \in Info
           /\ peers[a].seed \in BOOLEAN /\ peers[a].seen \in 0..now
           /\ peers[a].attempts \in 0..MaxRetryAttempts
           /\ peers[a].tried \in 0..now \cup {NoTime}
<1>1. peers[a] \in Info
  BY DEF TypeOK, Known
<1> QED
  BY <1>1 DEF Info, Times

\* Only one entry goes; the others stay what they are.
LEMMA Forgetting ==
    ASSUME TypeOK, NEW a \in Addrs, peers' = [peers EXCEPT ![a] = NoPeer]
    PROVE  /\ Known' = Known \ {a}
           /\ peers' \in [Addrs -> Info \cup {NoPeer}]
           /\ \A b \in Known' : peers'[b] = peers[b]
BY DEF TypeOK, Known

\* An entry differs from NoPeer.
LEMMA EntryIsThere ==
    ASSUME NEW p \in [seed : BOOLEAN, seen : 0..now, attempts : 0..MaxRetryAttempts,
                      tried : 0..now \cup {NoTime}],
           now \in Nat
    PROVE  p # NoPeer
<1>1. p \in [seed : BOOLEAN, seen : Nat, attempts : Nat, tried : Nat \cup {NoTime}]
  BY DiscoveryAssumption
<1> QED
  BY <1>1, DiscoveryAssumption

LEMMA Adding ==
    ASSUME TypeOK, NEW a \in Heard, AddPeer(a)
    PROVE  /\ Known' = Known \cup {a}
           /\ peers' \in [Addrs -> Info \cup {NoPeer}]
           /\ \A b \in Known' \ {a} : peers'[b] = peers[b]
           /\ a \in Known => /\ peers'[a].seed = peers[a].seed
                             /\ peers'[a].attempts = peers[a].attempts
                             /\ peers'[a].tried = peers[a].tried
           /\ a \notin Known => /\ ~peers'[a].seed
                                /\ peers'[a].attempts = 0 /\ peers'[a].tried = NoTime
<1> DEFINE p == IF a \in Known THEN [peers[a] EXCEPT !.seen = now]
                ELSE [seed |-> FALSE, seen |-> now, attempts |-> 0, tried |-> NoTime]
<1>0. a \in Addrs /\ now \in Nat /\ now \in Times
  BY DiscoveryAssumption DEF TypeOK, Times
<1>1. peers' = [peers EXCEPT ![a] = p]
  BY DEF AddPeer
<1>2. /\ p \in Info
      /\ a \in Known => /\ p.seed = peers[a].seed
                        /\ p.attempts = peers[a].attempts /\ p.tried = peers[a].tried
      /\ a \notin Known => ~p.seed /\ p.attempts = 0 /\ p.tried = NoTime
  <2>1. CASE a \in Known
    BY <1>0, <2>1, EntryType DEF Info
  <2>2. CASE a \notin Known
    <3>1. p = [seed |-> FALSE, seen |-> now, attempts |-> 0, tried |-> NoTime]
      BY <2>2
    <3>2. 0 \in 0..MaxRetryAttempts /\ FALSE \in BOOLEAN /\ NoTime \in Times \cup {NoTime}
      BY Limits
    <3> QED
      BY <1>0, <2>2, <3>1, <3>2 DEF Info
  <2> QED
    BY <2>1, <2>2
<1>3. p # NoPeer
  BY <1>0, <1>2, EntryIsThere DEF Info, Times
<1> HIDE DEF p
<1> QED
  BY <1>0, <1>1, <1>2, <1>3 DEF TypeOK, Known

\* An attempt or a success changes an entry and leaves it there.
LEMMA Noting ==
    ASSUME TypeOK, NEW a \in Addrs, NEW p \in Info,
           peers' = IF a \in Known THEN [peers EXCEPT ![a] = p] ELSE peers
    PROVE  /\ Known' = Known
           /\ peers' \in [Addrs -> Info \cup {NoPeer}]
           /\ \A b \in Known \ {a} : peers'[b] = peers[b]
           /\ a \in Known => peers'[a] = p
<1>1. p # NoPeer
  BY EntryIsThere DEF TypeOK, Info, Times
<1> QED
  BY <1>1 DEF TypeOK, Known

LEMMA Attempting ==
    ASSUME TypeOK, DueOK, NEW a \in Dialled, MarkAttempt(a)
    PROVE  /\ Known' = Known
           /\ peers' \in [Addrs -> Info \cup {NoPeer}]
           /\ \A b \in Known \ {a} : peers'[b] = peers[b]
           /\ a \in Known => peers'[a].seed = peers[a].seed
<1>0. a \in Addrs /\ now \in Times /\ now \in Nat
  BY DiscoveryAssumption DEF TypeOK, Times
<1>1. CASE a \in Known
  <2> DEFINE p == [peers[a] EXCEPT !.attempts = @ + 1, !.tried = now]
  <2>1. peers[a].attempts < MaxRetryAttempts
    BY <1>1 DEF DueOK, ShouldRetry, MarkAttempt
  <2>2. p \in Info /\ p.seed = peers[a].seed
    <3>1. peers[a] \in Info
      BY <1>1, EntryType
    <3>2. peers[a].attempts + 1 \in 0..MaxRetryAttempts
      BY <1>1, <2>1, EntryType, Limits
    <3> QED
      BY <1>0, <3>1, <3>2 DEF Info
  <2>3. peers[a] \in Info /\ peers \in [Addrs -> Info \cup {NoPeer}]
    BY <1>1, EntryType DEF TypeOK
  <2>4. peers' = [peers EXCEPT ![a] = p]
    BY <1>0, <1>1, <2>3 DEF MarkAttempt, Info
  <2> HIDE DEF p
  <2> QED
    BY <1>0, <1>1, <2>2, <2>4, Noting
<1>2. CASE a \notin Known
  BY <1>2 DEF TypeOK, Known, MarkAttempt
<1> QED
  BY <1>1, <1>2

LEMMA Succeeding ==
    ASSUME TypeOK, MarkSuccess
    PROVE  /\ Known' = Known
           /\ peers' \in [Addrs -> Info \cup {NoPeer}]
           /\ \A b \in Known \ {dialling} : peers'[b] = peers[b]
           /\ dialling \in Known => /\ peers'[dialling].seed = peers[dialling].seed
                                    /\ peers'[dialling].attempts = 0
                                    /\ peers'[dialling].tried = NoTime
<1>0. dialling \in Addrs /\ now \in Times /\ now \in Nat
  BY DEF TypeOK, Times, MarkSuccess
<1>1. CASE dialling \in Known
  <2> DEFINE p == [peers[dialling] EXCEPT !.attempts = 0, !.tried = NoTime, !.seen = now]
  <2>2. /\ p \in Info /\ p.seed = peers[dialling].seed
        /\ p.attempts = 0 /\ p.tried = NoTime
    <3>1. peers[dialling] \in Info
      BY <1>1, EntryType
    <3>2. 0 \in 0..MaxRetryAttempts /\ NoTime \in Times \cup {NoTime}
      BY Limits
    <3> QED
      BY <1>0, <3>1, <3>2 DEF Info
  <2>3. peers[dialling] \in Info /\ peers \in [Addrs -> Info \cup {NoPeer}]
    BY <1>1, EntryType DEF TypeOK
  <2>4. peers' = [peers EXCEPT ![dialling] = p]
    BY <1>0, <1>1, <2>3 DEF MarkSuccess, Info
  <2> HIDE DEF p
  <2> QED
    BY <1>0, <1>1, <2>2, <2>4, Noting
<1>2. CASE dialling \notin Known
  BY <1>2 DEF TypeOK, Known, MarkSuccess
<1> QED
  BY <1>1, <1>2
-----------------------------------------------------------------------------
\* Attempts are counted only for entries that may be retried.
LEMMA TypeStep ==
    ASSUME TypeOK, DueOK, [Next]_vars
    PROVE  TypeOK'
<1> USE DEF TypeOK, Times, Info, cleaner, gossiper, dialler, control
<1>1. CASE TableSteps
  <2>1. CASE HandlersReturn
    BY <2>1 DEF HandlersReturn
  <2>2. ASSUME NEW a \in Heard, AddPeer(a)
        PROVE  TypeOK'
    <3>1. a \in Addrs
      BY DiscoveryAssumption
    <3> QED
      BY ZenonT(40), <2>2, <3>1, Adding, EmitAnnounces DEF AddPeer
  <2>3. ASSUME NEW a \in Heard, RemovePeer(a)
        PROVE  TypeOK'
    <3>1. a \in Addrs
      BY DiscoveryAssumption
    <3> QED
      BY <2>3, <3>1, Forgetting, EmitAnnounces DEF RemovePeer
  <2> QED
    BY <1>1, <2>1, <2>2, <2>3 DEF TableSteps
<1>2. CASE CleanerSteps
  <2>1. CASE DiscoveryTick
    BY <2>1 DEF DiscoveryTick
  <2>2. CASE DiscoveryExit
    BY <2>2 DEF DiscoveryExit
  <2>3. CASE CleanupLock
    BY <2>3, Limits DEF CleanupLock, Known
  <2>4. ASSUME NEW a \in Addrs, CleanupVisit(a)
        PROVE  TypeOK'
    <3>1. Drop(a) \/ UNCHANGED <<peers, event>>
      BY <2>4 DEF CleanupVisit
    <3>2. CASE Drop(a)
      BY <2>4, <3>2, Forgetting, EmitAnnounces DEF CleanupVisit, Drop
    <3>3. CASE UNCHANGED <<peers, event>>
      BY <2>4, <3>3 DEF CleanupVisit, Known
    <3> QED
      BY <3>1, <3>2, <3>3
  <2>5. CASE Trim
    <3>1. PICK a \in Addrs : Drop(a)
      BY <2>5 DEF Trim, Oldest, Removable, Known
    <3> QED
      BY <2>5, <3>1, Forgetting, EmitAnnounces DEF Trim, Drop
  <2>6. CASE CleanupUnlock
    BY <2>6 DEF CleanupUnlock, TooMany, Removable
  <2> QED
    BY <1>2, <2>1, <2>2, <2>3, <2>4, <2>5, <2>6 DEF CleanerSteps, Cleanup
<1>3. CASE GossipSteps
  <2>1. CASE GossipJitter
    BY <2>1 DEF GossipJitter, GossipStep, RestOfGossip
  <2>2. CASE GossipTick
    BY <2>2 DEF GossipTick, GossipStep, RestOfGossip
  <2>3. CASE GossipExit
    BY <2>3 DEF GossipExit, GossipStep, RestOfGossip
  <2>4. CASE GossipCopy
    BY <2>4 DEF GossipCopy, GossipStep, RestOfGossip, Known
  <2>5. CASE GossipSelect
    BY <2>5 DEF GossipSelect, RestOfGossip
  <2>6. CASE GossipSend
    BY <2>6 DEF GossipSend, GossipStep, RestOfGossip
  <2>7. CASE GossipRecord
    BY <2>7 DEF GossipRecord, GossipStep, RestOfGossip
  <2>8. CASE GossipTidy
    BY <2>8 DEF GossipTidy, GossipStep, RestOfGossip
  <2> QED
    BY <1>3, <2>1, <2>2, <2>3, <2>4, <2>5, <2>6, <2>7, <2>8 DEF GossipSteps, Gossip
<1>4. CASE ControlSteps
  <2>1. CASE Start
    BY <2>1 DEF Start, ControlStep, RestOfControl
  <2>2. CASE StartGossip
    BY <2>2 DEF StartGossip, ControlStep, RestOfControl
  <2>3. CASE Stop
    BY <2>3 DEF Stop, ControlStep, RestOfControl
  <2>4. CASE StopWaitGossip
    BY <2>4 DEF StopWaitGossip, ControlStep, RestOfControl
  <2>5. CASE StopSeed
    BY <2>5 DEF StopSeed, ControlStep, RestOfControl
  <2>6. CASE StopWait
    BY <2>6 DEF StopWait, ControlStep, RestOfControl
  <2> QED
    BY <1>4, <2>1, <2>2, <2>3, <2>4, <2>5, <2>6 DEF ControlSteps, GoesOn
<1>5. CASE DiallerSteps
  <2>1. CASE GetRetryablePeers
    BY <2>1 DEF GetRetryablePeers, RestOfDialler, Known
  <2>2. ASSUME NEW a \in Dialled, MarkAttempt(a)
        PROVE  TypeOK'
    <3>1. a \in Addrs
      BY DiscoveryAssumption
    <3> QED
      BY ZenonT(40), <2>2, <3>1, Attempting DEF MarkAttempt, RestOfDialler
  <2>3. CASE MarkSuccess
    BY <2>3, Succeeding DEF MarkSuccess, RestOfDialler
  <2>4. CASE DialFails
    BY <2>4 DEF DialFails, RestOfDialler
  <2> QED
    BY <1>5, <2>1, <2>2, <2>3, <2>4 DEF DiallerSteps
<1>6. CASE Tick
  <2>1. now \in Nat /\ now' = now + 1 /\ now' \in 0..MaxTime
    BY <1>6, Limits DEF Tick
  <2>2. 0..now \subseteq 0..now'
    BY <2>1
  <2>3. Info \subseteq Info'
    BY <2>2
  <2> QED
    BY <1>6, <2>1, <2>2, <2>3 DEF Tick
<1>7. CASE UNCHANGED vars
  BY <1>7 DEF vars
<1> QED
  BY StepCases, <1>1, <1>2, <1>3, <1>4, <1>5, <1>6, <1>7
-----------------------------------------------------------------------------
\* Handlers run under mu, and nobody changes the table meanwhile.
LEMMA LockStep ==
    ASSUME TypeOK, DueOK, LockOK, HeededOK, [Next]_vars
    PROVE  (LockOK /\ HeededOK)'
<1> USE DEF LockOK, HeededOK, Heeded, cleaner, gossiper, dialler, control
<1>1. CASE TableSteps
  <2>1. CASE HandlersReturn
    BY <2>1 DEF HandlersReturn, Known
  <2>2. ASSUME NEW a \in Heard, AddPeer(a)
        PROVE  (LockOK /\ HeededOK)'
    <3>1. a \in Addrs
      BY DiscoveryAssumption
    <3> QED
      BY <2>2, <3>1, Adding, EmitAnnounces DEF AddPeer
  <2>3. ASSUME NEW a \in Heard, RemovePeer(a)
        PROVE  (LockOK /\ HeededOK)'
    <3>1. a \in Addrs
      BY DiscoveryAssumption
    <3> QED
      BY <2>3, <3>1, Forgetting, EmitAnnounces DEF RemovePeer
  <2> QED
    BY <1>1, <2>1, <2>2, <2>3 DEF TableSteps
<1>2. CASE CleanerSteps
  <2>1. CASE DiscoveryTick
    BY <2>1 DEF DiscoveryTick, Known
  <2>2. CASE DiscoveryExit
    BY <2>2 DEF DiscoveryExit, Known
  <2>3. CASE CleanupLock
    BY <2>3 DEF CleanupLock, Known
  <2>4. ASSUME NEW a \in Addrs, CleanupVisit(a)
        PROVE  (LockOK /\ HeededOK)'
    <3>1. Drop(a) \/ UNCHANGED <<peers, event>>
      BY <2>4 DEF CleanupVisit
    <3>2. CASE Drop(a)
      BY <2>4, <3>2, Forgetting, EmitAnnounces DEF CleanupVisit, Drop
    <3>3. CASE UNCHANGED <<peers, event>>
      BY <2>4, <3>3 DEF CleanupVisit, Known
    <3> QED
      BY <3>1, <3>2, <3>3
  <2>5. CASE Trim
    <3>1. PICK a \in Addrs : Drop(a)
      BY <2>5 DEF Trim, Oldest, Removable, Known
    <3> QED
      BY <2>5, <3>1, Forgetting, EmitAnnounces DEF Trim, Drop
  <2>6. CASE CleanupUnlock
    BY <2>6 DEF CleanupUnlock, TooMany, Removable, Known
  <2> QED
    BY <1>2, <2>1, <2>2, <2>3, <2>4, <2>5, <2>6 DEF CleanerSteps, Cleanup
<1>3. CASE GossipSteps
  BY <1>3, GossipKeeps DEF RestOfGossip, Known
<1>4. CASE ControlSteps
  <2>1. CASE Start
    BY <2>1 DEF Start, ControlStep, RestOfControl, Known
  <2>2. CASE StartGossip
    BY <2>2 DEF StartGossip, ControlStep, RestOfControl, Known
  <2>3. CASE Stop
    BY <2>3 DEF Stop, ControlStep, RestOfControl, Known
  <2>4. CASE StopWaitGossip
    BY <2>4 DEF StopWaitGossip, ControlStep, RestOfControl, Known
  <2>5. CASE StopSeed
    BY <2>5 DEF StopSeed, ControlStep, RestOfControl, Known
  <2>6. CASE StopWait
    BY <2>6 DEF StopWait, ControlStep, RestOfControl, Known
  <2> QED
    BY <1>4, <2>1, <2>2, <2>3, <2>4, <2>5, <2>6 DEF ControlSteps, GoesOn
<1>5. CASE DiallerSteps
  <2>1. CASE GetRetryablePeers
    BY <2>1 DEF GetRetryablePeers, RestOfDialler, Known
  <2>2. ASSUME NEW a \in Dialled, MarkAttempt(a)
        PROVE  (LockOK /\ HeededOK)'
    <3>1. a \in Addrs
      BY DiscoveryAssumption
    <3> QED
      BY <2>2, <3>1, Attempting DEF MarkAttempt, RestOfDialler
  <2>3. CASE MarkSuccess
    BY <2>3, Succeeding DEF MarkSuccess, RestOfDialler
  <2>4. CASE DialFails
    BY <2>4 DEF DialFails, RestOfDialler, Known
  <2> QED
    BY <1>5, <2>1, <2>2, <2>3, <2>4 DEF DiallerSteps
<1>6. CASE Tick
  BY <1>6 DEF Tick, Known
<1>7. CASE UNCHANGED vars
  BY <1>7 DEF vars, Known
<1> QED
  BY StepCases, <1>1, <1>2, <1>3, <1>4, <1>5, <1>6, <1>7
-----------------------------------------------------------------------------
\* Loops end before Stop does, and only Start makes them.
LEMMA ControlStaysOK ==
    ASSUME TypeOK, LockOK, ControlOK, [Next]_vars
    PROVE  ControlOK'
<1> USE DEF TypeOK, LockOK, ControlOK, cleaner, gossiper, dialler, control
<1>1. CASE TableSteps
  <2>1. CASE HandlersReturn
    BY <2>1 DEF HandlersReturn
  <2>2. ASSUME NEW a \in Heard, AddPeer(a)
        PROVE  ControlOK'
    BY <2>2 DEF AddPeer, Emit
  <2>3. ASSUME NEW a \in Heard, RemovePeer(a)
        PROVE  ControlOK'
    BY <2>3 DEF RemovePeer, Emit
  <2> QED
    BY <1>1, <2>1, <2>2, <2>3 DEF TableSteps
<1>2. CASE CleanerSteps
  <2>1. CASE DiscoveryTick
    BY <2>1 DEF DiscoveryTick
  <2>2. CASE DiscoveryExit
    BY <2>2 DEF DiscoveryExit
  <2>3. CASE CleanupLock
    BY <2>3 DEF CleanupLock, Known
  <2>4. ASSUME NEW a \in Addrs, CleanupVisit(a)
        PROVE  ControlOK'
    BY <2>4 DEF CleanupVisit
  <2>5. CASE Trim
    BY <2>5 DEF Trim
  <2>6. CASE CleanupUnlock
    BY <2>6 DEF CleanupUnlock, TooMany, Removable
  <2> QED
    BY <1>2, <2>1, <2>2, <2>3, <2>4, <2>5, <2>6 DEF CleanerSteps, Cleanup
<1>3. CASE GossipSteps
  <2>1. CASE GossipJitter
    BY <2>1 DEF GossipJitter, GossipStep, RestOfGossip
  <2>2. CASE GossipTick
    BY <2>2 DEF GossipTick, GossipStep, RestOfGossip
  <2>3. CASE GossipExit
    BY <2>3 DEF GossipExit, GossipStep, RestOfGossip
  <2>4. CASE GossipCopy
    BY <2>4 DEF GossipCopy, GossipStep, RestOfGossip, Known
  <2>5. CASE GossipSelect
    BY <2>5 DEF GossipSelect, RestOfGossip
  <2>6. CASE GossipSend
    BY <2>6 DEF GossipSend, GossipStep, RestOfGossip
  <2>7. CASE GossipRecord
    BY <2>7 DEF GossipRecord, GossipStep, RestOfGossip
  <2>8. CASE GossipTidy
    BY <2>8 DEF GossipTidy, GossipStep, RestOfGossip
  <2> QED
    BY <1>3, <2>1, <2>2, <2>3, <2>4, <2>5, <2>6, <2>7, <2>8 DEF GossipSteps, Gossip
<1>4. CASE ControlSteps
  <2>1. CASE Start
    BY <2>1 DEF Start, ControlStep, RestOfControl
  <2>2. CASE StartGossip
    BY <2>2 DEF StartGossip, ControlStep, RestOfControl
  <2>3. CASE Stop
    BY <2>3 DEF Stop, ControlStep, RestOfControl
  <2>4. CASE StopWaitGossip
    BY <2>4 DEF StopWaitGossip, ControlStep, RestOfControl
  <2>5. CASE StopSeed
    BY <2>5 DEF StopSeed, ControlStep, RestOfControl
  <2>6. CASE StopWait
    BY <2>6 DEF StopWait, ControlStep, RestOfControl
  <2> QED
    BY <1>4, <2>1, <2>2, <2>3, <2>4, <2>5, <2>6 DEF ControlSteps, GoesOn
<1>5. CASE DiallerSteps
  BY <1>5, DiallerKeeps DEF RestOfDialler
<1>6. CASE Tick
  BY <1>6 DEF Tick
<1>7. CASE UNCHANGED vars
  BY <1>7 DEF vars
<1> QED
  BY StepCases, <1>1, <1>2, <1>3, <1>4, <1>5, <1>6, <1>7
-----------------------------------------------------------------------------
LEMMA BackoffType == \A n \in Nat : Backoff(n) \in Int
<1> SUFFICES ASSUME NEW n \in Nat
             PROVE  Backoff(n) \in Int
  OBVIOUS
<1>1. 2 ^ n \in Int
  OBVIOUS
<1>2. RetryBaseInterval * 2 ^ n \in Int
  BY <1>1, Limits
<1>3. \A d \in Int : Wrap(d) \in Int
  BY DiscoveryAssumption DEF Wrap
<1> QED
  BY <1>2, <1>3, Limits DEF Backoff

-----------------------------------------------------------------------------
\* What is to be dialled stays so while it waits.
LEMMA DueStep ==
    ASSUME TypeOK, DueOK, [Next]_vars
    PROVE  DueOK'
<1> USE DEF DueOK, cleaner, gossiper, dialler, control
<1>1. CASE TableSteps
  <2>1. CASE HandlersReturn
    BY <2>1 DEF HandlersReturn, Known, ShouldRetry
  <2>2. ASSUME NEW a \in Heard, AddPeer(a)
        PROVE  DueOK'
    <3>1. \A b \in due : b \in Known' => ShouldRetry(peers[b])'
      BY ZenonT(40), <2>2, Adding DEF AddPeer, ShouldRetry
    <3> QED
      BY <2>2, <3>1 DEF AddPeer
  <2>3. ASSUME NEW a \in Heard, RemovePeer(a)
        PROVE  DueOK'
    <3>1. a \in Addrs
      BY DiscoveryAssumption
    <3> QED
      BY <2>3, <3>1, Forgetting DEF RemovePeer, ShouldRetry
  <2> QED
    BY <1>1, <2>1, <2>2, <2>3 DEF TableSteps
<1>2. CASE CleanerSteps
  <2>1. CASE DiscoveryTick
    BY <2>1 DEF DiscoveryTick, Known, ShouldRetry
  <2>2. CASE DiscoveryExit
    BY <2>2 DEF DiscoveryExit, Known, ShouldRetry
  <2>3. CASE CleanupLock
    BY <2>3 DEF CleanupLock, Known, ShouldRetry
  <2>4. ASSUME NEW a \in Addrs, CleanupVisit(a)
        PROVE  DueOK'
    <3>1. CASE Drop(a)
      BY <2>4, <3>1, Forgetting DEF CleanupVisit, Drop, ShouldRetry
    <3>2. CASE UNCHANGED <<peers, event>>
      BY <2>4, <3>2 DEF CleanupVisit, Known, ShouldRetry
    <3> QED
      BY <2>4, <3>1, <3>2 DEF CleanupVisit
  <2>5. CASE Trim
    <3>1. PICK a \in Addrs : Drop(a)
      BY <2>5 DEF Trim, Oldest, Removable, Known
    <3> QED
      BY <2>5, <3>1, Forgetting DEF Trim, Drop, ShouldRetry
  <2>6. CASE CleanupUnlock
    BY <2>6 DEF CleanupUnlock, TooMany, Removable, Known, ShouldRetry
  <2> QED
    BY <1>2, <2>1, <2>2, <2>3, <2>4, <2>5, <2>6 DEF CleanerSteps, Cleanup
<1>3. CASE GossipSteps
  BY <1>3, GossipKeeps DEF RestOfGossip, Known, ShouldRetry
<1>4. CASE ControlSteps
  BY <1>4, ControlKeeps DEF RestOfControl, Known, ShouldRetry
<1>5. CASE DiallerSteps
  <2>1. CASE GetRetryablePeers
    <3>1. \A a \in Known : MaxRetryAttempts > peers[a].attempts => MaxRetryAttempts > 0
      BY EntryType, Limits
    <3> QED
      BY <2>1, <3>1, Limits, EntryType DEF GetRetryablePeers, Known, ShouldRetry, RestOfDialler
  <2>2. ASSUME NEW a \in Dialled, MarkAttempt(a)
        PROVE  DueOK'
    <3>1. a \in Addrs
      BY DiscoveryAssumption
    <3> QED
      BY <2>2, <3>1, Attempting DEF MarkAttempt, ShouldRetry, RestOfDialler
  <2>3. CASE MarkSuccess
    BY <2>3, Succeeding DEF MarkSuccess, ShouldRetry, RestOfDialler
  <2>4. CASE DialFails
    BY <2>4 DEF DialFails, RestOfDialler, Known, ShouldRetry
  <2> QED
    BY <1>5, <2>1, <2>2, <2>3, <2>4 DEF DiallerSteps
<1>6. CASE Tick
  <2> SUFFICES ASSUME NEW a \in due, a \in Known
               PROVE  MaxRetryAttempts > 0 /\ ShouldRetry(peers[a])'
    BY <1>6 DEF Tick, Known
  <2>1. now \in Nat /\ now' = now + 1
    BY <1>6, Limits DEF Tick, TypeOK
  <2>2. ShouldRetry(peers[a]) /\ MaxRetryAttempts > 0
    OBVIOUS
  <2>3. Backoff(peers[a].attempts) \in Int /\ peers[a].tried \in Nat \cup {NoTime}
    BY EntryType, BackoffType, <2>1
  <2>4. peers' = peers
    BY <1>6 DEF Tick
  <2> QED
    BY <2>1, <2>2, <2>3, <2>4 DEF ShouldRetry
<1>7. CASE UNCHANGED vars
  BY <1>7 DEF vars, Known, ShouldRetry
<1> QED
  BY StepCases, <1>1, <1>2, <1>3, <1>4, <1>5, <1>6, <1>7
-----------------------------------------------------------------------------
\* Callers add no seeds.
LEMMA SeedsStep ==
    ASSUME TypeOK, DueOK, SeedsOK, [Next]_vars
    PROVE  SeedsOK'
<1> USE DEF SeedsOK, cleaner, gossiper, dialler, control
<1>1. CASE TableSteps
  <2>1. CASE HandlersReturn
    BY <2>1 DEF HandlersReturn, Known
  <2>2. ASSUME NEW a \in Heard, AddPeer(a)
        PROVE  SeedsOK'
    BY <2>2, Adding DEF AddPeer
  <2>3. ASSUME NEW a \in Heard, RemovePeer(a)
        PROVE  SeedsOK'
    <3>1. a \in Addrs
      BY DiscoveryAssumption
    <3> QED
      BY <2>3, <3>1, Forgetting DEF RemovePeer
  <2> QED
    BY <1>1, <2>1, <2>2, <2>3 DEF TableSteps
<1>2. CASE CleanerSteps
  <2>1. CASE DiscoveryTick
    BY <2>1 DEF DiscoveryTick, Known
  <2>2. CASE DiscoveryExit
    BY <2>2 DEF DiscoveryExit, Known
  <2>3. CASE CleanupLock
    BY <2>3 DEF CleanupLock, Known
  <2>4. ASSUME NEW a \in Addrs, CleanupVisit(a)
        PROVE  SeedsOK'
    <3>1. CASE Drop(a)
      BY <2>4, <3>1, Forgetting DEF CleanupVisit, Drop
    <3>2. CASE UNCHANGED <<peers, event>>
      BY <2>4, <3>2 DEF CleanupVisit, Known
    <3> QED
      BY <2>4, <3>1, <3>2 DEF CleanupVisit
  <2>5. CASE Trim
    <3>1. PICK a \in Addrs : Drop(a)
      BY <2>5 DEF Trim, Oldest, Removable, Known
    <3> QED
      BY <2>5, <3>1, Forgetting DEF Trim, Drop
  <2>6. CASE CleanupUnlock
    BY <2>6 DEF CleanupUnlock, Known
  <2> QED
    BY <1>2, <2>1, <2>2, <2>3, <2>4, <2>5, <2>6 DEF CleanerSteps, Cleanup
<1>3. CASE GossipSteps
  BY <1>3, GossipKeeps DEF RestOfGossip, Known
<1>4. CASE ControlSteps
  BY <1>4, ControlKeeps DEF RestOfControl, Known
<1>5. CASE DiallerSteps
  <2>1. CASE GetRetryablePeers
    BY <2>1 DEF GetRetryablePeers, RestOfDialler, Known
  <2>2. ASSUME NEW a \in Dialled, MarkAttempt(a)
        PROVE  SeedsOK'
    BY <2>2, Attempting DEF MarkAttempt, RestOfDialler
  <2>3. CASE MarkSuccess
    BY <2>3, Succeeding DEF MarkSuccess, RestOfDialler
  <2>4. CASE DialFails
    BY <2>4 DEF DialFails, RestOfDialler, Known
  <2> QED
    BY <1>5, <2>1, <2>2, <2>3, <2>4 DEF DiallerSteps
<1>6. CASE Tick
  BY <1>6 DEF Tick, Known
<1>7. CASE UNCHANGED vars
  BY <1>7 DEF vars, Known
<1> QED
  BY StepCases, <1>1, <1>2, <1>3, <1>4, <1>5, <1>6, <1>7
-----------------------------------------------------------------------------
\* The limit that WithinLimit speaks of.
Limit == IF MaxPeers > Cardinality(Seeds) THEN MaxPeers ELSE Cardinality(Seeds)

LEMMA LimitType == Limit \in Nat /\ Cardinality(Seeds) <= Limit /\ MaxPeers <= Limit
<1>1. IsFiniteSet(Seeds)
  BY FS_Subset, DiscoveryAssumption
<1>2. Cardinality(Seeds) \in Nat
  BY <1>1, FS_CardinalityType
<1> QED
  BY <1>2, Limits DEF Limit

\* What is left of the table without the addresses that are fresh only shrinks.
LEMMA NoMoreStay ==
    ASSUME WithinLimit, (Known \ fresh)' \subseteq Known \ fresh
    PROVE  WithinLimit'
<1>1. IsFiniteSet(Known \ fresh)
  BY FS_Subset, DiscoveryAssumption DEF Known
<1>2. Cardinality((Known \ fresh)') <= Cardinality(Known \ fresh)
  BY <1>1, FS_Subset
<1>3. IsFiniteSet((Known \ fresh)')
  BY <1>1, FS_Subset
<1>4. Cardinality((Known \ fresh)') \in Nat /\ Cardinality(Known \ fresh) \in Nat
  BY <1>1, <1>3, FS_CardinalityType
<1>5. Cardinality(Known \ fresh) <= Limit
  BY DEF WithinLimit, Limit
<1>6. Cardinality((Known \ fresh)') <= Limit
  BY <1>2, <1>4, <1>5, LimitType
<1> QED
  BY <1>6 DEF WithinLimit, Limit

-----------------------------------------------------------------------------
\* A cleanup ends with no more than the limit, and nothing else adds to old entries.
LEMMA SizeStep ==
    ASSUME TypeOK, DueOK, SeedsOK, WithinLimit, [Next]_vars
    PROVE  WithinLimit'
<1> USE DEF cleaner, gossiper, dialler, control
<1>1. CASE TableSteps
  <2>1. CASE HandlersReturn
    BY <2>1 DEF HandlersReturn, Known, WithinLimit
  <2>2. ASSUME NEW a \in Heard, AddPeer(a)
        PROVE  WithinLimit'
    <3>1. (Known \ fresh)' \subseteq Known \ fresh
      BY <2>2, Adding DEF AddPeer
    <3> QED
      BY <3>1, NoMoreStay
  <2>3. ASSUME NEW a \in Heard, RemovePeer(a)
        PROVE  WithinLimit'
    <3>1. a \in Addrs
      BY DiscoveryAssumption
    <3> QED
      BY <2>3, NoMoreStay, <3>1, Forgetting DEF RemovePeer
  <2> QED
    BY <1>1, <2>1, <2>2, <2>3 DEF TableSteps
<1>2. CASE CleanerSteps
  <2>1. CASE DiscoveryTick
    BY <2>1 DEF DiscoveryTick, Known, WithinLimit
  <2>2. CASE DiscoveryExit
    BY <2>2 DEF DiscoveryExit, Known, WithinLimit
  <2>3. CASE CleanupLock
    BY <2>3 DEF CleanupLock, Known, WithinLimit
  <2>4. ASSUME NEW a \in Addrs, CleanupVisit(a)
        PROVE  WithinLimit'
    <3>1. CASE Drop(a)
      BY <2>4, NoMoreStay, <3>1, Forgetting DEF CleanupVisit, Drop
    <3>2. CASE UNCHANGED <<peers, event>>
      BY <2>4, NoMoreStay, <3>2 DEF CleanupVisit, Known
    <3> QED
      BY <2>4, NoMoreStay, <3>1, <3>2 DEF CleanupVisit
  <2>5. CASE Trim
    <3>1. PICK a \in Addrs : Drop(a)
      BY <2>5, NoMoreStay DEF Trim, Oldest, Removable, Known
    <3> QED
      BY <2>5, NoMoreStay, <3>1, Forgetting DEF Trim, Drop
  <2>6. CASE CleanupUnlock
    <3>1. Known' = Known /\ fresh' = {}
      BY <2>6 DEF CleanupUnlock, Known
    <3>2. IsFiniteSet(Known)
      BY FS_Subset, DiscoveryAssumption DEF Known
    <3>3. Cardinality(Known) \in Nat
      BY <3>2, FS_CardinalityType
    <3>4. Cardinality(Known) <= Limit
      <4>1. CASE Removable # {}
        BY <2>6, <3>3, <4>1, LimitType, Limits DEF CleanupUnlock, TooMany
      <4>2. CASE Removable = {}
        <5>1. Known \subseteq Seeds
          BY <4>2, EntryType DEF Removable, SeedsOK
        <5>2. IsFiniteSet(Seeds)
          BY FS_Subset, DiscoveryAssumption
        <5>3. Cardinality(Known) <= Cardinality(Seeds) /\ Cardinality(Seeds) \in Nat
          BY <5>1, <5>2, FS_Subset, FS_CardinalityType
        <5> QED
          BY <3>3, <5>3, LimitType
      <4> QED
        BY <4>1, <4>2
    <3>5. (Known \ fresh)' = Known
      BY <3>1
    <3> QED
      BY <3>4, <3>5 DEF WithinLimit, Limit
  <2> QED
    BY <1>2, <2>1, <2>2, <2>3, <2>4, <2>5, <2>6 DEF CleanerSteps, Cleanup
<1>3. CASE GossipSteps
  BY <1>3, GossipKeeps DEF RestOfGossip, Known, WithinLimit
<1>4. CASE ControlSteps
  BY <1>4, ControlKeeps DEF RestOfControl, Known, WithinLimit
<1>5. CASE DiallerSteps
  <2>1. CASE GetRetryablePeers
    BY <2>1 DEF GetRetryablePeers, RestOfDialler, Known, WithinLimit
  <2>2. ASSUME NEW a \in Dialled, MarkAttempt(a)
        PROVE  WithinLimit'
    BY <2>2, NoMoreStay, Attempting DEF MarkAttempt, RestOfDialler
  <2>3. CASE MarkSuccess
    BY <2>3, NoMoreStay, Succeeding DEF MarkSuccess, RestOfDialler
  <2>4. CASE DialFails
    BY <2>4 DEF DialFails, RestOfDialler, Known, WithinLimit
  <2> QED
    BY <1>5, <2>1, <2>2, <2>3, <2>4 DEF DiallerSteps
<1>6. CASE Tick
  BY <1>6 DEF Tick, Known, WithinLimit
<1>7. CASE UNCHANGED vars
  BY <1>7 DEF vars, Known, WithinLimit
<1> QED
  BY StepCases, <1>1, <1>2, <1>3, <1>4, <1>5, <1>6, <1>7
-----------------------------------------------------------------------------
\* The cache forgets only what is more than twice as old as it has to be.
LEMMA CacheStep ==
    ASSUME TypeOK, CacheOK, [Next]_vars
    PROVE  CacheOK'
<1> USE DEF CacheOK, cleaner, gossiper, dialler, control
<1>1. CASE TableSteps
  <2>1. CASE HandlersReturn
    BY <2>1 DEF HandlersReturn
  <2>2. ASSUME NEW a \in Heard, AddPeer(a)
        PROVE  CacheOK'
    BY <2>2 DEF AddPeer
  <2>3. ASSUME NEW a \in Heard, RemovePeer(a)
        PROVE  CacheOK'
    BY <2>3 DEF RemovePeer
  <2> QED
    BY <1>1, <2>1, <2>2, <2>3 DEF TableSteps
<1>2. CASE CleanerSteps
  <2>1. CASE DiscoveryTick
    BY <2>1 DEF DiscoveryTick
  <2>2. CASE DiscoveryExit
    BY <2>2 DEF DiscoveryExit
  <2>3. CASE CleanupLock
    BY <2>3 DEF CleanupLock
  <2>4. ASSUME NEW a \in Addrs, CleanupVisit(a)
        PROVE  CacheOK'
    BY <2>4 DEF CleanupVisit
  <2>5. CASE Trim
    BY <2>5 DEF Trim
  <2>6. CASE CleanupUnlock
    BY <2>6 DEF CleanupUnlock
  <2> QED
    BY <1>2, <2>1, <2>2, <2>3, <2>4, <2>5, <2>6 DEF CleanerSteps, Cleanup
<1>3. CASE GossipSteps
  <2>1. CASE GossipJitter
    BY <2>1 DEF GossipJitter, GossipStep, RestOfGossip
  <2>2. CASE GossipTick
    BY <2>2 DEF GossipTick, GossipStep, RestOfGossip
  <2>3. CASE GossipExit
    BY <2>3 DEF GossipExit, GossipStep, RestOfGossip
  <2>4. CASE GossipCopy
    BY <2>4 DEF GossipCopy, GossipStep, RestOfGossip
  <2>5. CASE GossipSelect
    <3>1. \A a \in batch' : recentGossip[a] = NoTime \/ now - recentGossip[a] > GossipTTL
      BY <2>5 DEF GossipSelect
    <3> QED
      BY <2>5, <3>1 DEF GossipSelect, RestOfGossip, TypeOK
  <2>6. CASE GossipSend
    BY <2>6 DEF GossipSend, GossipStep, RestOfGossip
  <2>7. CASE GossipRecord
    BY <2>7, DiscoveryAssumption DEF GossipRecord, GossipStep, RestOfGossip, TypeOK
  <2>8. CASE GossipTidy
    <3> SUFFICES ASSUME NEW a \in Addrs, recentGossip'[a] # recentGossip[a]
                 PROVE  lastGossip[a] = recentGossip[a] /\ now - lastGossip[a] > GossipTTL
      BY <2>8 DEF GossipTidy, GossipStep, RestOfGossip
    <3>1. recentGossip[a] # NoTime /\ now - recentGossip[a] > GossipTTL * 2
      BY <2>8 DEF GossipTidy
    <3>2. now \in Nat /\ recentGossip[a] \in Nat
      BY <3>1, Limits DEF TypeOK, Times
    <3> QED
      BY <3>1, <3>2, Limits
  <2> QED
    BY <1>3, <2>1, <2>2, <2>3, <2>4, <2>5, <2>6, <2>7, <2>8 DEF GossipSteps, Gossip
<1>4. CASE ControlSteps
  <2>1. CASE Start
    BY <2>1 DEF Start, RestOfControl
  <2>2. CASE StartGossip
    BY <2>2 DEF StartGossip, RestOfControl
  <2>3. CASE Stop
    BY <2>3 DEF Stop, RestOfControl
  <2>4. CASE StopWaitGossip
    BY <2>4 DEF StopWaitGossip, RestOfControl
  <2>5. CASE StopSeed
    BY <2>5 DEF StopSeed, RestOfControl
  <2>6. CASE StopWait
    BY <2>6 DEF StopWait, RestOfControl
  <2> QED
    BY <1>4, <2>1, <2>2, <2>3, <2>4, <2>5, <2>6 DEF ControlSteps, GoesOn
<1>5. CASE DiallerSteps
  BY <1>5, DiallerKeeps DEF RestOfDialler
<1>6. CASE Tick
  <2>1. now \in Nat /\ now' = now + 1
    BY <1>6, Limits DEF Tick, TypeOK
  <2>2. \A a \in Addrs : lastGossip[a] \in Nat \cup {NoTime}
    BY <2>1 DEF TypeOK, Times
  <2> QED
    BY <1>6, <2>1, <2>2, Limits DEF Tick
<1>7. CASE UNCHANGED vars
  BY <1>7 DEF vars
<1> QED
  BY StepCases, <1>1, <1>2, <1>3, <1>4, <1>5, <1>6, <1>7
-----------------------------------------------------------------------------
LEMMA Initially == Init => IInv
<1> SUFFICES ASSUME Init
             PROVE  IInv
  OBVIOUS
<1>1. \A a \in Seeds : peers[a] = [seed |-> TRUE, seen |-> 0, attempts |-> 0, tried |-> NoTime]
  BY DiscoveryAssumption DEF Init
<1>2. 0 \in 0..now /\ 0 \in 0..MaxRetryAttempts /\ now = 0
  BY Limits DEF Init
<1>3. [seed |-> TRUE, seen |-> 0, attempts |-> 0, tried |-> NoTime] \in Info
  BY <1>2 DEF Info, Times
<1>4. Known = Seeds
  <2>1. \A a \in Seeds : peers[a] # NoPeer
    BY <1>1, <1>2, <1>3, EntryIsThere DEF Info, Times
  <2> QED
    BY <2>1, DiscoveryAssumption DEF Init, Known
<1>5. TypeOK
  <2>1. peers \in [Addrs -> Info \cup {NoPeer}]
    BY <1>3 DEF Init
  <2>2. /\ cleanAt \in Times /\ now \in 0..MaxTime
        /\ recentGossip \in [Addrs -> Times \cup {NoTime}]
        /\ lastGossip \in [Addrs -> Times \cup {NoTime}]
    BY <1>2, Limits DEF Init, Times
  <2> QED
    BY <2>1, <2>2, DiscoveryAssumption DEF Init, TypeOK
<1>6. LockOK /\ HeededOK /\ ControlOK /\ DueOK /\ SeedsOK /\ CacheOK
  <2>1. LockOK /\ ControlOK
    BY DEF Init, LockOK, ControlOK
  <2>2. HeededOK /\ DueOK /\ SeedsOK
    BY <1>4 DEF Init, HeededOK, Heeded, DueOK, SeedsOK
  <2>3. \A a \in Addrs : recentGossip[a] = NoTime /\ lastGossip[a] = NoTime
    BY DEF Init
  <2>4. CacheOK
    BY <2>3 DEF CacheOK
  <2> QED
    BY <2>1, <2>2, <2>4
<1>7. WithinLimit
  BY <1>4, LimitType DEF Init, WithinLimit, Limit
<1> QED
  BY <1>5, <1>6, <1>7 DEF IInv

LEMMA Inductive == IInv /\ [Next]_vars => IInv'
BY TypeStep, LockStep, ControlStaysOK, DueStep, SeedsStep, SizeStep, CacheStep DEF IInv

LEMMA Invariance == Spec => []IInv
BY Initially, Inductive, PTL DEF Spec

\* Type correctness for any addresses, limits and times, an address never being
\* dialled more than MaxRetryAttempts times without success included.
THEOREM TypeCorrect == Spec => []TypeOK
<1>1. IInv => TypeOK
  BY DEF IInv
<1> QED
  BY Invariance, <1>1, PTL

\* The table exceeds its limit only by what was discovered since the last cleanup.
THEOREM SizeStaysBounded == Spec => []SizeBounded
<1>1. IInv => SizeBounded
  BY DEF IInv, SizeBounded
<1> QED
  BY Invariance, <1>1, PTL

\* Whoever follows the events knows the table whenever mu is free.
THEOREM ListenersStayInStep == Spec => []ListenerInStep
<1>1. IInv => ListenerInStep
  BY DEF IInv, ListenerInStep, LockOK, HeededOK, Heeded
<1> QED
  BY Invariance, <1>1, PTL

\* When Stop has returned neither loop is there.
THEOREM StopSilences == Spec => []QuietWhenStopped
<1>1. IInv => QuietWhenStopped
  BY DEF IInv, QuietWhenStopped, ControlOK
<1> QED
  BY Invariance, <1>1, PTL

\* No address is gossiped again within GossipTTL of being recorded.
THEOREM GossipStaysSpaced == Spec => GossipSpaced
<1>1. IInv /\ [Next]_vars =>
        [gpc = "send" /\ gpc' = "record" =>
            \A a \in batch : lastGossip[a] = NoTime \/ now - lastGossip[a] > GossipTTL]_vars
  BY DEF IInv, CacheOK, TypeOK
<1> QED
  BY Invariance, <1>1, PTL DEF Spec, GossipSpaced

\* The longest wait before MaxBackoff is applied is still a Duration.
NoOverflow == \A n \in 0..MaxRetryAttempts : RetryBaseInterval * 2 ^ n \in 0..DurationLimit - 1

LEMMA BackoffValue ==
    ASSUME NoOverflow, NEW n \in 0..MaxRetryAttempts
    PROVE  LET wait == RetryBaseInterval * 2 ^ n
           IN  Backoff(n) = IF wait < MaxBackoff THEN wait ELSE MaxBackoff
<1> DEFINE wait == RetryBaseInterval * 2 ^ n
<1>1. wait \in 0..DurationLimit - 1
  BY DEF NoOverflow
<1>2. Wrap(wait) = wait
  <2> HIDE DEF wait
  <2> QED
    BY <1>1, DiscoveryAssumption DEF Wrap
<1>3. Backoff(n) = IF wait > MaxBackoff THEN MaxBackoff ELSE wait
  BY <1>2 DEF Backoff
<1>4. wait \in Nat
  BY <1>1
<1> HIDE DEF wait
<1>5. (IF wait > MaxBackoff THEN MaxBackoff ELSE wait)
        = IF wait < MaxBackoff THEN wait ELSE MaxBackoff
  BY <1>4, Limits
<1> QED
  BY <1>3, <1>5 DEF wait

\* Where no wait overflows, attempts on an entry keep their distance.
THEOREM AttemptsStaySpaced == NoOverflow => (Spec => AttemptsSpaced)
<1> SUFFICES ASSUME NoOverflow
             PROVE  Spec => AttemptsSpaced
  OBVIOUS
<1> DEFINE Wait(a) == RetryBaseInterval * 2 ^ peers[a].attempts
           Spaced(a) ==
               (dialling = NoAddr /\ dialling' = a /\ a \in Known /\ peers[a].tried # NoTime)
                  => now - peers[a].tried >= IF Wait(a) < MaxBackoff THEN Wait(a) ELSE MaxBackoff
<1>1. ASSUME IInv, Next, NEW a \in Addrs,
             dialling = NoAddr, dialling' = a, a \in Known, peers[a].tried # NoTime
      PROVE  now - peers[a].tried >= IF Wait(a) < MaxBackoff THEN Wait(a) ELSE MaxBackoff
  <2>1. MarkAttempt(a)
    <3>1. ~(UNCHANGED dialling)
      BY <1>1, DiscoveryAssumption
    <3>2. CASE DiallerSteps
      BY <1>1, <3>1, <3>2, DiscoveryAssumption
         DEF DiallerSteps, GetRetryablePeers, MarkSuccess, DialFails, MarkAttempt
    <3>3. ~TableSteps /\ ~CleanerSteps /\ ~Tick
      BY <3>1 DEF TableSteps, HandlersReturn, AddPeer, RemovePeer, CleanerSteps, DiscoveryTick,
                  DiscoveryExit, Cleanup, CleanupLock, CleanupVisit, Trim, CleanupUnlock, Tick,
                  dialler
    <3>4. ~GossipSteps /\ ~ControlSteps
      BY <3>1, GossipKeeps, ControlKeeps DEF RestOfGossip, RestOfControl, dialler
    <3> QED
      BY <1>1, <3>2, <3>3, <3>4 DEF Next, TableSteps, CleanerSteps, GossipSteps,
                                   ControlSteps, DiallerSteps
  <2>2. ShouldRetry(peers[a])
    BY <1>1, <2>1 DEF MarkAttempt, IInv, DueOK
  <2>3. now - peers[a].tried >= Backoff(peers[a].attempts)
    BY <1>1, <2>2 DEF ShouldRetry
  <2>4. peers[a].attempts \in 0..MaxRetryAttempts
    BY <1>1, EntryType DEF IInv
  <2> QED
    BY <2>3, <2>4, BackoffValue
<1>2. IInv /\ [Next]_vars => [\A a \in Addrs : Spaced(a)]_vars
  BY <1>1
<1>3. IInv /\ [Next]_vars =>
        [\A a \in Addrs :
            LET p == peers[a]
                wait == RetryBaseInterval * 2 ^ p.attempts
            IN  (dialling = NoAddr /\ dialling' = a /\ a \in Known /\ p.tried # NoTime)
                  => now - p.tried >= IF wait < MaxBackoff THEN wait ELSE MaxBackoff]_vars
  BY <1>2
<1> QED
  BY Invariance, <1>3, PTL DEF Spec, AttemptsSpaced
=============================================================================
