----------------------------- MODULE KeySetSpec -----------------------------
(***************************************************************************)
(* What a map shared by several goroutines promises about the keys in it:  *)
(* a Put and a Delete take effect at one moment between call and return,   *)
(* and an answer was true at such a moment.  LockFreeHashMap               *)
(* (pkg/ds/lockfree/hashmap.go) implements it.                             *)
(*                                                                         *)
(* Range and Clear promise less than one moment for all keys: each key is  *)
(* reported or left out as it was at some moment of the call, and each key *)
(* was out of the map at some moment of a Clear.                           *)
(***************************************************************************)
CONSTANTS
    Procs,          \* goroutines that use the map
    Keys,
    NoKey           \* the argument of an operation on all keys

VARIABLES
    keys,           \* the keys in the map
    op,             \* operation each goroutine has called and that has not
                    \* yet taken effect
    key,            \* its argument
    answer,         \* the keys the last operation has found: all that Range
                    \* reports, none or its own for Get and Delete
    was             \* <<k, b>>: since the call, k has been in the map (b) or
                    \* out of it

specVars == <<keys, op, key, answer, was>>

\* Operations whose answer may be about any moment since the call.
Readers == {"get", "delete", "range", "clear"}

\* The keys an operation is about.
About(k) == IF k = NoKey THEN Keys ELSE {k}

State(S, K) == {<<k, k \in S>> : k \in K}

\* What the callers have seen once the map holds the keys S.
Shown(S) == [p \in Procs |-> IF op[p] \in Readers
                             THEN was[p] \cup State(S, About(key[p])) ELSE {}]

Call(p, o, k) ==
    /\ op[p] = "none"
    /\ op' = [op EXCEPT ![p] = o]
    /\ key' = [key EXCEPT ![p] = k]
    /\ answer' = [answer EXCEPT ![p] = {}]
    /\ was' = [was EXCEPT ![p] = IF o \in Readers THEN State(keys, About(k)) ELSE {}]
    /\ UNCHANGED keys

\* p's operation o takes effect, leaves the keys S and answers a.
Takes(p, o, S, a) ==
    /\ op[p] = o
    /\ keys' = S
    /\ op' = [op EXCEPT ![p] = "none"]
    /\ key' = [key EXCEPT ![p] = NoKey]
    /\ answer' = [answer EXCEPT ![p] = a]
    /\ was' = [Shown(S) EXCEPT ![p] = {}]

Put(p) == Takes(p, "put", keys \cup {key[p]}, {})

Delete(p) == key[p] \in keys /\ Takes(p, "delete", keys \ {key[p]}, {key[p]})

DeleteNothing(p) == <<key[p], FALSE>> \in was[p] /\ Takes(p, "delete", keys, {})

\* Get and Has.
Get(p) == \E S \in SUBSET {key[p]} :
    <<key[p], key[p] \in S>> \in was[p] /\ Takes(p, "get", keys, S)

Range(p) == \E S \in SUBSET Keys :
    /\ \A k \in Keys : <<k, k \in S>> \in was[p]
    /\ Takes(p, "range", keys, S)

\* The caller's function has ended it.
RangeStop(p) == Takes(p, "range", keys, {})

\* Clear takes some keys out and goes on.
ClearSome(p) ==
    /\ op[p] = "clear"
    /\ \E S \in SUBSET keys : keys' = S /\ was' = Shown(S)
    /\ UNCHANGED <<op, key, answer>>

ClearEnd(p) ==
    /\ \A k \in Keys : <<k, FALSE>> \in was[p]
    /\ Takes(p, "clear", keys, {})

Init ==
    /\ keys = {}
    /\ op = [p \in Procs |-> "none"]
    /\ key = [p \in Procs |-> NoKey]
    /\ answer = [p \in Procs |-> {}]
    /\ was = [p \in Procs |-> {}]

Next == \E p \in Procs :
    \/ \E o \in {"put", "get", "delete"}, k \in Keys : Call(p, o, k)
    \/ \E o \in {"range", "clear"} : Call(p, o, NoKey)
    \/ Put(p)
    \/ Delete(p)
    \/ DeleteNothing(p)
    \/ Get(p)
    \/ Range(p)
    \/ RangeStop(p)
    \/ ClearSome(p)
    \/ ClearEnd(p)

Spec == Init /\ [][Next]_specVars
=============================================================================
