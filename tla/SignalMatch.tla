---------------------------- MODULE SignalMatch ----------------------------
(***************************************************************************)
(* What co_await subscription.match(key) promises (src/daemon/async.h): a  *)
(* signal resumes one coroutine that waits for one of its keys, if there   *)
(* is any, and it is gone.  A coroutine waits until that happens.          *)
(***************************************************************************)
CONSTANTS
    Coroutines,
    Signals,     \* a signal is the set of the keys it carries: its job and its unit
    NoKey,       \* the coroutine does not wait
    NoSignal     \* nothing is being dispatched

Keys == UNION Signals

VARIABLES
    waits,       \* waits[c]: the key coroutine c waits for, or NoKey
    signal       \* the signal that is being dispatched, or NoSignal

vars == <<waits, signal>>

Init ==
    /\ waits = [c \in Coroutines |-> NoKey]
    /\ signal = NoSignal

Await(c, k) ==
    /\ signal = NoSignal
    /\ waits[c] = NoKey
    /\ waits' = [waits EXCEPT ![c] = k]
    /\ UNCHANGED signal

Arrive(s) ==
    /\ signal = NoSignal
    /\ signal' = s
    /\ UNCHANGED waits

Resume(c) ==
    /\ signal # NoSignal
    /\ waits[c] \in signal
    /\ waits' = [waits EXCEPT ![c] = NoKey]
    /\ signal' = NoSignal

Ignore ==
    /\ signal # NoSignal
    /\ \A c \in Coroutines : waits[c] \notin signal
    /\ signal' = NoSignal
    /\ UNCHANGED waits

Dispatched == Ignore \/ \E c \in Coroutines : Resume(c)

Next ==
    \/ \E c \in Coroutines, k \in Keys : Await(c, k)
    \/ \E s \in Signals : Arrive(s)
    \/ Dispatched

Spec == Init /\ [][Next]_vars

FairSpec == Spec /\ WF_vars(Dispatched)
=============================================================================
