----------------------------- MODULE EntityLock -----------------------------
(***************************************************************************)
(* What the per-entity queue of src/daemon/entity.cpp promises its users:  *)
(* for every entity name at most one coroutine owns the token, a free      *)
(* token is taken at once, and a token given back while others wait goes   *)
(* straight to one of them.  Which waiter is served is left open here; the *)
(* order is a property of the implementation, module EntityQueue.          *)
(***************************************************************************)

CONSTANTS
    Names,       \* entity names
    Coroutines,  \* coroutine frames that may ask for a token
    None         \* "no owner"

VARIABLES
    owner,       \* owner[n]: the coroutine that owns the token of n, or None
    waiters      \* waiters[n]: the coroutines suspended until n is free

lockVars == <<owner, waiters>>

Idle(c) == \A n \in Names : owner[n] # c /\ c \notin waiters[n]

Init ==
    /\ owner = [n \in Names |-> None]
    /\ waiters = [n \in Names |-> {}]

Acquire(c, n) ==
    /\ Idle(c)
    /\ owner[n] = None
    /\ owner' = [owner EXCEPT ![n] = c]
    /\ UNCHANGED waiters

Wait(c, n) ==
    /\ Idle(c)
    /\ owner[n] # None
    /\ waiters' = [waiters EXCEPT ![n] = @ \cup {c}]
    /\ UNCHANGED owner

GiveBack(c, n) ==
    /\ owner[n] = c
    /\ waiters[n] = {}
    /\ owner' = [owner EXCEPT ![n] = None]
    /\ UNCHANGED waiters

HandOver(c, d, n) ==
    /\ owner[n] = c
    /\ d \in waiters[n]
    /\ owner' = [owner EXCEPT ![n] = d]
    /\ waiters' = [waiters EXCEPT ![n] = @ \ {d}]

Next ==
    \E n \in Names, c \in Coroutines :
        \/ Acquire(c, n)
        \/ Wait(c, n)
        \/ GiveBack(c, n)
        \/ \E d \in Coroutines : HandOver(c, d, n)

Spec == Init /\ [][Next]_lockVars
=============================================================================
