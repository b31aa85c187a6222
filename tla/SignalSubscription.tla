------------------------- MODULE SignalSubscription -------------------------
(***************************************************************************)
(* signal_subscription (src/daemon/async.h): a coroutine owns a            *)
(* subscription, a local of its frame, with a vector of one-shot callbacks *)
(* that match() fills.  sd-bus offers a signal to one subscription after   *)
(* another until one of them reports that it has handled it.  A callback   *)
(* that matches resumes the coroutine, which may end, and with it the      *)
(* vector the dispatcher is iterating over, or may extend that vector, and *)
(* other coroutines may be resumed meanwhile.                              *)
(***************************************************************************)
EXTENDS Naturals, Sequences

CONSTANTS
    Coroutines,
    Signals,     \* a signal is the set of the keys it carries: its job and its unit
    NoKey, NoSignal, NoOne,
    MaxMatches   \* bound on the match() calls of one subscription

Keys == UNION Signals

ASSUME SignalAssumption ==
    /\ NoKey \notin Keys
    /\ NoSignal \notin Signals
    /\ NoOne \notin Coroutines
    /\ MaxMatches \in Nat

VARIABLES
    subs,        \* the coroutines with a live subscription
    vec,         \* vec[c]: the callbacks of c's subscription
    turn,        \* turn[c]: how many match() calls c has made on it
    waits,       \* waits[c]: the key c is suspended for, or NoKey
    phase,       \* where the dispatcher is
    signal,      \* the signal it dispatches
    offered,     \* the subscriptions that have seen it
    sub,         \* the subscription it is at, and
    it,          \* the position in its vector
    elem,        \* the callback that was swapped out of the vector
    stale        \* have iterators into the vector become invalid

coroVars == <<subs, vec, turn, waits>>
loopVars == <<phase, signal, offered, sub, it, elem>>
vars     == <<coroVars, loopVars, stale>>

(* A callback is known by its key and by the match() call whose awaitable it points to. *)
Callbacks   == [key : Keys, turn : 1..MaxMatches]
Callback(k, t) == [key |-> k, turn |-> t]
Empty       == [key |-> NoKey, turn |-> 0]

Init ==
    /\ subs = {}
    /\ vec = [c \in Coroutines |-> <<>>]
    /\ turn = [c \in Coroutines |-> 0]
    /\ waits = [c \in Coroutines |-> NoKey]
    /\ phase = "idle"
    /\ signal = NoSignal
    /\ offered = {}
    /\ sub = NoOne
    /\ it = 1
    /\ elem = Empty
    /\ stale = FALSE

-----------------------------------------------------------------------------
(* Coroutines.  They run when the service loop, or a callback, has resumed *)
(* one of them.                                                            *)

CoroutinesRun == phase \in {"idle", "resumed"}
Runs(c)       == CoroutinesRun /\ waits[c] = NoKey

(* sd_bus_subscribe_signal(): the constructor. *)
Subscribe(c) ==
    /\ Runs(c)
    /\ c \notin subs
    /\ subs' = subs \cup {c}
    /\ UNCHANGED <<vec, turn, waits, loopVars, stale>>

(* Mutant: match() records no key. *)
MatchNothing(c, k) ==
    /\ Runs(c)
    /\ c \in subs
    /\ turn[c] < MaxMatches
    /\ turn' = [turn EXCEPT ![c] = @ + 1]
    /\ vec' = [vec EXCEPT ![c] = Append(@, Callback(NoKey, turn[c] + 1))]
    /\ waits' = [waits EXCEPT ![c] = k]
    /\ stale' \in {stale, stale \/ sub = c}
    /\ UNCHANGED <<subs, loopVars>>

(* co_await subscription.match(k): push_back, which may reallocate. *)
Match(c, k) ==
    /\ Runs(c)
    /\ c \in subs
    /\ turn[c] < MaxMatches
    /\ turn' = [turn EXCEPT ![c] = @ + 1]
    /\ vec' = [vec EXCEPT ![c] = Append(@, Callback(k, turn[c] + 1))]
    /\ waits' = [waits EXCEPT ![c] = k]
    /\ stale' \in {stale, stale \/ sub = c}
    /\ UNCHANGED <<subs, loopVars>>

(* The frame is left or destroyed, and its subscription with it. *)
End(c) ==
    /\ Runs(c)
    /\ c \in subs
    /\ subs' = subs \ {c}
    /\ vec' = [vec EXCEPT ![c] = <<>>]
    /\ turn' = [turn EXCEPT ![c] = 0]
    /\ stale' = (stale \/ sub = c)
    /\ UNCHANGED <<waits, loopVars>>

-----------------------------------------------------------------------------
(* The dispatcher. *)

Idles ==
    /\ phase' = "idle"
    /\ signal' = NoSignal
    /\ offered' = {}
    /\ sub' = NoOne
    /\ it' = 1
    /\ elem' = Empty
    /\ stale' = FALSE

Arrive(s) ==
    /\ phase = "idle"
    /\ phase' = "offer"
    /\ signal' = s
    /\ UNCHANGED <<coroVars, offered, sub, it, elem, stale>>

(* sd-bus calls the handler of the next subscription. *)
Offer(c) ==
    /\ phase = "offer"
    /\ c \in subs \ offered
    /\ phase' = "loop"
    /\ sub' = c
    /\ it' = 1
    /\ stale' = FALSE
    /\ UNCHANGED <<coroVars, signal, offered, elem>>

(* No subscription is left that has not seen the signal. *)
Unhandled ==
    /\ phase = "offer"
    /\ subs \subseteq offered
    /\ Idles
    /\ UNCHANGED coroVars

(* Mutant: a cleared entry ends the loop. *)
SkipEnds ==
    /\ phase = "loop"
    /\ it <= Len(vec[sub])
    /\ vec[sub][it] = Empty
    /\ it' = Len(vec[sub]) + 1
    /\ UNCHANGED <<coroVars, phase, signal, offered, sub, elem, stale>>

Skip ==
    /\ phase = "loop"
    /\ it <= Len(vec[sub])
    /\ vec[sub][it] = Empty
    /\ it' = it + 1
    /\ UNCHANGED <<coroVars, phase, signal, offered, sub, elem, stale>>

(* Mutant: the entry is called where it is, and left there. *)
SwapOutNot ==
    /\ phase = "loop"
    /\ it <= Len(vec[sub])
    /\ vec[sub][it] # Empty
    /\ elem' = vec[sub][it]
    /\ phase' = "callback"
    /\ UNCHANGED <<coroVars, signal, offered, sub, it, stale>>

(* The entry is replaced by an empty one, speculatively. *)
SwapOut ==
    /\ phase = "loop"
    /\ it <= Len(vec[sub])
    /\ vec[sub][it] # Empty
    /\ elem' = vec[sub][it]
    /\ vec' = [vec EXCEPT ![sub] = [@ EXCEPT ![it] = Empty]]
    /\ phase' = "callback"
    /\ UNCHANGED <<subs, turn, waits, signal, offered, sub, it, stale>>

(* The callback finds its key, and resumes its coroutine. *)
CallbackMatches ==
    /\ phase = "callback"
    /\ elem.key \in signal
    /\ waits' = [waits EXCEPT ![sub] = NoKey]
    /\ phase' = "resumed"
    /\ UNCHANGED <<subs, vec, turn, signal, offered, sub, it, elem, stale>>

CallbackMisses ==
    /\ phase = "callback"
    /\ elem.key \notin signal
    /\ phase' = "swapBack"
    /\ UNCHANGED <<coroVars, signal, offered, sub, it, elem, stale>>

(* Mutant: a callback that did not match is not put back. *)
SwapBackForgets ==
    /\ phase = "swapBack"
    /\ elem' = Empty
    /\ it' = it + 1
    /\ phase' = "loop"
    /\ UNCHANGED <<coroVars, signal, offered, sub, stale>>

(* Mutant: the loop does not go on to the next entry. *)
SwapBackStays ==
    /\ phase = "swapBack"
    /\ vec' = [vec EXCEPT ![sub] = [@ EXCEPT ![it] = elem]]
    /\ elem' = Empty
    /\ phase' = "loop"
    /\ UNCHANGED <<subs, turn, waits, signal, offered, sub, it, stale>>

SwapBack ==
    /\ phase = "swapBack"
    /\ vec' = [vec EXCEPT ![sub] = [@ EXCEPT ![it] = elem]]
    /\ elem' = Empty
    /\ it' = it + 1
    /\ phase' = "loop"
    /\ UNCHANGED <<subs, turn, waits, signal, offered, sub, stale>>

(* Mutant: the callback reports the signal as not handled. *)
CallbackReturnsZero ==
    /\ phase = "resumed"
    /\ phase' = "swapBack"
    /\ UNCHANGED <<coroVars, signal, offered, sub, it, elem, stale>>

(* The callback reports the signal as handled, and so does the dispatcher. *)
CallbackReturns ==
    /\ phase = "resumed"
    /\ Idles
    /\ UNCHANGED coroVars

LoopEnds ==
    /\ phase = "loop"
    /\ it > Len(vec[sub])
    /\ phase' = "offer"
    /\ offered' = offered \cup {sub}
    /\ sub' = NoOne
    /\ UNCHANGED <<coroVars, signal, it, elem, stale>>

Dispatch ==
    \/ \E c \in Coroutines : Offer(c)
    \/ Unhandled
    \/ Skip
    \/ SwapOut
    \/ CallbackMatches
    \/ CallbackMisses
    \/ SwapBack
    \/ CallbackReturns
    \/ LoopEnds

Next ==
    \/ \E c \in Coroutines : Subscribe(c) \/ End(c) \/ \E k \in Keys : Match(c, k)
    \/ \E s \in Signals : Arrive(s)
    \/ Dispatch

Spec == Init /\ [][Next]_vars

(* The dispatcher is one function: it goes on until it returns. *)
FairSpec == Spec /\ WF_vars(Dispatch)
-----------------------------------------------------------------------------
(* The values the variables range over. *)
TypeOK ==
    /\ subs \subseteq Coroutines
    /\ vec \in [Coroutines -> Seq(Callbacks \cup {Empty})]
    /\ turn \in [Coroutines -> 0..MaxMatches]
    /\ waits \in [Coroutines -> Keys \cup {NoKey}]
    /\ phase \in {"idle", "offer", "loop", "callback", "swapBack", "resumed"}
    /\ signal \in Signals \cup {NoSignal}
    /\ offered \subseteq Coroutines
    /\ sub \in Coroutines \cup {NoOne}
    /\ it \in Nat \ {0}
    /\ elem \in Callbacks \cup {Empty}
    /\ stale \in BOOLEAN

(***************************************************************************)
(* The two conditions under which, as the comment in the code has it,      *)
(* "this breaks" never come about: whenever the dispatcher reads or writes *)
(* the vector, neither has its subscription been destroyed nor its buffer  *)
(* been reallocated since the iterators were taken.                        *)
(***************************************************************************)
Touches    == phase \in {"loop", "swapBack"}
MemorySafe == Touches => ~stale /\ sub \in subs /\ it <= Len(vec[sub]) + 1

(***************************************************************************)
(* Callbacks are one shot: an entry points to the awaitable its coroutine  *)
(* is suspended in now, never to one that is gone, and there is no second  *)
(* entry for it.  So no signal resumes a coroutine that does not wait.     *)
(***************************************************************************)
PointsTo(e, c) == waits[c] = e.key /\ turn[c] = e.turn

OneShot ==
    /\ \A c \in Coroutines : \A i \in DOMAIN vec[c] :
          vec[c][i] # Empty => PointsTo(vec[c][i], c) /\ i = Len(vec[c])
    /\ phase = "callback" => PointsTo(elem, sub)

(***************************************************************************)
(* No coroutine is forgotten: while it waits, its callback is in its       *)
(* vector, or the dispatcher has it.                                       *)
(***************************************************************************)
NotForgotten ==
    \A c \in Coroutines : waits[c] # NoKey =>
        \/ \E i \in DOMAIN vec[c] : vec[c][i] = Callback(waits[c], turn[c])
        \/ phase \in {"callback", "swapBack"} /\ sub = c /\ elem = Callback(waits[c], turn[c])

(* The dispatcher has the signal, and no callback has taken it. *)
Pending == phase \in {"offer", "loop", "callback", "swapBack"}

Promise == INSTANCE SignalMatch WITH signal <- IF Pending THEN signal ELSE NoSignal

(***************************************************************************)
(* The dispatcher implements module SignalMatch: a signal resumes exactly  *)
(* one of the coroutines that wait for it, and is dropped only if there is *)
(* none, however the vectors grow, shrink and are cleared meanwhile.       *)
(***************************************************************************)
ImplementsMatch == Promise!Spec

(* And the dispatcher comes to an end, with the signal taken or dropped. *)
DispatchEnds == Promise!FairSpec
=============================================================================
