---------------------- MODULE SignalSubscriptionProofs ----------------------
(***************************************************************************)
(* Proofs about signal subscriptions, for any number of coroutines,        *)
(* signals and match() calls.                                              *)
(*                                                                         *)
(* That the dispatcher never touches a stale iterator is not inductive: it *)
(* rests on the dispatcher not reaching for the vector again once a        *)
(* callback has resumed a coroutine.  That callbacks are one shot, and     *)
(* that none is forgotten, depend on each other through the entry that is  *)
(* swapped out; and a signal may be dropped only because every             *)
(* subscription that has seen it waits for something else.                 *)
(***************************************************************************)
EXTENDS SignalSubscription, TLAPS

(* Only a coroutine with a subscription is suspended in match(). *)
WaitersSubscribe == \A c \in Coroutines : waits[c] # NoKey => c \in subs

(* What the dispatcher knows at each of its steps. *)
DispatcherOK ==
    /\ phase = "idle" => signal = NoSignal /\ offered = {}
    /\ phase # "idle" => signal \in Signals
    /\ phase \in {"loop", "callback", "swapBack"} => sub \in subs /\ ~stale
    /\ phase = "loop" => it <= Len(vec[sub]) + 1
    /\ phase \in {"callback", "swapBack"} =>
          /\ it = Len(vec[sub])
          /\ vec[sub][it] = Empty
          /\ elem \in Callbacks
          /\ PointsTo(elem, sub)
    /\ phase = "swapBack" => elem.key \notin signal

(* A subscription, or an entry, that the dispatcher has passed waits for another signal. *)
PassedMisses ==
    /\ Pending => \A c \in offered : waits[c] \notin signal
    /\ phase = "loop" => \A i \in 1..(it - 1) : vec[sub][i].key \notin signal

(* The inductive invariant. *)
IInv ==
    /\ TypeOK
    /\ OneShot
    /\ NotForgotten
    /\ WaitersSubscribe
    /\ DispatcherOK
    /\ PassedMisses

-----------------------------------------------------------------------------
(* The keys of callbacks, of signals and of cleared entries. *)
LEMMA KeyFacts ==
    /\ \A s \in Signals : s \subseteq Keys /\ NoKey \notin s /\ s # NoSignal
    /\ \A e \in Callbacks : e # Empty /\ e.key \in Keys /\ e.key # NoKey /\ e.turn \in 1..MaxMatches
    /\ \A k \in Keys, t \in 1..MaxMatches :
          Callback(k, t) \in Callbacks /\ Callback(k, t).key = k /\ Callback(k, t).turn = t
    /\ \A e \in Callbacks : e = Callback(e.key, e.turn)
    /\ Empty.key = NoKey
BY SignalAssumption DEF Callbacks, Callback, Empty, Keys

(* A coroutine that runs has only cleared entries: push_back adds the one that counts. *)
LEMMA RunnerCleared ==
    ASSUME IInv, NEW c \in Coroutines, waits[c] = NoKey
    PROVE  \A i \in DOMAIN vec[c] : vec[c][i] = Empty
BY KeyFacts DEF IInv, OneShot, PointsTo, TypeOK

(* The vector after push_back. *)
LEMMA AppendFacts ==
    ASSUME NEW S, NEW s \in Seq(S), NEW e \in S
    PROVE  /\ Append(s, e) \in Seq(S)
           /\ Len(s) \in Nat
           /\ Len(Append(s, e)) = Len(s) + 1
           /\ DOMAIN Append(s, e) = 1..(Len(s) + 1)
           /\ \A i \in 1..Len(s) : Append(s, e)[i] = s[i]
           /\ Append(s, e)[Len(s) + 1] = e
BY SMT

(* The vector after an entry is swapped with another value. *)
LEMMA ExceptFacts ==
    ASSUME NEW S, NEW s \in Seq(S), NEW e \in S, NEW i \in 1..Len(s)
    PROVE  /\ [s EXCEPT ![i] = e] \in Seq(S)
           /\ Len([s EXCEPT ![i] = e]) = Len(s)
           /\ DOMAIN [s EXCEPT ![i] = e] = 1..Len(s)
           /\ [s EXCEPT ![i] = e][i] = e
           /\ \A j \in 1..Len(s) : j # i => [s EXCEPT ![i] = e][j] = s[j]
BY SMT

-----------------------------------------------------------------------------
(* The invariant holds initially. *)
LEMMA InitIInv == Init => IInv
<1> SUFFICES ASSUME Init PROVE IInv
  OBVIOUS
<1> USE DEF Init
<1>1. TypeOK
  <2>1. vec \in [Coroutines -> Seq(Callbacks \cup {Empty})]
    OBVIOUS
  <2>2. stale \in BOOLEAN /\ elem \in Callbacks \cup {Empty}
    BY Zenon
  <2> QED BY <2>1, <2>2, SignalAssumption DEF TypeOK
<1>2. OneShot /\ NotForgotten /\ WaitersSubscribe
  BY DEF OneShot, NotForgotten, WaitersSubscribe
<1>3. DispatcherOK /\ PassedMisses
  BY DEF DispatcherOK, PassedMisses, Pending
<1> QED BY <1>1, <1>2, <1>3 DEF IInv

(* A step that changes nothing keeps it. *)
LEMMA StutterIInv == IInv /\ UNCHANGED vars => IInv'
BY DEF IInv, TypeOK, OneShot, NotForgotten, WaitersSubscribe, DispatcherOK, PassedMisses,
   Pending, PointsTo, vars, coroVars, loopVars

(* A coroutine subscribes. *)
LEMMA SubscribeIInv == ASSUME IInv, NEW c \in Coroutines, Subscribe(c) PROVE IInv'
BY DEF IInv, TypeOK, OneShot, NotForgotten, WaitersSubscribe, DispatcherOK, PassedMisses,
   Pending, PointsTo, Subscribe, Runs, CoroutinesRun, loopVars

(* co_await subscription.match(): push_back. *)
LEMMA MatchIInv == ASSUME IInv, NEW c \in Coroutines, NEW k \in Keys, Match(c, k) PROVE IInv'
<1> DEFINE e == Callback(k, turn[c] + 1)
<1> USE DEF Match, loopVars
<1>1. /\ vec[c] \in Seq(Callbacks \cup {Empty})
      /\ e \in Callbacks
      /\ vec'[c] = Append(vec[c], e)
      /\ \A d \in Coroutines : d # c => vec'[d] = vec[d] /\ turn'[d] = turn[d] /\ waits'[d] = waits[d]
      /\ turn'[c] = turn[c] + 1 /\ waits'[c] = k /\ k # NoKey
      /\ e.key = k /\ e.turn = turn[c] + 1
  BY KeyFacts, SignalAssumption DEF IInv, TypeOK
<1>2. /\ Len(vec'[c]) = Len(vec[c]) + 1
      /\ DOMAIN vec'[c] = 1..(Len(vec[c]) + 1)
      /\ \A i \in 1..Len(vec[c]) : vec'[c][i] = Empty
      /\ vec'[c][Len(vec[c]) + 1] = e
      /\ Len(vec[c]) \in Nat
  <2>1. \A i \in 1..Len(vec[c]) : vec[c][i] = Empty
    BY <1>1, RunnerCleared DEF Runs
  <2> QED BY <1>1, <2>1, AppendFacts
<1>3. phase \in {"idle", "resumed"} /\ phase' = phase
  BY DEF Runs, CoroutinesRun
<1>4. TypeOK'
  <2>1. vec' \in [Coroutines -> Seq(Callbacks \cup {Empty})]
    BY <1>1, AppendFacts DEF IInv, TypeOK
  <2>2. stale' \in BOOLEAN
    BY Zenon DEF IInv, TypeOK
  <2>3. turn' \in [Coroutines -> 0..MaxMatches] /\ waits' \in [Coroutines -> Keys \cup {NoKey}]
    BY SignalAssumption DEF IInv, TypeOK
  <2> QED BY <2>1, <2>2, <2>3 DEF IInv, TypeOK
<1>5. OneShot'
  <2>1. ASSUME NEW d \in Coroutines, NEW i \in DOMAIN vec'[d], vec'[d][i] # Empty
        PROVE  waits'[d] = vec'[d][i].key /\ turn'[d] = vec'[d][i].turn /\ i = Len(vec'[d])
    <3>1. CASE d = c
      BY <1>1, <1>2, <2>1, <3>1 DEF PointsTo
    <3>2. CASE d # c
      BY <1>1, <2>1, <3>2 DEF PointsTo, IInv, OneShot
    <3> QED BY <3>1, <3>2
  <2> QED BY <1>3, <2>1 DEF OneShot, PointsTo
<1>6. NotForgotten'
  <2>1. ASSUME NEW d \in Coroutines, waits'[d] # NoKey
        PROVE  \E i \in DOMAIN vec'[d] : vec'[d][i] = Callback(waits'[d], turn'[d])
    <3>1. CASE d = c
      <4>1. Len(vec[c]) + 1 \in DOMAIN vec'[c]
        BY <1>2
      <4> QED BY <1>1, <1>2, <4>1, <3>1
    <3>2. CASE d # c
      BY <1>1, <1>3, <2>1, <3>2 DEF IInv, NotForgotten
    <3> QED BY <3>1, <3>2
  <2> QED BY <2>1 DEF NotForgotten
<1>7. WaitersSubscribe'
  BY <1>1 DEF IInv, WaitersSubscribe
<1>8. DispatcherOK' /\ PassedMisses'
  BY <1>3 DEF IInv, DispatcherOK, PassedMisses, Pending
<1> QED BY <1>4, <1>5, <1>6, <1>7, <1>8 DEF IInv

(* A frame is left or destroyed, and its subscription with it. *)
LEMMA EndIInv == ASSUME IInv, NEW c \in Coroutines, End(c) PROVE IInv'
<1> USE DEF End, loopVars
<1>1. phase \in {"idle", "resumed"} /\ phase' = phase /\ waits[c] = NoKey
  BY DEF Runs, CoroutinesRun
<1>2. TypeOK'
  BY <1>1, SignalAssumption DEF IInv, TypeOK
<1>3. /\ \A d \in Coroutines : d # c => vec'[d] = vec[d] /\ turn'[d] = turn[d]
      /\ vec'[c] = <<>>
  BY DEF IInv, TypeOK
<1>4. OneShot'
  <2>1. ASSUME NEW d \in Coroutines, NEW i \in DOMAIN vec'[d], vec'[d][i] # Empty
        PROVE  waits'[d] = vec'[d][i].key /\ turn'[d] = vec'[d][i].turn /\ i = Len(vec'[d])
    <3>1. d # c
      BY <1>3
    <3> QED BY <1>3, <3>1, <2>1 DEF PointsTo, IInv, OneShot
  <2> QED BY <1>1, <2>1 DEF OneShot, PointsTo
<1>5. NotForgotten'
  BY <1>1, <1>3 DEF IInv, NotForgotten
<1>6. WaitersSubscribe'
  BY <1>1 DEF IInv, WaitersSubscribe
<1>7. DispatcherOK' /\ PassedMisses'
  BY <1>1 DEF IInv, DispatcherOK, PassedMisses, Pending
<1> QED BY <1>2, <1>4, <1>5, <1>6, <1>7 DEF IInv

(* A signal arrives. *)
LEMMA ArriveIInv == ASSUME IInv, NEW s \in Signals, Arrive(s) PROVE IInv'
<1> USE DEF Arrive, coroVars
<1>1. TypeOK'
  BY DEF IInv, TypeOK
<1>2. OneShot' /\ NotForgotten' /\ WaitersSubscribe'
  BY DEF IInv, OneShot, NotForgotten, WaitersSubscribe, PointsTo
<1>3. DispatcherOK' /\ PassedMisses'
  BY DEF IInv, DispatcherOK, PassedMisses, Pending
<1> QED BY <1>1, <1>2, <1>3 DEF IInv

(* sd-bus calls the handler of the next subscription. *)
LEMMA OfferIInv == ASSUME IInv, NEW c \in Coroutines, Offer(c) PROVE IInv'
<1> USE DEF Offer, coroVars
<1>1. TypeOK'
  <2>1. stale' \in BOOLEAN /\ elem' \in Callbacks \cup {Empty}
    BY Zenon DEF IInv, TypeOK
  <2> QED BY <2>1 DEF IInv, TypeOK
<1>2. OneShot' /\ NotForgotten' /\ WaitersSubscribe'
  BY DEF IInv, OneShot, NotForgotten, WaitersSubscribe, PointsTo
<1>3. DispatcherOK' /\ PassedMisses'
  BY DEF IInv, TypeOK, DispatcherOK, PassedMisses, Pending
<1> QED BY <1>1, <1>2, <1>3 DEF IInv

(* The dispatcher returns to sd-bus: with the signal dropped, or after a callback has taken it. *)
LEMMA IdlesIInv ==
    ASSUME IInv, phase \in {"offer", "resumed"}, Idles, UNCHANGED coroVars
    PROVE  IInv'
<1> USE DEF Idles, coroVars
<1>1. TypeOK'
  <2>1. stale' \in BOOLEAN /\ elem' \in Callbacks \cup {Empty}
    BY Zenon
  <2> QED BY <2>1 DEF IInv, TypeOK
<1>2. OneShot' /\ NotForgotten' /\ WaitersSubscribe'
  BY DEF IInv, OneShot, NotForgotten, WaitersSubscribe, PointsTo
<1>3. DispatcherOK' /\ PassedMisses'
  BY DEF DispatcherOK, PassedMisses, Pending
<1> QED BY <1>1, <1>2, <1>3 DEF IInv

(* A cleared entry of the vector is skipped. *)
LEMMA SkipIInv == ASSUME IInv, Skip PROVE IInv'
<1> USE DEF Skip, coroVars
<1>1. sub \in Coroutines /\ vec[sub] \in Seq(Callbacks \cup {Empty}) /\ signal \in Signals
  BY DEF IInv, TypeOK, DispatcherOK
<1>2. TypeOK'
  BY DEF IInv, TypeOK
<1>3. OneShot' /\ NotForgotten' /\ WaitersSubscribe'
  BY DEF IInv, OneShot, NotForgotten, WaitersSubscribe, PointsTo
<1>4. DispatcherOK'
  BY <1>1 DEF IInv, TypeOK, DispatcherOK
<1>5. PassedMisses'
  <2>1. ASSUME NEW i \in 1..(it' - 1) PROVE vec[sub][i].key \notin signal
    <3>1. i \in 1..(it - 1) \/ i = it
      BY DEF IInv, TypeOK
    <3>2. vec[sub][it].key = NoKey /\ NoKey \notin signal
      BY <1>1, KeyFacts
    <3> QED BY <3>1, <3>2 DEF IInv, PassedMisses
  <2> QED BY <2>1 DEF IInv, PassedMisses, Pending
<1> QED BY <1>2, <1>3, <1>4, <1>5 DEF IInv

(* The callback is swapped out of the vector before it is called. *)
LEMMA SwapOutIInv == ASSUME IInv, SwapOut PROVE IInv'
<1> USE DEF SwapOut
<1>1. /\ sub \in Coroutines /\ vec[sub] \in Seq(Callbacks \cup {Empty}) /\ signal \in Signals
      /\ it \in 1..Len(vec[sub]) /\ it \in DOMAIN vec[sub]
      /\ vec[sub][it] \in Callbacks
  BY DEF IInv, TypeOK, DispatcherOK
<1>2. it = Len(vec[sub]) /\ PointsTo(vec[sub][it], sub)
  BY <1>1 DEF IInv, OneShot
<1>3. /\ vec'[sub] = [vec[sub] EXCEPT ![it] = Empty]
      /\ \A d \in Coroutines : d # sub => vec'[d] = vec[d]
  BY <1>1 DEF IInv, TypeOK
<1>4. /\ vec'[sub] \in Seq(Callbacks \cup {Empty})
      /\ Len(vec'[sub]) = Len(vec[sub])
      /\ \A i \in DOMAIN vec'[sub] : vec'[sub][i] = Empty
      /\ vec'[sub][it] = Empty
  <2>1. \A i \in 1..Len(vec[sub]) : i # it => vec[sub][i] = Empty
    BY <1>1, <1>2 DEF IInv, OneShot
  <2> QED BY <1>1, <1>3, <2>1, ExceptFacts, Empty \in Callbacks \cup {Empty}, SMT
<1>5. TypeOK'
  BY <1>1, <1>3, <1>4 DEF IInv, TypeOK
<1>6. OneShot'
  <2>1. ASSUME NEW d \in Coroutines, NEW i \in DOMAIN vec'[d], vec'[d][i] # Empty
        PROVE  waits'[d] = vec'[d][i].key /\ turn'[d] = vec'[d][i].turn /\ i = Len(vec'[d])
    <3>1. d # sub
      BY <1>4, <2>1
    <3> QED BY <1>3, <2>1, <3>1 DEF IInv, OneShot, PointsTo
  <2> QED BY <1>2, <2>1 DEF OneShot, PointsTo
<1>7. NotForgotten'
  <2>1. ASSUME NEW d \in Coroutines, d # sub, waits[d] # NoKey
        PROVE  \E i \in DOMAIN vec'[d] : vec'[d][i] = Callback(waits[d], turn[d])
    BY <1>3, <2>1 DEF IInv, NotForgotten
  <2>2. elem' = Callback(waits[sub], turn[sub])
    BY <1>1, <1>2, KeyFacts DEF PointsTo
  <2> QED BY <2>1, <2>2 DEF NotForgotten
<1>8. WaitersSubscribe'
  BY DEF IInv, WaitersSubscribe
<1>9. DispatcherOK' /\ PassedMisses'
  BY <1>1, <1>2, <1>4 DEF IInv, DispatcherOK, PassedMisses, Pending, PointsTo
<1> QED BY <1>5, <1>6, <1>7, <1>8, <1>9 DEF IInv

(* The callback matches and resumes its coroutine. *)
LEMMA CallbackMatchesIInv == ASSUME IInv, CallbackMatches PROVE IInv'
<1> USE DEF CallbackMatches
<1>1. sub \in Coroutines /\ it = Len(vec[sub]) /\ vec[sub][it] = Empty /\ vec[sub] \in Seq(Callbacks \cup {Empty})
  BY DEF IInv, TypeOK, DispatcherOK
<1>2. waits'[sub] = NoKey /\ \A d \in Coroutines : d # sub => waits'[d] = waits[d]
  BY <1>1 DEF IInv, TypeOK
<1>3. TypeOK'
  BY DEF IInv, TypeOK
<1>4. OneShot'
  <2>1. ASSUME NEW d \in Coroutines, NEW i \in DOMAIN vec[d], vec[d][i] # Empty
        PROVE  waits'[d] = vec[d][i].key /\ turn[d] = vec[d][i].turn /\ i = Len(vec[d])
    <3>1. d # sub
      BY <1>1, <2>1 DEF IInv, OneShot
    <3> QED BY <1>2, <2>1, <3>1 DEF IInv, OneShot, PointsTo
  <2> QED BY <2>1 DEF OneShot, PointsTo
<1>5. NotForgotten' /\ WaitersSubscribe'
  BY <1>1, <1>2 DEF IInv, NotForgotten, WaitersSubscribe
<1>6. DispatcherOK' /\ PassedMisses'
  BY DEF IInv, DispatcherOK, PassedMisses, Pending
<1> QED BY <1>3, <1>4, <1>5, <1>6 DEF IInv

(* The callback does not match. *)
LEMMA CallbackMissesIInv == ASSUME IInv, CallbackMisses PROVE IInv'
<1> USE DEF CallbackMisses, coroVars
<1>1. TypeOK'
  BY DEF IInv, TypeOK
<1>2. OneShot' /\ NotForgotten' /\ WaitersSubscribe'
  BY DEF IInv, OneShot, NotForgotten, WaitersSubscribe, PointsTo
<1>3. DispatcherOK' /\ PassedMisses'
  BY DEF IInv, DispatcherOK, PassedMisses, Pending, PointsTo
<1> QED BY <1>1, <1>2, <1>3 DEF IInv

(* A callback that did not match is put back. *)
LEMMA SwapBackIInv == ASSUME IInv, SwapBack PROVE IInv'
<1> USE DEF SwapBack
<1>1. /\ sub \in Coroutines /\ vec[sub] \in Seq(Callbacks \cup {Empty}) /\ signal \in Signals
      /\ it \in 1..Len(vec[sub]) /\ it = Len(vec[sub])
      /\ elem \in Callbacks /\ PointsTo(elem, sub) /\ elem.key \notin signal
      /\ vec[sub][it] = Empty
  BY DEF IInv, TypeOK, DispatcherOK
<1>2. /\ vec'[sub] = [vec[sub] EXCEPT ![it] = elem]
      /\ \A d \in Coroutines : d # sub => vec'[d] = vec[d]
  BY <1>1 DEF IInv, TypeOK
<1>3. /\ vec'[sub] \in Seq(Callbacks \cup {Empty})
      /\ Len(vec'[sub]) = Len(vec[sub]) /\ DOMAIN vec'[sub] = 1..Len(vec[sub])
      /\ \A i \in 1..Len(vec[sub]) : i # it => vec'[sub][i] = Empty
      /\ vec'[sub][it] = elem
  <2>1. \A i \in 1..Len(vec[sub]) : vec[sub][i] = Empty
    BY <1>1 DEF IInv, OneShot
  <2> QED BY <1>1, <1>2, <2>1, ExceptFacts
<1>4. TypeOK'
  <2>1. elem' \in Callbacks \cup {Empty}
    OBVIOUS
  <2> QED BY <1>1, <1>2, <1>3, <2>1 DEF IInv, TypeOK
<1>5. OneShot'
  <2>1. ASSUME NEW d \in Coroutines, NEW i \in DOMAIN vec'[d], vec'[d][i] # Empty
        PROVE  waits[d] = vec'[d][i].key /\ turn[d] = vec'[d][i].turn /\ i = Len(vec'[d])
    <3>1. CASE d = sub
      BY <1>1, <1>3, <2>1, <3>1 DEF PointsTo
    <3>2. CASE d # sub
      BY <1>2, <2>1, <3>2 DEF IInv, OneShot, PointsTo
    <3> QED BY <3>1, <3>2
  <2> QED BY <2>1 DEF OneShot, PointsTo
<1>6. NotForgotten'
  <2>1. ASSUME NEW d \in Coroutines, d # sub, waits[d] # NoKey
        PROVE  \E i \in DOMAIN vec'[d] : vec'[d][i] = Callback(waits[d], turn[d])
    BY <1>2, <2>1 DEF IInv, NotForgotten
  <2>2. it \in DOMAIN vec'[sub] /\ vec'[sub][it] = Callback(waits[sub], turn[sub])
    BY <1>1, <1>3, KeyFacts DEF PointsTo
  <2> QED BY <2>1, <2>2 DEF NotForgotten
<1>7. WaitersSubscribe'
  BY DEF IInv, WaitersSubscribe
<1>8. DispatcherOK'
  BY <1>1, <1>3 DEF IInv, DispatcherOK
<1>9. PassedMisses'
  <2>1. ASSUME NEW i \in 1..(it' - 1) PROVE vec'[sub][i].key \notin signal
    <3>1. i \in 1..Len(vec[sub])
      BY <1>1
    <3> QED BY <1>1, <1>3, <3>1, KeyFacts
  <2> QED BY <2>1 DEF IInv, PassedMisses, Pending
<1> QED BY <1>4, <1>5, <1>6, <1>7, <1>8, <1>9 DEF IInv

(* A subscription whose entries have all been passed waits for another signal: its callback was among them. *)
LEMMA LoopEndMisses == ASSUME IInv, LoopEnds PROVE waits[sub] \notin signal
<1> USE DEF LoopEnds
<1>1. sub \in Coroutines /\ vec[sub] \in Seq(Callbacks \cup {Empty}) /\ signal \in Signals
  BY DEF IInv, TypeOK, DispatcherOK
<1>2. CASE waits[sub] = NoKey
  BY <1>1, <1>2, KeyFacts
<1>3. CASE waits[sub] # NoKey
  <2>1. PICK i \in DOMAIN vec[sub] : vec[sub][i] = Callback(waits[sub], turn[sub])
    BY <1>1, <1>3 DEF IInv, NotForgotten
  <2>2. vec[sub][i].key \notin signal
    BY <1>1, <2>1 DEF IInv, TypeOK, PassedMisses
  <2> QED BY <2>1, <2>2 DEF Callback
<1> QED BY <1>2, <1>3

(* The loop over the callbacks of a subscription ends. *)
LEMMA LoopEndsIInv == ASSUME IInv, LoopEnds PROVE IInv'
<1> USE DEF LoopEnds, coroVars
<1>1. TypeOK'
  BY DEF IInv, TypeOK, DispatcherOK
<1>2. OneShot' /\ NotForgotten' /\ WaitersSubscribe'
  BY DEF IInv, OneShot, NotForgotten, WaitersSubscribe, PointsTo
<1>3. DispatcherOK' /\ PassedMisses'
  BY LoopEndMisses DEF IInv, DispatcherOK, PassedMisses, Pending
<1> QED BY <1>1, <1>2, <1>3 DEF IInv

(* Every step of a coroutine or of the dispatcher keeps the invariant. *)
LEMMA NextIInv == IInv /\ [Next]_vars => IInv'
<1> SUFFICES ASSUME IInv, [Next]_vars PROVE IInv'
  OBVIOUS
<1>1. CASE UNCHANGED vars
  BY <1>1, StutterIInv
<1>2. CASE \E c \in Coroutines : Subscribe(c) \/ End(c) \/ \E k \in Keys : Match(c, k)
  BY <1>2, SubscribeIInv, EndIInv, MatchIInv
<1>3. CASE \E s \in Signals : Arrive(s)
  BY <1>3, ArriveIInv
<1>4. CASE Unhandled \/ CallbackReturns
  BY <1>4, IdlesIInv DEF Unhandled, CallbackReturns
<1>5. CASE (\E c \in Coroutines : Offer(c)) \/ Skip \/ SwapOut \/ LoopEnds
  BY <1>5, OfferIInv, SkipIInv, SwapOutIInv, LoopEndsIInv
<1>6. CASE CallbackMatches \/ CallbackMisses \/ SwapBack
  BY <1>6, CallbackMatchesIInv, CallbackMissesIInv, SwapBackIInv
<1> QED BY <1>1, <1>2, <1>3, <1>4, <1>5, <1>6 DEF Next, Dispatch

(* The inductive invariant holds in every reachable state. *)
LEMMA Invariance == Spec => []IInv
BY InitIInv, NextIInv, PTL DEF Spec

-----------------------------------------------------------------------------
(* The variables of a subscription and its dispatcher keep to their types. *)
THEOREM TypeCorrect == Spec => []TypeOK
<1>1. IInv => TypeOK
  BY DEF IInv
<1> QED BY <1>1, Invariance, PTL

(* The dispatcher never touches a vector that a coroutine it resumed has destroyed or may have reallocated. *)
THEOREM MemorySafety == Spec => []MemorySafe
<1>1. IInv => MemorySafe
  BY DEF IInv, TypeOK, DispatcherOK, MemorySafe, Touches
<1> QED BY <1>1, Invariance, PTL

(* An entry of a vector points to the awaitable its coroutine is suspended in, and is its only one. *)
THEOREM CallbacksAreOneShot == Spec => []OneShot
<1>1. IInv => OneShot
  BY DEF IInv
<1> QED BY <1>1, Invariance, PTL

(* A coroutine suspended in match() has a callback that can resume it. *)
THEOREM NoCallbackForgotten == Spec => []NotForgotten
<1>1. IInv => NotForgotten
  BY DEF IInv
<1> QED BY <1>1, Invariance, PTL

-----------------------------------------------------------------------------
(* The dispatcher as SignalMatch sees it: the signal counts until a callback takes it. *)
LEMMA StepImplements == IInv /\ [Next]_vars => [Promise!Next]_(Promise!vars)
<1> DEFINE shown == IF Pending THEN signal ELSE NoSignal
<1> SUFFICES ASSUME IInv, [Next]_vars, ~(waits' = waits /\ shown' = shown)
             PROVE  Promise!Next
  BY DEF Promise!vars
<1>1. CASE UNCHANGED vars
  BY <1>1 DEF vars, coroVars, loopVars, Pending
<1>2. ASSUME NEW c \in Coroutines, Subscribe(c) \/ End(c) PROVE FALSE
  BY <1>2 DEF Subscribe, End, loopVars, Pending
<1>3. ASSUME NEW c \in Coroutines, NEW k \in Keys, Match(c, k) PROVE Promise!Next
  <2>1. Promise!Await(c, k)
    BY <1>3 DEF Promise!Await, Match, Runs, CoroutinesRun, Pending, loopVars
  <2> QED BY <2>1 DEF Promise!Next, Promise!Keys, Keys
<1>4. ASSUME NEW s \in Signals, Arrive(s) PROVE Promise!Next
  <2>1. Promise!Arrive(s)
    BY <1>4 DEF Promise!Arrive, Arrive, Pending, coroVars
  <2> QED BY <2>1 DEF Promise!Next
<1>5. CASE Unhandled
  <2>1. \A c \in Coroutines : waits[c] \notin signal
    <3> SUFFICES ASSUME NEW c \in Coroutines PROVE waits[c] \notin signal
      OBVIOUS
    <3>1. CASE c \in offered
      BY <1>5, <3>1 DEF Unhandled, IInv, PassedMisses, Pending
    <3>2. CASE c \notin offered
      BY <1>5, <3>2, KeyFacts DEF Unhandled, IInv, WaitersSubscribe, DispatcherOK
    <3> QED BY <3>1, <3>2
  <2>2. Promise!Ignore
    BY <1>5, <2>1, KeyFacts DEF Promise!Ignore, Unhandled, Idles, Pending, coroVars, IInv, DispatcherOK
  <2> QED BY <2>2 DEF Promise!Next, Promise!Dispatched
<1>6. CASE CallbackMatches
  <2>1. sub \in Coroutines /\ signal \in Signals /\ waits[sub] \in signal
    BY <1>6 DEF CallbackMatches, IInv, TypeOK, DispatcherOK, PointsTo
  <2>2. Promise!Resume(sub)
    BY <1>6, <2>1, KeyFacts DEF Promise!Resume, CallbackMatches, Pending
  <2> QED BY <2>1, <2>2 DEF Promise!Next, Promise!Dispatched
<1>7. CASE CallbackReturns \/ CallbackMisses \/ SwapBack \/ Skip \/ SwapOut \/ LoopEnds \/ \E c \in Coroutines : Offer(c)
  BY <1>7 DEF CallbackReturns, Idles, CallbackMisses, SwapBack, Skip, SwapOut, LoopEnds, Offer, Pending, coroVars
<1> QED BY <1>1, <1>2, <1>3, <1>4, <1>5, <1>6, <1>7 DEF Next, Dispatch

(* Whatever happens to the vectors, a signal resumes one coroutine that waits for it, or is dropped for lack of one. *)
THEOREM Implementation == Spec => ImplementsMatch
<1>1. Init => Promise!Init
  BY DEF Init, Promise!Init, Pending
<1> QED BY <1>1, Invariance, StepImplements, PTL DEF Spec, ImplementsMatch, Promise!Spec
=============================================================================
