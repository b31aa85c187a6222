------------------------- MODULE EntityQueueProofs -------------------------
(***************************************************************************)
(* Proofs about the per-entity queue, for any number of entities and       *)
(* coroutine frames.                                                       *)
(*                                                                         *)
(* The inductive invariant is IInv of module EntityQueue: the flag of an   *)
(* entity is set exactly while one frame contains its token, and no handle *)
(* is queued twice or queued by a frame that contains a token.  Mutual     *)
(* exclusion alone is not inductive, because a cleared flag would let a    *)
(* second frame in; the flag alone is not, because a frame queued twice    *)
(* would be resumed while it owns a token.                                 *)
(***************************************************************************)
EXTENDS EntityQueue, TLAPS

(* What one step of a queue does to the queue as a sequence of handles. *)
LEMMA AppendFacts ==
    ASSUME NEW s \in Seq(Coroutines), NEW c \in Coroutines
    PROVE  /\ Append(s, c) \in Seq(Coroutines)
           /\ Append(s, c) # <<>>
           /\ Len(Append(s, c)) = Len(s) + 1
           /\ \A i \in 1..Len(s) : Append(s, c)[i] = s[i]
           /\ Append(s, c)[Len(s) + 1] = c
BY SMT

(* pop_front(): the rest of the queue keeps its order. *)
LEMMA TailFacts ==
    ASSUME NEW s \in Seq(Coroutines), s # <<>>
    PROVE  /\ Len(s) \in Nat \ {0}
           /\ Head(s) = s[1]
           /\ Head(s) \in Coroutines
           /\ Tail(s) \in Seq(Coroutines)
           /\ Len(Tail(s)) = Len(s) - 1
           /\ \A i \in 1..Len(Tail(s)) : Tail(s)[i] = s[i + 1]
BY SMT

(* No handle occurs twice in a queue. *)
Distinct(s) == \A i, j \in 1..Len(s) : s[i] = s[j] => i = j

(* push_back() of a handle that is not queued. *)
LEMMA AppendDistinct ==
    ASSUME NEW s \in Seq(Coroutines), NEW c \in Coroutines,
           Distinct(s), \A i \in 1..Len(s) : s[i] # c
    PROVE  Distinct(Append(s, c))
<1> DEFINE t == Append(s, c)
<1>1. SUFFICES ASSUME NEW i \in 1..Len(t), NEW j \in 1..Len(t), t[i] = t[j] PROVE i = j
  BY DEF Distinct
<1>2. Len(s) \in Nat /\ Len(t) = Len(s) + 1
  BY AppendFacts
<1>3. CASE i \in 1..Len(s) /\ j \in 1..Len(s)
  BY <1>1, <1>3, AppendFacts DEF Distinct
<1>4. CASE i = Len(s) + 1 /\ j \in 1..Len(s)
  BY <1>1, <1>4, AppendFacts
<1>5. CASE i \in 1..Len(s) /\ j = Len(s) + 1
  BY <1>1, <1>5, AppendFacts
<1>6. CASE i = Len(s) + 1 /\ j = Len(s) + 1
  BY <1>6
<1>7. (i \in 1..Len(s) \/ i = Len(s) + 1) /\ (j \in 1..Len(s) \/ j = Len(s) + 1)
  BY <1>2, SMT
<1> QED BY <1>3, <1>4, <1>5, <1>6, <1>7

(* pop_front() leaves no duplicates behind. *)
LEMMA TailDistinct ==
    ASSUME NEW s \in Seq(Coroutines), s # <<>>, Distinct(s)
    PROVE  Distinct(Tail(s))
<1>1. SUFFICES ASSUME NEW i \in 1..Len(Tail(s)), NEW j \in 1..Len(Tail(s)), Tail(s)[i] = Tail(s)[j]
               PROVE  i = j
  BY DEF Distinct
<1>2. i \in Nat /\ j \in Nat /\ i + 1 \in 1..Len(s) /\ j + 1 \in 1..Len(s)
  BY TailFacts, SMT
<1>3. s[i + 1] = s[j + 1]
  BY <1>1, TailFacts
<1>4. i + 1 = j + 1
  BY <1>2, <1>3 DEF Distinct
<1> QED BY <1>2, <1>4, SMT

(* The handles of a queue, by position. *)
LEMMA WaitingType == 
    ASSUME TypeOK, NEW n \in Names 
    PROVE  /\ queue[n] \in Seq(Coroutines)
           /\ Waiting(n) \subseteq Coroutines
           /\ \A i \in 1..Len(queue[n]) : queue[n][i] \in Waiting(n)
           /\ \A c \in Waiting(n) : \E i \in 1..Len(queue[n]) : queue[n][i] = c
           /\ (queue[n] = <<>>) => Waiting(n) = {}
BY DEF TypeOK, Waiting

(* A frame that enqueues joins the waiting handles of its entity only. *)
LEMMA SuspendWaiting ==
    ASSUME TypeOK, NEW c \in Coroutines, NEW n \in Names, EnqueueSuspend(c, n)
    PROVE  \A m \in Names : Waiting(m)' = IF m = n THEN Waiting(n) \cup {c} ELSE Waiting(m)
<1>1. queue[n] \in Seq(Coroutines)
  BY DEF TypeOK
<1>2. queue'[n] = Append(queue[n], c) /\ \A m \in Names : m # n => queue'[m] = queue[m]
  BY DEF EnqueueSuspend, TypeOK
<1>3. Waiting(n)' = Waiting(n) \cup {c}
  BY <1>1, <1>2, AppendFacts, SMT DEF Waiting
<1>4. \A m \in Names : m # n => Waiting(m)' = Waiting(m)
  BY <1>2 DEF Waiting
<1> QED BY <1>3, <1>4

(* A frame that is resumed leaves the waiting handles of its entity. *)
LEMMA ResumeWaiting ==
    ASSUME IInv, NEW c \in Coroutines, NEW n \in Names, ReleaseResume(c, n)
    PROVE  /\ Head(queue[n]) \in Waiting(n)
           /\ \A m \in Names :
                 Waiting(m)' = IF m = n THEN Waiting(n) \ {Head(queue[n])} ELSE Waiting(m)
<1>1. queue[n] \in Seq(Coroutines) /\ queue[n] # <<>>
  BY DEF IInv, TypeOK, ReleaseResume
<1>2. queue'[n] = Tail(queue[n]) /\ \A m \in Names : m # n => queue'[m] = queue[m]
  BY DEF ReleaseResume, IInv, TypeOK
<1>3. \A i, j \in 1..Len(queue[n]) : queue[n][i] = queue[n][j] => i = j
  BY DEF IInv, ResumedOnce
<1>4. Head(queue[n]) \in Waiting(n)
  BY <1>1, TailFacts, SMT DEF Waiting
<1>5. Waiting(n)' = Waiting(n) \ {Head(queue[n])}
  <2>1. ASSUME NEW x \in Waiting(n)' PROVE x \in Waiting(n) \ {Head(queue[n])}
    <3>1. PICK i \in 1..Len(Tail(queue[n])) : x = Tail(queue[n])[i]
      BY <1>2 DEF Waiting
    <3>2. i + 1 \in 1..Len(queue[n]) /\ x = queue[n][i + 1] /\ i + 1 # 1 /\ 1 \in 1..Len(queue[n])
      BY <1>1, <3>1, TailFacts, SMT
    <3>3. x # queue[n][1]
      BY <1>3, <3>2
    <3> QED BY <1>1, <3>2, <3>3, TailFacts DEF Waiting
  <2>2. ASSUME NEW x \in Waiting(n) \ {Head(queue[n])} PROVE x \in Waiting(n)'
    <3>1. PICK i \in 1..Len(queue[n]) : x = queue[n][i]
      BY DEF Waiting
    <3>2. i # 1
      BY <1>1, <3>1, TailFacts
    <3>3. i - 1 \in 1..Len(Tail(queue[n])) /\ x = Tail(queue[n])[i - 1]
      BY <1>1, <3>1, <3>2, TailFacts, SMT
    <3> QED BY <1>2, <3>3 DEF Waiting
  <2> QED BY <2>1, <2>2
<1>6. \A m \in Names : m # n => Waiting(m)' = Waiting(m)
  BY <1>2 DEF Waiting
<1> QED BY <1>4, <1>5, <1>6

-----------------------------------------------------------------------------
(* A state with unchanged variables keeps every part of the invariant. *)
LEMMA StutterIInv == IInv /\ UNCHANGED queueVars => IInv'
<1> SUFFICES ASSUME IInv, UNCHANGED queueVars PROVE IInv'
  OBVIOUS
<1>1. held' = held /\ queue' = queue /\ tokens' = tokens
  BY DEF queueVars
<1>2. TypeOK' /\ MutualExclusion' /\ FlagMatchesToken'
  BY <1>1 DEF IInv, TypeOK, MutualExclusion, FlagMatchesToken
<1>3. \A n : Waiting(n)' = Waiting(n)
  BY <1>1 DEF Waiting
<1>4. ResumedOnce'
  BY <1>1, <1>3 DEF IInv, ResumedOnce
<1> QED BY <1>2, <1>4 DEF IInv

(* await_ready is true: the flag was clear, so nobody else has the token. *)
LEMMA EnqueueReadyIInv ==
    ASSUME IInv, NEW c \in Coroutines, NEW n \in Names, EnqueueReady(c, n)
    PROVE  IInv'
<1>1. TypeOK'
  BY DEF EnqueueReady, IInv, TypeOK
<1>2. \A m \in Names : queue'[m] = queue[m] /\ Waiting(m)' = Waiting(m)
  BY DEF EnqueueReady, Waiting
<1>3. tokens[n] = {} /\ tokens'[n] = {c} /\ \A m \in Names : m # n => tokens'[m] = tokens[m]
  BY DEF EnqueueReady, IInv, TypeOK, FlagMatchesToken
<1>4. MutualExclusion'
  BY <1>3 DEF IInv, MutualExclusion
<1>5. FlagMatchesToken'
  BY <1>2, <1>3 DEF EnqueueReady, IInv, TypeOK, FlagMatchesToken
<1>6. ResumedOnce'
  BY <1>2, <1>3 DEF EnqueueReady, Idle, IInv, ResumedOnce
<1> QED BY <1>1, <1>4, <1>5, <1>6 DEF IInv

(* await_suspend: the frame was idle, so its handle is queued only once. *)
LEMMA EnqueueSuspendIInv ==
    ASSUME IInv, NEW c \in Coroutines, NEW n \in Names, EnqueueSuspend(c, n)
    PROVE  IInv'
<1>1. queue[n] \in Seq(Coroutines)
  BY DEF IInv, TypeOK
<1>2. queue'[n] = Append(queue[n], c) /\ \A m \in Names : m # n => queue'[m] = queue[m]
  BY DEF EnqueueSuspend, IInv, TypeOK
<1>3. TypeOK'
  BY <1>1, AppendFacts DEF EnqueueSuspend, IInv, TypeOK
<1>4. \A m \in Names : Waiting(m)' = IF m = n THEN Waiting(n) \cup {c} ELSE Waiting(m)
  BY SuspendWaiting DEF IInv
<1>5. MutualExclusion'
  BY DEF EnqueueSuspend, IInv, MutualExclusion
<1>6. FlagMatchesToken'
  BY <1>2 DEF EnqueueSuspend, IInv, FlagMatchesToken
<1>7. ResumedOnce'
  <2>1. \A i \in 1..Len(queue[n]) : queue[n][i] # c
    BY WaitingType DEF EnqueueSuspend, Idle, IInv
  <2>2. \A m \in Names : Distinct(queue'[m])
    <3>1. Distinct(queue'[n])
      BY <1>1, <1>2, <2>1, AppendDistinct DEF IInv, ResumedOnce, Distinct
    <3> QED BY <1>2, <3>1 DEF IInv, ResumedOnce, Distinct
  <2>3. \A l, m \in Names :
          /\ Waiting(l)' \cap tokens'[m] = {}
          /\ l # m => Waiting(l)' \cap Waiting(m)' = {}
          /\ l # m => tokens'[l] \cap tokens'[m] = {}
    BY <1>4 DEF EnqueueSuspend, Idle, IInv, ResumedOnce
  <2> QED BY <2>2, <2>3 DEF ResumedOnce, Distinct
<1> QED BY <1>3, <1>5, <1>6, <1>7 DEF IInv

(* ~queue_token with an empty queue: flag and token go together. *)
LEMMA ReleaseIdleIInv ==
    ASSUME IInv, NEW c \in Coroutines, NEW n \in Names, ReleaseIdle(c, n)
    PROVE  IInv'
<1>1. TypeOK'
  BY DEF ReleaseIdle, IInv, TypeOK
<1>2. \A m \in Names : queue'[m] = queue[m] /\ Waiting(m)' = Waiting(m)
  BY DEF ReleaseIdle, Waiting
<1>3. tokens'[n] = {} /\ \A m \in Names : m # n => tokens'[m] = tokens[m]
  BY DEF ReleaseIdle, IInv, TypeOK, MutualExclusion
<1>4. MutualExclusion'
  BY <1>3 DEF IInv, MutualExclusion
<1>5. FlagMatchesToken'
  BY <1>2, <1>3 DEF ReleaseIdle, IInv, TypeOK, FlagMatchesToken
<1>6. ResumedOnce'
  BY <1>2, <1>3 DEF IInv, ResumedOnce
<1> QED BY <1>1, <1>4, <1>5, <1>6 DEF IInv

(* ~queue_token with waiters: the token passes to the popped handle. *)
LEMMA ReleaseResumeIInv ==
    ASSUME IInv, NEW c \in Coroutines, NEW n \in Names, ReleaseResume(c, n)
    PROVE  IInv'
<1>1. queue[n] \in Seq(Coroutines) /\ queue[n] # <<>>
  BY DEF ReleaseResume, IInv, TypeOK
<1>2. queue'[n] = Tail(queue[n]) /\ \A m \in Names : m # n => queue'[m] = queue[m]
  BY DEF ReleaseResume, IInv, TypeOK
<1>3. TypeOK'
  BY <1>1, TailFacts DEF ReleaseResume, IInv, TypeOK
<1>4. /\ Head(queue[n]) \in Waiting(n)
      /\ \A m \in Names :
            Waiting(m)' = IF m = n THEN Waiting(n) \ {Head(queue[n])} ELSE Waiting(m)
  BY ResumeWaiting
<1>5. tokens'[n] = {Head(queue[n])} /\ \A m \in Names : m # n => tokens'[m] = tokens[m]
  BY DEF ReleaseResume, IInv, TypeOK, MutualExclusion
<1>6. MutualExclusion'
  BY <1>5 DEF IInv, MutualExclusion
<1>7. FlagMatchesToken'
  BY <1>2, <1>5 DEF ReleaseResume, IInv, TypeOK, FlagMatchesToken
<1>8. ResumedOnce'
  <2>1. \A m \in Names : Distinct(queue'[m])
    <3>1. Distinct(queue'[n])
      BY <1>1, <1>2, TailDistinct DEF IInv, ResumedOnce, Distinct
    <3> QED BY <1>2, <3>1 DEF IInv, ResumedOnce, Distinct
  <2>2. \A l, m \in Names :
          /\ Waiting(l)' \cap tokens'[m] = {}
          /\ l # m => Waiting(l)' \cap Waiting(m)' = {}
          /\ l # m => tokens'[l] \cap tokens'[m] = {}
    BY <1>4, <1>5 DEF IInv, ResumedOnce
  <2> QED BY <2>1, <2>2 DEF ResumedOnce, Distinct
<1> QED BY <1>3, <1>6, <1>7, <1>8 DEF IInv

(* _get_queue_by_name makes queues that are free and empty. *)
LEMMA InitIInv == Init => IInv
BY DEF Init, IInv, TypeOK, MutualExclusion, FlagMatchesToken, ResumedOnce, Waiting

(* Every step of the queue keeps the invariant. *)
LEMMA NextIInv == IInv /\ [Next]_queueVars => IInv'
<1> SUFFICES ASSUME IInv, [Next]_queueVars PROVE IInv'
  OBVIOUS
<1>1. CASE UNCHANGED queueVars
  BY <1>1, StutterIInv
<1>2. ASSUME NEW n \in Names, NEW c \in Coroutines, Enqueue(c, n) PROVE IInv'
  BY <1>2, EnqueueReadyIInv, EnqueueSuspendIInv DEF Enqueue
<1>3. ASSUME NEW n \in Names, NEW c \in Coroutines, Release(c, n) PROVE IInv'
  BY <1>3, ReleaseIdleIInv, ReleaseResumeIInv DEF Release
<1> QED BY <1>1, <1>2, <1>3 DEF Next

(* The inductive invariant holds in every reachable state. *)
THEOREM QueueInvariant == Spec => []IInv
BY InitIInv, NextIInv, PTL DEF Spec

(* queue_state stays a flag and a list of handles of frames. *)
THEOREM QueueTypeOK == Spec => []TypeOK
<1>1. IInv => TypeOK
  BY DEF IInv
<1> QED BY <1>1, QueueInvariant, PTL

(***************************************************************************)
(* At most one start or stop coroutine of an entity is ever past its       *)
(* co_await enqueue(): the guarantee entity.cpp builds on.                 *)
(***************************************************************************)
THEOREM QueueMutualExclusion == Spec => []MutualExclusion
<1>1. IInv => MutualExclusion
  BY DEF IInv
<1> QED BY <1>1, QueueInvariant, PTL

(* The assertions on held in ~queue_token, await_suspend and await_resume. *)
THEOREM QueueFlagMatchesToken == Spec => []FlagMatchesToken
<1>1. IInv => FlagMatchesToken
  BY DEF IInv
<1> QED BY <1>1, QueueInvariant, PTL

(* No handle is resumed twice or while its frame already owns a token. *)
THEOREM QueueResumedOnce == Spec => []ResumedOnce
<1>1. IInv => ResumedOnce
  BY DEF IInv
<1> QED BY <1>1, QueueInvariant, PTL

-----------------------------------------------------------------------------
(***************************************************************************)
(* First come, first served: push_back and pop_front, together with the    *)
(* flag never being clear while somebody waits.                            *)
(***************************************************************************)
THEOREM QueueNoOvertaking == Spec => NoOvertaking
<1> DEFINE InOrder == \A n \in Names : \A c \in tokens'[n] \ tokens[n] :
                         queue[n] = <<>> \/ c = Head(queue[n])
<1>1. IInv /\ [Next]_queueVars => [InOrder]_queueVars
  <2> SUFFICES ASSUME IInv, [Next]_queueVars PROVE [InOrder]_queueVars
    OBVIOUS
  <2>1. CASE UNCHANGED queueVars
    BY <2>1
  <2>2. ASSUME NEW m \in Names, NEW d \in Coroutines, EnqueueReady(d, m) PROVE InOrder
    <3>1. queue[m] = <<>> /\ \A n \in Names : n # m => tokens'[n] = tokens[n]
      BY <2>2 DEF EnqueueReady, IInv, TypeOK, FlagMatchesToken
    <3> QED BY <3>1
  <2>3. ASSUME NEW m \in Names, NEW d \in Coroutines, EnqueueSuspend(d, m) PROVE InOrder
    BY <2>3 DEF EnqueueSuspend
  <2>4. ASSUME NEW m \in Names, NEW d \in Coroutines, ReleaseIdle(d, m) PROVE InOrder
    <3>1. tokens'[m] \subseteq tokens[m] /\ \A n \in Names : n # m => tokens'[n] = tokens[n]
      BY <2>4 DEF ReleaseIdle, IInv, TypeOK
    <3> QED BY <3>1
  <2>5. ASSUME NEW m \in Names, NEW d \in Coroutines, ReleaseResume(d, m) PROVE InOrder
    <3>1. /\ tokens'[m] = (tokens[m] \ {d}) \cup {Head(queue[m])}
          /\ \A n \in Names : n # m => tokens'[n] = tokens[n]
      BY <2>5 DEF ReleaseResume, IInv, TypeOK
    <3> QED BY <3>1
  <2> QED BY <2>1, <2>2, <2>3, <2>4, <2>5 DEF Next, Enqueue, Release
<1> QED BY <1>1, QueueInvariant, PTL DEF Spec, NoOvertaking

-----------------------------------------------------------------------------
(* The owner of the abstract lock is the frame that contains the token. *)
LEMMA OwnerFacts ==
    ASSUME IInv, NEW n \in Names
    PROVE  /\ Owner(n) \in Coroutines \cup {None}
           /\ (Owner(n) = None) <=> (tokens[n] = {})
           /\ \A c \in Coroutines : (Owner(n) = c) <=> (tokens[n] = {c})
<1>1. tokens[n] \subseteq Coroutines /\ \A c, d \in tokens[n] : c = d
  BY DEF IInv, TypeOK, MutualExclusion
<1>2. CASE tokens[n] = {}
  BY <1>2, NoneAssumption DEF Owner
<1>3. CASE tokens[n] # {}
  <2>1. PICK c \in Coroutines : tokens[n] = {c}
    BY <1>1, <1>3
  <2>2. Owner(n) = c
    BY <1>3, <2>1 DEF Owner
  <2> QED BY <2>1, <2>2, NoneAssumption
<1> QED BY <1>2, <1>3

(***************************************************************************)
(* The flag and list of entity.cpp implement the abstract lock.  The       *)
(* mapping hides the flag and the order of the list; the invariant is      *)
(* needed because the lock has one owner where the queue has a set.        *)
(***************************************************************************)
THEOREM QueueImplementsLock == Spec => ImplementsLock
<1> DEFINE own == [n \in Names |-> Owner(n)]
           wts == [n \in Names |-> Waiting(n)]
<1>1. Init => Lock!Init
  BY DEF Init, Lock!Init, Owner, Waiting
<1>2. IInv /\ IInv' /\ [Next]_queueVars => [Lock!Next]_(Lock!lockVars)
  <2> SUFFICES ASSUME IInv, IInv', [Next]_queueVars
               PROVE  Lock!Next \/ UNCHANGED Lock!lockVars
    OBVIOUS
  <2> USE DEF Lock!lockVars
  <2>0. \A c \in Coroutines : Idle(c) => Lock!Idle(c)
    BY OwnerFacts DEF Idle, Lock!Idle
  <2>a. \A m \in Names : tokens'[m] = {} => Owner(m)' = None
    BY DEF Owner
  <2>b. ASSUME NEW m \in Names, NEW c \in Coroutines, tokens'[m] = {c} PROVE Owner(m)' = c
    <3>1. tokens'[m] # {} /\ c \in tokens'[m] /\ \A x \in Coroutines : x \in tokens'[m] => x = c
      BY <2>b
    <3> QED BY <3>1 DEF Owner
  <2>c. ASSUME NEW m \in Names, tokens'[m] = tokens[m] PROVE Owner(m)' = Owner(m)
    BY <2>c DEF Owner
  <2>1. CASE UNCHANGED queueVars
    BY <2>1 DEF queueVars, Owner, Waiting
  <2>2. ASSUME NEW n \in Names, NEW c \in Coroutines, EnqueueReady(c, n) PROVE Lock!Next
    <3>1. tokens[n] = {} /\ tokens'[n] = {c}
      BY <2>2 DEF EnqueueReady, IInv, TypeOK, FlagMatchesToken
    <3>2. \A m \in Names : m # n => tokens'[m] = tokens[m]
      BY <2>2 DEF EnqueueReady, IInv, TypeOK
    <3>3. Owner(n) = None /\ Owner(n)' = c /\ \A m \in Names : m # n => Owner(m)' = Owner(m)
      BY <2>a, <2>b, <2>c, <3>1, <3>2, OwnerFacts
    <3>4. wts' = wts
      BY <2>2 DEF EnqueueReady, Waiting
    <3>5. own' = [own EXCEPT ![n] = c]
      BY <3>3
    <3>6. Lock!Idle(c)
      BY <2>0, <2>2 DEF EnqueueReady
    <3> QED BY <3>3, <3>4, <3>5, <3>6 DEF Lock!Next, Lock!Acquire
  <2>3. ASSUME NEW n \in Names, NEW c \in Coroutines, EnqueueSuspend(c, n) PROVE Lock!Next
    <3>1. own' = own
      BY <2>3 DEF EnqueueSuspend, Owner
    <3>2. wts' = [wts EXCEPT ![n] = @ \cup {c}]
      BY <2>3, SuspendWaiting, ZenonT(30) DEF IInv
    <3>3. Owner(n) # None
      BY <2>3, OwnerFacts DEF EnqueueSuspend, IInv, FlagMatchesToken
    <3>4. Lock!Idle(c)
      BY <2>0, <2>3 DEF EnqueueSuspend
    <3> QED BY <3>1, <3>2, <3>3, <3>4 DEF Lock!Next, Lock!Wait
  <2>4. ASSUME NEW n \in Names, NEW c \in Coroutines, ReleaseIdle(c, n) PROVE Lock!Next
    <3>1. tokens[n] = {c} /\ tokens'[n] = {} /\ Waiting(n) = {}
      BY <2>4, WaitingType DEF ReleaseIdle, IInv, TypeOK, MutualExclusion
    <3>2. \A m \in Names : m # n => tokens'[m] = tokens[m]
      BY <2>4 DEF ReleaseIdle, IInv, TypeOK
    <3>3. Owner(n) = c /\ Owner(n)' = None /\ \A m \in Names : m # n => Owner(m)' = Owner(m)
      BY <2>a, <2>b, <2>c, <3>1, <3>2, OwnerFacts
    <3>4. wts' = wts
      BY <2>4 DEF ReleaseIdle, Waiting
    <3>5. own' = [own EXCEPT ![n] = None]
      BY <3>3
    <3> QED BY <3>1, <3>3, <3>4, <3>5 DEF Lock!Next, Lock!GiveBack
  <2>5. ASSUME NEW n \in Names, NEW c \in Coroutines, ReleaseResume(c, n) PROVE Lock!Next
    <3> DEFINE d == Head(queue[n])
    <3>1. d \in Coroutines /\ tokens[n] = {c} /\ tokens'[n] = {d}
      BY <2>5, TailFacts DEF ReleaseResume, IInv, TypeOK, MutualExclusion
    <3>2. \A m \in Names : m # n => tokens'[m] = tokens[m]
      BY <2>5 DEF ReleaseResume, IInv, TypeOK
    <3>3. Owner(n) = c /\ Owner(n)' = d /\ \A m \in Names : m # n => Owner(m)' = Owner(m)
      BY <2>a, <2>b, <2>c, <3>1, <3>2, OwnerFacts
    <3>4. d \in Waiting(n) /\ wts' = [wts EXCEPT ![n] = @ \ {d}]
      BY <2>5, ResumeWaiting
    <3>5. own' = [own EXCEPT ![n] = d]
      BY <3>3
    <3> QED BY <3>1, <3>3, <3>4, <3>5 DEF Lock!Next, Lock!HandOver
  <2> QED BY <2>1, <2>2, <2>3, <2>4, <2>5 DEF Next, Enqueue, Release
<1> QED BY <1>1, <1>2, QueueInvariant, PTL DEF Spec, ImplementsLock, Lock!Spec
=============================================================================
