---------------------------- MODULE EntityQueue ----------------------------
(***************************************************************************)
(* The queue that serialises the start and stop coroutines of one entity   *)
(* (src/daemon/entity.cpp, lines 42-102): a static table that holds, per   *)
(* entity name, a flag and a list of suspended coroutine handles.          *)
(*                                                                         *)
(* co_await enqueue() is one step, because await_ready, await_suspend and  *)
(* await_resume run without giving the thread away.  So is the destructor  *)
(* of queue_token up to the point where it has resumed the next waiter:    *)
(* the flag is cleared, the front handle popped and resumed, and the       *)
(* resumed coroutine's await_resume sets the flag again.                   *)
(***************************************************************************)
EXTENDS Naturals, Sequences

CONSTANTS
    Names,       \* entity names; queues[name] exists for every one of them
    Coroutines,  \* coroutine frames
    None         \* no coroutine

ASSUME NoneAssumption == None \notin Coroutines

VARIABLES
    held,        \* held[n]: queue_state::held
    queue,       \* queue[n]: queue_state::queue, handles of suspended frames
    tokens       \* tokens[n]: the frames that contain a live queue_token of n

queueVars == <<held, queue, tokens>>

Waiting(n) == {queue[n][i] : i \in 1..Len(queue[n])}

(***************************************************************************)
(* A frame that neither waits for a token nor contains one.  entity::start *)
(* and entity::stop await enqueue() once, as their first statement.        *)
(***************************************************************************)
Idle(c) == \A n \in Names : c \notin tokens[n] /\ c \notin Waiting(n)

Init ==
    /\ held = [n \in Names |-> FALSE]
    /\ queue = [n \in Names |-> <<>>]
    /\ tokens = [n \in Names |-> {}]

-----------------------------------------------------------------------------
(***************************************************************************)
(* Plausible mistakes in this code, used to show that the properties below *)
(* can fail: each is substituted for the action it is named after.         *)
(***************************************************************************)

(* await_resume forgets to set the flag. *)
EnqueueReadyUnmarked(c, n) ==
    /\ Idle(c)
    /\ ~held[n]
    /\ tokens' = [tokens EXCEPT ![n] = @ \cup {c}]
    /\ UNCHANGED <<held, queue>>

(* await_suspend stores a handle that has already been moved from. *)
EnqueueSuspendMovedFrom(c, n) ==
    /\ Idle(c)
    /\ held[n]
    /\ queue' = [queue EXCEPT ![n] = Append(@, None)]
    /\ UNCHANGED <<held, tokens>>

(* ~queue_token clears the flag and never looks at the queue. *)
ReleaseIdleAlways(c, n) ==
    /\ c \in tokens[n]
    /\ held' = [held EXCEPT ![n] = FALSE]
    /\ tokens' = [tokens EXCEPT ![n] = @ \ {c}]
    /\ UNCHANGED queue

(* The resumed coroutine's await_resume does not set the flag again. *)
ReleaseResumeUnmarked(c, n) ==
    /\ c \in tokens[n]
    /\ queue[n] # <<>>
    /\ held' = [held EXCEPT ![n] = FALSE]
    /\ queue' = [queue EXCEPT ![n] = Tail(@)]
    /\ tokens' = [tokens EXCEPT ![n] = (@ \ {c}) \cup {Head(queue[n])}]

(* The front handle is resumed and left in the list. *)
ReleaseResumeNoPop(c, n) ==
    /\ c \in tokens[n]
    /\ queue[n] # <<>>
    /\ held' = [held EXCEPT ![n] = TRUE]
    /\ tokens' = [tokens EXCEPT ![n] = (@ \ {c}) \cup {Head(queue[n])}]
    /\ UNCHANGED queue

(* back() and pop_back() for front() and pop_front(). *)
ReleaseResumeBack(c, n) ==
    /\ c \in tokens[n]
    /\ queue[n] # <<>>
    /\ held' = [held EXCEPT ![n] = TRUE]
    /\ queue' = [queue EXCEPT ![n] = SubSeq(@, 1, Len(@) - 1)]
    /\ tokens' = [tokens EXCEPT ![n] = (@ \ {c}) \cup {queue[n][Len(queue[n])]}]
-----------------------------------------------------------------------------
(* await_ready is true, so await_resume runs at once. *)
EnqueueReady(c, n) ==
    /\ Idle(c)
    /\ ~held[n]
    /\ held' = [held EXCEPT ![n] = TRUE]
    /\ tokens' = [tokens EXCEPT ![n] = @ \cup {c}]
    /\ UNCHANGED queue

(* await_ready is false: await_suspend appends the handle. *)
EnqueueSuspend(c, n) ==
    /\ Idle(c)
    /\ held[n]
    /\ queue' = [queue EXCEPT ![n] = Append(@, c)]
    /\ UNCHANGED <<held, tokens>>

(* ~queue_token when nobody waits. *)
ReleaseIdle(c, n) ==
    /\ c \in tokens[n]
    /\ queue[n] = <<>>
    /\ held' = [held EXCEPT ![n] = FALSE]
    /\ tokens' = [tokens EXCEPT ![n] = @ \ {c}]
    /\ UNCHANGED queue

(* ~queue_token when somebody waits: pop, resume, await_resume. *)
ReleaseResume(c, n) ==
    /\ c \in tokens[n]
    /\ queue[n] # <<>>
    /\ held' = [held EXCEPT ![n] = TRUE]
    /\ queue' = [queue EXCEPT ![n] = Tail(@)]
    /\ tokens' = [tokens EXCEPT ![n] = (@ \ {c}) \cup {Head(queue[n])}]

Enqueue(c, n) == EnqueueReady(c, n) \/ EnqueueSuspend(c, n)
Release(c, n) == ReleaseIdle(c, n) \/ ReleaseResume(c, n)

Next == \E n \in Names, c \in Coroutines : Enqueue(c, n) \/ Release(c, n)

Spec == Init /\ [][Next]_queueVars

(***************************************************************************)
(* A frame that owns a token ends, or is destroyed by a failing callee,    *)
(* after finitely many events, and its token is destroyed with it.         *)
(***************************************************************************)
FairSpec ==
    /\ Spec
    /\ \A n \in Names, c \in Coroutines : WF_queueVars(Release(c, n))
-----------------------------------------------------------------------------
TypeOK ==
    /\ held \in [Names -> BOOLEAN]
    /\ queue \in [Names -> Seq(Coroutines)]
    /\ tokens \in [Names -> SUBSET Coroutines]

(***************************************************************************)
(* No two frames are ever between their co_await enqueue() and their end   *)
(* for the same entity: what entity::start and entity::stop rely on when   *)
(* they read _live_entities, suspend, and write it later.                  *)
(***************************************************************************)
MutualExclusion ==
    \A n \in Names : \A c, d \in tokens[n] : c = d

(***************************************************************************)
(* The assertions of lines 61 and 85: a token is only destroyed, and a     *)
(* handle only queued or found in the queue, while the flag is set; and    *)
(* the flag is only set while some frame contains the token, so it cannot  *)
(* stay set with nobody left to clear it.                                  *)
(***************************************************************************)
FlagMatchesToken ==
    \A n \in Names :
        /\ held[n] <=> tokens[n] # {}
        /\ queue[n] # <<>> => held[n]

(***************************************************************************)
(* A handle is in one queue at most, once, and not the handle of a frame   *)
(* that already contains a token: resuming a handle twice, or resuming a   *)
(* frame that is not suspended in await_suspend, is undefined behaviour.   *)
(***************************************************************************)
ResumedOnce ==
    /\ \A n \in Names : \A i, j \in 1..Len(queue[n]) :
          queue[n][i] = queue[n][j] => i = j
    /\ \A m, n \in Names :
          /\ Waiting(m) \cap tokens[n] = {}
          /\ m # n => Waiting(m) \cap Waiting(n) = {}
          /\ m # n => tokens[m] \cap tokens[n] = {}

IInv == TypeOK /\ MutualExclusion /\ FlagMatchesToken /\ ResumedOnce

(***************************************************************************)
(* First come, first served: a frame gets a token only if nobody was       *)
(* waiting for it or it was the first in line (std::list push_back,        *)
(* pop_front), so a newcomer never overtakes a suspended coroutine.        *)
(***************************************************************************)
NoOvertaking ==
    [][\A n \in Names : \A c \in tokens'[n] \ tokens[n] :
          queue[n] = <<>> \/ c = Head(queue[n])]_queueVars

(***************************************************************************)
(* The queue implements the lock of module EntityLock.                     *)
(***************************************************************************)
Owner(n) == IF tokens[n] = {} THEN None ELSE CHOOSE c \in Coroutines : c \in tokens[n]

Lock == INSTANCE EntityLock WITH
            owner   <- [n \in Names |-> Owner(n)],
            waiters <- [n \in Names |-> Waiting(n)]

(* Every behaviour of the queue is a behaviour of the abstract lock. *)
ImplementsLock == Lock!Spec

(***************************************************************************)
(* Every suspended coroutine is eventually resumed with the token.         *)
(***************************************************************************)
WaiterServed ==
    \A n \in Names, c \in Coroutines :
        (c \in Waiting(n)) ~> (c \in tokens[n])
=============================================================================
