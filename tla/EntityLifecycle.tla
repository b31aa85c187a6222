-------------------------- MODULE EntityLifecycle --------------------------
(***************************************************************************)
(* Starting and stopping entities: controller::start and controller::stop  *)
(* (src/daemon/controller.cpp), entity::start and entity::stop             *)
(* (src/daemon/entity.cpp), the coroutine promise that connects them       *)
(* (src/daemon/async.h), and, as seen through their buses, systemd and one *)
(* nonsense-entityd process per live entity.                               *)
(*                                                                         *)
(* The daemon is single threaded.  A coroutine runs until it suspends; a   *)
(* coroutine resumed by another one runs nested inside it.  The variable   *)
(* stack is that call stack: what is still to be executed before the       *)
(* service loop gets control back.  Messages are dispatched, and requests  *)
(* arrive, only when it is empty.                                          *)
(*                                                                         *)
(* chain[r] holds the entity coroutines request r consists of: the frame   *)
(* of the entity asked for, followed by the frames of the uplinks it waits *)
(* for.  The frame of the controller method is implicit (reply[r]).        *)
(***************************************************************************)
EXTENDS Naturals, FiniteSets, SequencesExt

CONSTANTS
    Names,       \* entity names
    None,        \* no uplink
    Uplink,      \* Uplink[n]: the network.uplink parameter of n, or None
    Networked,   \* the entities with a network component
    Configured,  \* the entities in the configuration file
    Slice,       \* Slice[n]: the slice of n; '.' and '-' in a name are the same
    Inside,      \* Inside[s]: the slices in slice s; x-y.slice is in x.slice
    Requests,    \* Start and Stop calls, each made at most once
    Ops,         \* which of "start" and "stop" clients call
    Faults,      \* which failures of the environment happen
    MaxCommits   \* bound on the number of committed transactions

Slices == {Slice[n] : n \in Names}

ASSUME LifecycleAssumption ==
    /\ IsFiniteSet(Names)
    /\ None \notin Names
    /\ Uplink \in [Names -> Names \cup {None}]
    /\ Networked \subseteq Names
    /\ Configured \subseteq Names
    /\ \A n \in Names : Uplink[n] # None => {n, Uplink[n]} \subseteq Networked
    /\ \A n \in Configured : Uplink[n] # None => Uplink[n] \in Configured
    /\ Inside \in [Slices -> SUBSET Slices]
    /\ \A s \in Slices : s \notin Inside[s] /\ \A t \in Inside[s] : Inside[t] \subseteq Inside[s]
    /\ \A s \in Slices, n \in Names : s # <<n, "scope">>
    /\ Ops \subseteq {"start", "stop"}
    /\ Faults \subseteq {"fork", "alloc", "bus", "handshake", "call", "job", "component",
                         "die", "systemdTimeout", "entitydTimeout", "crash"}
    /\ MaxCommits \in Nat

VARIABLES
    daemon,      \* "up", or "aborted" by an assertion, std::abort or a fault
    tree,        \* generation of the json tree behind the running configuration
    known,       \* the entities of the running configuration
    op,          \* op[r]: the method of request r
    target,      \* target[r]: the entity request r names
    reply,       \* reply[r]: what the client of r knows
    chain,       \* chain[r]: the entity coroutines of r, outermost first
    stack,       \* the call stack of the daemon, innermost call first
    held, queue, \* the entity queues, see module EntityQueue
    live,        \* the keys of entity::_live_entities
    proc,        \* proc[n]: the last entityd process of n
    ns,          \* ns[n]: is the network namespace of n set up
    ecalls,      \* ecalls[n]: calls entityd n has not handled, in order
    eanswers,    \* eanswers[n]: answers of entityd n not dispatched, in order
    calls,       \* calls systemd has not handled, in order
    jobs,        \* jobs systemd has not finished
    unit,        \* the slices that are active, and the scopes with a process
    inbox        \* messages of systemd not dispatched, in order

daemonVars == <<daemon, tree, known, op, target, reply, chain, stack>>
queueVars  == <<held, queue>>
entitydVars == <<proc, ns, ecalls, eanswers>>
systemdVars == <<calls, jobs, unit, inbox>>
worldVars  == <<live, entitydVars, systemdVars>>
vars       == <<daemonVars, queueVars, worldVars>>

-----------------------------------------------------------------------------
(* Frames and the call stack. *)

Run(r)        == [kind |-> "run", req |-> r]
Drop(r, k, n) == [kind |-> "drop", req |-> r, depth |-> k, ent |-> n]
NewFrame(n)   == [ent |-> n, pc |-> "enqueue", tree |-> tree]

Depth(r) == Len(chain[r])
Frame(r) == chain[r][Depth(r)]
Idle     == daemon = "up" /\ stack = <<>>

Running(r, pc) ==
    /\ daemon = "up"
    /\ stack # <<>>
    /\ Head(stack) = Run(r)
    /\ Frame(r).pc = pc

At(r, pc) == [chain EXCEPT ![r][Depth(r)].pc = pc]

(* co_await: the coroutine of r suspends at pc. *)
Suspend(r, pc, rest) ==
    /\ chain' = At(r, pc)
    /\ stack' = rest

(***************************************************************************)
(* co_return unit.  return_value resumes the awaiting coroutine before the *)
(* locals of this frame, its token among them, are destroyed.  The         *)
(* outermost frame resumes the controller method, which replies and ends.  *)
(***************************************************************************)
Return(r, rest) ==
    LET k == Depth(r)
        drop == Drop(r, k, Frame(r).ent)
    IN  IF k = 1
        THEN /\ reply' = [reply EXCEPT ![r] = "ok"]
             /\ chain' = [chain EXCEPT ![r] = <<>>]
             /\ stack' = <<drop>> \o rest
        ELSE /\ chain' = [chain EXCEPT ![r] = [SubSeq(@, 1, k - 1) EXCEPT ![k - 1].pc = "spawn"]]
             /\ stack' = <<Run(r), drop>> \o rest
             /\ UNCHANGED reply

(* Mutant: an error does not destroy the frames that await this one. *)
UnwindInnermost(r, rest) ==
    /\ chain' = [chain EXCEPT ![r] = <<>>]
    /\ stack' = <<Drop(r, Depth(r), Frame(r).ent)>> \o rest

(***************************************************************************)
(* An error result.  It travels out to the controller method, which        *)
(* replies; then every frame is destroyed, the outermost first.            *)
(***************************************************************************)
Unwind(r, rest) ==
    /\ chain' = [chain EXCEPT ![r] = <<>>]
    /\ stack' = [k \in 1..Depth(r) |-> Drop(r, k, chain[r][k].ent)] \o rest

Fail(r, rest) ==
    /\ reply' = [reply EXCEPT ![r] = "error"]
    /\ Unwind(r, rest)

(* std::abort, a failed assertion, std::terminate or a segmentation fault. *)
Abort ==
    /\ daemon' = "aborted"
    /\ UNCHANGED <<tree, known, op, target, reply, chain, stack, queueVars, worldVars>>

(***************************************************************************)
(* What _self reads as.  It refers into the json tree that was the running *)
(* configuration when the entity object was made; once Commit has replaced *)
(* that tree the memory is free: the old contents may survive, or look     *)
(* like an entity without components.  (A crash: DanglingCrash and         *)
(* DanglingAdvance.)                                                       *)
(***************************************************************************)
SelfReads(f) == IF f.tree = tree THEN {"self"} ELSE {"self", "empty"}

-----------------------------------------------------------------------------
Init ==
    /\ daemon = "up"
    /\ tree = 0
    /\ known = Configured
    /\ op = [r \in Requests |-> "none"]
    /\ target = [r \in Requests |-> None]
    /\ reply = [r \in Requests |-> "none"]
    /\ chain = [r \in Requests |-> <<>>]
    /\ stack = <<>>
    /\ held = [n \in Names |-> FALSE]
    /\ queue = [n \in Names |-> <<>>]
    /\ live = {}
    /\ proc = [n \in Names |-> "none"]
    /\ ns = [n \in Names |-> "down"]
    /\ ecalls = [n \in Names |-> <<>>]
    /\ eanswers = [n \in Names |-> <<>>]
    /\ calls = <<>>
    /\ jobs = {}
    /\ unit = {}
    /\ inbox = <<>>

(***************************************************************************)
(* controller::start and controller::stop up to ent->start(), ent->stop(). *)
(***************************************************************************)
Request(r, o, n) ==
    /\ Idle
    /\ reply[r] = "none"
    /\ op' = [op EXCEPT ![r] = o]
    /\ target' = [target EXCEPT ![r] = n]
    /\ IF n \in known
       THEN /\ reply' = [reply EXCEPT ![r] = "pending"]
            /\ chain' = [chain EXCEPT ![r] = <<NewFrame(n)>>]
            /\ stack' = <<Run(r)>>
       ELSE /\ reply' = [reply EXCEPT ![r] = "error"]
            /\ UNCHANGED <<chain, stack>>
    /\ UNCHANGED <<daemon, tree, known, queueVars, worldVars>>

(***************************************************************************)
(* transactions::commit: the running configuration becomes a new tree,     *)
(* with one more entity or, for an empty transaction, with the same ones.  *)
(***************************************************************************)
Commit(n) ==
    /\ Idle
    /\ tree < MaxCommits
    /\ n # None => n \notin known /\ Uplink[n] \in known \cup {None}
    /\ tree' = tree + 1
    /\ known' = known \cup ({n} \ {None})
    /\ UNCHANGED <<daemon, op, target, reply, chain, stack, queueVars, worldVars>>

(* Mutant: await_suspend is handed the handle of the awaiting frame. *)
EnqueueParent(r) ==
    /\ Running(r, "enqueue")
    /\ LET n == Frame(r).ent IN
       IF held[n]
       THEN /\ queue' = [queue EXCEPT ![n] = Append(@, <<r, Depth(r) - 1>>)]
            /\ Suspend(r, "queued", Tail(stack))
            /\ UNCHANGED held
       ELSE /\ held' = [held EXCEPT ![n] = TRUE]
            /\ chain' = At(r, "entered")
            /\ UNCHANGED <<queue, stack>>
    /\ UNCHANGED <<daemon, tree, known, op, target, reply, worldVars>>

(* Mutant: start() and stop() do not wait for their turn. *)
EnqueueNever(r) ==
    /\ Running(r, "enqueue")
    /\ held' = [held EXCEPT ![Frame(r).ent] = TRUE]
    /\ chain' = At(r, "entered")
    /\ UNCHANGED <<queue, stack, daemon, tree, known, op, target, reply, worldVars>>

(* auto token = co_await enqueue(). *)
Enqueue(r) ==
    /\ Running(r, "enqueue")
    /\ LET n == Frame(r).ent IN
       IF held[n]
       THEN /\ queue' = [queue EXCEPT ![n] = Append(@, <<r, Depth(r)>>)]
            /\ Suspend(r, "queued", Tail(stack))
            /\ UNCHANGED held
       ELSE /\ held' = [held EXCEPT ![n] = TRUE]
            /\ chain' = At(r, "entered")
            /\ UNCHANGED <<queue, stack>>
    /\ UNCHANGED <<daemon, tree, known, op, target, reply, worldVars>>

(* ~queue_token, as a frame is left or destroyed. *)
DropToken ==
    /\ daemon = "up"
    /\ stack # <<>>
    /\ Head(stack).kind = "drop"
    /\ LET n == Head(stack).ent IN
       IF queue[n] = <<>>
       THEN /\ held' = [held EXCEPT ![n] = FALSE]
            /\ stack' = Tail(stack)
            /\ UNCHANGED <<queue, chain>>
       ELSE LET w == Head(queue[n]) IN
            /\ queue' = [queue EXCEPT ![n] = Tail(@)]
            /\ chain' = [chain EXCEPT ![w[1]][w[2]].pc = "entered"]
            /\ stack' = <<Run(w[1])>> \o Tail(stack)
            /\ UNCHANGED held
    /\ UNCHANGED <<daemon, tree, known, op, target, reply, worldVars>>

(* entity::start finds the entity in _live_entities. *)
StartAlreadyLive(r) ==
    /\ Running(r, "entered") /\ op[r] = "start"
    /\ Frame(r).ent \in live
    /\ Return(r, Tail(stack))
    /\ UNCHANGED <<daemon, tree, known, op, target, queueVars, worldVars>>

(* Mutant: the uplink is not started first. *)
StartUplinkSkipped(r) ==
    /\ Running(r, "entered") /\ op[r] = "start"
    /\ Frame(r).ent \notin live
    /\ chain' = At(r, "spawn")
    /\ UNCHANGED <<daemon, tree, known, op, target, reply, stack, queueVars, worldVars>>

(* entity::start looks for an uplink and starts it first. *)
StartUplink(r) ==
    /\ Running(r, "entered") /\ op[r] = "start"
    /\ Frame(r).ent \notin live
    /\ \E self \in SelfReads(Frame(r)) :
          LET u == IF self = "self" THEN Uplink[Frame(r).ent] ELSE None IN
          IF u = None
          THEN chain' = At(r, "spawn")
          ELSE chain' = [At(r, "uplink") EXCEPT ![r] = Append(@, NewFrame(u))]
    /\ UNCHANGED <<daemon, tree, known, op, target, reply, stack, queueVars, worldVars>>

(* Reading _self after its tree was replaced may fault. *)
DanglingCrash(r) ==
    /\ Running(r, "entered") \/ Running(r, "components")
    /\ op[r] = "start"
    /\ Frame(r).pc = "entered" => Frame(r).ent \notin live
    /\ Frame(r).tree # tree
    /\ Abort

-----------------------------------------------------------------------------
(* Method calls.  A message is known by the request it belongs to, what it *)
(* asks for and the entity it is about.                                    *)

Call(r, what)    == [req |-> r, what |-> what, ent |-> Frame(r).ent]
SystemdCall(r, what) == calls' = Append(calls, Call(r, what))
EntitydCall(r, what) ==
    ecalls' = [ecalls EXCEPT ![Frame(r).ent] = Append(@, Call(r, what))]

(* The coroutine of r is suspended in a call, or in a wait, named pc. *)
Awaits(r, pc) == chain[r] # <<>> /\ Frame(r).pc = pc

-----------------------------------------------------------------------------
(* entity::start from socketpair() to the first StartTransientUnit call. *)

Scope(n) == <<n, "scope">>

Spawned(n, entityd) ==
    /\ proc' = [proc EXCEPT ![n] = entityd]
    /\ live' = live \cup {n}
    /\ unit' = unit \ {Scope(n)}

Spawn(r) ==
    /\ Running(r, "spawn")
    /\ Spawned(Frame(r).ent, "running")
    /\ SystemdCall(r, "slice")
    /\ Suspend(r, "slice", Tail(stack))
    /\ UNCHANGED <<daemon, tree, known, op, target, reply, queueVars,
                   ns, ecalls, eanswers, jobs, inbox>>

(***************************************************************************)
(* socketpair() or fork() fails: co_return reply_status(errno).  errno is  *)
(* positive and return_value replies only to negative codes, so the frames *)
(* are destroyed and nothing is sent.                                      *)
(***************************************************************************)
SpawnForkFails(r) ==
    /\ "fork" \in Faults
    /\ Running(r, "spawn")
    /\ Unwind(r, Tail(stack))
    /\ UNCHANGED <<daemon, tree, known, op, target, reply, queueVars, worldVars>>

(* sd_bus_new() fails after the fork: the child is in no table. *)
SpawnAllocFails(r) ==
    /\ "alloc" \in Faults
    /\ Running(r, "spawn")
    /\ proc' = [proc EXCEPT ![Frame(r).ent] = "running"]
    /\ Fail(r, Tail(stack))
    /\ UNCHANGED <<daemon, tree, known, op, target, queueVars,
                   live, ns, ecalls, eanswers, systemdVars>>

(***************************************************************************)
(* sd_bus_set_fd, sd_bus_set_bus_client, sd_bus_start or sd_bus_process    *)
(* fails: an error reply, but the entity is already in _live_entities.     *)
(***************************************************************************)
SpawnBusFails(r) ==
    /\ "bus" \in Faults
    /\ Running(r, "spawn")
    /\ \E e \in {"running", "dead"} : Spawned(Frame(r).ent, e)
    /\ Fail(r, Tail(stack))
    /\ UNCHANGED <<daemon, tree, known, op, target, queueVars,
                   ns, ecalls, eanswers, calls, jobs, inbox>>

(* The bus closes during the handshake (assert), or register_bus throws. *)
SpawnHandshakeFails(r) ==
    /\ "handshake" \in Faults
    /\ Running(r, "spawn")
    /\ Abort

(***************************************************************************)
(* entity::start once its slice and its scope are active: one AddComponent *)
(* call per component; a value that is not an object counts as one, with   *)
(* an empty name.  A call on a closed bus cannot be issued, and then       *)
(* sd_bus_call_method aborts the daemon.                                   *)
(***************************************************************************)
Components(r) ==
    /\ Running(r, "components")
    /\ \E self \in SelfReads(Frame(r)) :
          LET n == Frame(r).ent
              empty == self = "empty" \/ n \notin Networked
          IN
          \/ /\ empty
             /\ Return(r, Tail(stack))
             /\ UNCHANGED <<daemon, ecalls>>
          \/ /\ ~empty /\ proc[n] = "running"
             /\ EntitydCall(r, "component")
             /\ Suspend(r, "component", Tail(stack))
             /\ UNCHANGED <<daemon, reply>>
          \/ /\ ~empty /\ proc[n] # "running"
             /\ daemon' = "aborted"
             /\ UNCHANGED <<reply, chain, stack, ecalls>>
    /\ UNCHANGED <<tree, known, op, target, queueVars, live, proc, ns, eanswers, systemdVars>>

-----------------------------------------------------------------------------
(* entity::stop up to the Shutdown call. *)

StopNotLive(r) ==
    /\ Running(r, "entered") /\ op[r] = "stop"
    /\ Frame(r).ent \notin live
    /\ Fail(r, Tail(stack))
    /\ UNCHANGED <<daemon, tree, known, op, target, queueVars, worldVars>>

(* Mutant: the entity is erased before its entityd has answered. *)
StopShutdownErasesFirst(r) ==
    /\ Running(r, "entered") /\ op[r] = "stop"
    /\ Frame(r).ent \in live
    /\ proc[Frame(r).ent] = "running"
    /\ EntitydCall(r, "shutdown")
    /\ live' = live \ {Frame(r).ent}
    /\ Suspend(r, "shutdown", Tail(stack))
    /\ UNCHANGED <<daemon, tree, known, op, target, reply, queueVars,
                   proc, ns, eanswers, systemdVars>>

StopShutdown(r) ==
    /\ Running(r, "entered") /\ op[r] = "stop"
    /\ Frame(r).ent \in live
    /\ proc[Frame(r).ent] = "running"
    /\ EntitydCall(r, "shutdown")
    /\ Suspend(r, "shutdown", Tail(stack))
    /\ UNCHANGED <<daemon, tree, known, op, target, reply, queueVars,
                   live, proc, ns, eanswers, systemdVars>>

StopBusClosed(r) ==
    /\ Running(r, "entered") /\ op[r] = "stop"
    /\ Frame(r).ent \in live
    /\ proc[Frame(r).ent] # "running"
    /\ Abort

-----------------------------------------------------------------------------
(* The service loop dispatches an answer of entityd n.  An answer to a     *)
(* call that has timed out is ignored.                                     *)

DeliverComponent(n) ==
    /\ Idle
    /\ eanswers[n] # <<>> /\ Head(eanswers[n]).what = "component"
    /\ eanswers' = [eanswers EXCEPT ![n] = Tail(@)]
    /\ LET r == Head(eanswers[n]).req IN
       \/ Awaits(r, "component") /\ Return(r, <<>>)
       \/ ~Awaits(r, "component") /\ UNCHANGED <<reply, chain, stack>>
    /\ UNCHANGED <<daemon, tree, known, op, target, queueVars,
                   live, proc, ns, ecalls, systemdVars>>

(* The range-for then advances an iterator into _self: after a Commit that *)
(* may fault as well.                                                      *)
DanglingAdvance(n) ==
    /\ Idle
    /\ eanswers[n] # <<>> /\ Head(eanswers[n]).what = "component"
    /\ LET r == Head(eanswers[n]).req IN Awaits(r, "component") /\ Frame(r).tree # tree
    /\ Abort

(* Shutdown has answered: waitpid, unregister_bus, erase, StopUnit. *)
DeliverShutdown(n) ==
    /\ Idle
    /\ eanswers[n] # <<>> /\ Head(eanswers[n]).what = "shutdown"
    /\ eanswers' = [eanswers EXCEPT ![n] = Tail(@)]
    /\ LET r == Head(eanswers[n]).req IN
       \/ /\ Awaits(r, "shutdown")
          /\ proc' = [proc EXCEPT ![n] = "none"]
          /\ live' = live \ {n}
          /\ SystemdCall(r, "stopUnit")
          /\ Suspend(r, "stopUnit", <<>>)
       \/ /\ ~Awaits(r, "shutdown")
          /\ UNCHANGED <<proc, live, calls, chain, stack>>
    /\ UNCHANGED <<daemon, tree, known, op, target, reply, queueVars,
                   ns, ecalls, jobs, unit, inbox>>

(***************************************************************************)
(* sd-bus answers a pending call with an error of its own: when the        *)
(* connection is closed, or when the call has timed out (the loop never    *)
(* asks for the timeout, but polls for EPOLLOUT too and so spins).         *)
(***************************************************************************)
EntitydHangup(r) ==
    /\ Idle
    /\ Awaits(r, "component") \/ Awaits(r, "shutdown")
    /\ eanswers[Frame(r).ent] = <<>>
    /\ proc[Frame(r).ent] # "running"
    /\ Fail(r, <<>>)
    /\ UNCHANGED <<daemon, tree, known, op, target, queueVars, worldVars>>

EntitydCallTimesOut(r) ==
    /\ Idle
    /\ "entitydTimeout" \in Faults
    /\ Awaits(r, "component") \/ Awaits(r, "shutdown")
    /\ eanswers[Frame(r).ent] = <<>>
    /\ Fail(r, <<>>)
    /\ UNCHANGED <<daemon, tree, known, op, target, queueVars, worldVars>>

SystemdCallTimesOut(r) ==
    /\ Idle
    /\ "systemdTimeout" \in Faults
    /\ \E i \in 1..Len(calls) : calls[i].req = r /\ Awaits(r, calls[i].what)
    /\ Fail(r, <<>>)
    /\ UNCHANGED <<daemon, tree, known, op, target, queueVars, worldVars>>

-----------------------------------------------------------------------------
(* The service loop dispatches a message of systemd. *)

JobOf == [slice |-> "sliceJob", scope |-> "scopeJob", stopUnit |-> "stopJob"]

(* The reply to a unit call: the coroutine registers for the job's end. *)
DeliverReply ==
    /\ Idle
    /\ inbox # <<>> /\ Head(inbox).type = "reply"
    /\ inbox' = Tail(inbox)
    /\ LET call == Head(inbox).call
           r    == call.req
       IN
       \/ /\ Awaits(r, call.what) /\ Head(inbox).ok
          /\ Suspend(r, JobOf[call.what], <<>>)
          /\ UNCHANGED reply
       \/ /\ Awaits(r, call.what) /\ ~Head(inbox).ok
          /\ Fail(r, <<>>)
       \/ /\ ~Awaits(r, call.what)
          /\ UNCHANGED <<reply, chain, stack>>
    /\ UNCHANGED <<daemon, tree, known, op, target, queueVars,
                   live, entitydVars, calls, jobs, unit>>

(* Mutant: stop() matches its own job only, which may be one that was there. *)
MatchesOwnJob(r, call) ==
    call.req = r /\ call.what \in DOMAIN JobOf /\ Awaits(r, JobOf[call.what])

(***************************************************************************)
(* start() matches a JobRemoved signal by the path of the job it was told  *)
(* of, stop() by the name of the slice, whatever the job.                  *)
(***************************************************************************)
Matches(r, call) ==
    \/ /\ call.what \in {"slice", "scope"}
       /\ Awaits(r, JobOf[call.what])
       /\ call = Call(r, call.what)
    \/ /\ call.what # "scope"
       /\ Awaits(r, "stopJob")
       /\ Slice[Frame(r).ent] = Slice[call.ent]

JobDone(r) ==
    \/ /\ Awaits(r, "sliceJob")
       /\ SystemdCall(r, "scope")
       /\ Suspend(r, "scope", <<>>)
       /\ UNCHANGED reply
    \/ /\ Awaits(r, "scopeJob")
       /\ chain' = At(r, "components")
       /\ stack' = <<Run(r)>>
       /\ UNCHANGED <<calls, reply>>
    \/ /\ Awaits(r, "stopJob")
       /\ Return(r, <<>>)
       /\ UNCHANGED calls

(* The signal matches nothing. *)
Ignored(call) ==
    /\ \A r \in Requests : ~Matches(r, call)
    /\ UNCHANGED <<reply, chain, stack, calls>>

(* Mutant: the result of the job is not looked at. *)
DeliverJobRemovedUnchecked ==
    /\ Idle
    /\ inbox # <<>> /\ Head(inbox).type = "removed"
    /\ inbox' = Tail(inbox)
    /\ \/ \E r \in Requests : Matches(r, Head(inbox).call) /\ JobDone(r)
       \/ Ignored(Head(inbox).call)
    /\ UNCHANGED <<daemon, tree, known, op, target, queueVars,
                   live, entitydVars, jobs, unit>>

(***************************************************************************)
(* A JobRemoved signal is offered to the subscriptions in turn.  The first *)
(* that matches takes it: its callback returns 1, which ends the dispatch, *)
(* here as in module SignalMatch.                                          *)
(***************************************************************************)
DeliverJobRemoved ==
    /\ Idle
    /\ inbox # <<>> /\ Head(inbox).type = "removed"
    /\ inbox' = Tail(inbox)
    /\ \/ \E r \in Requests :
             /\ Matches(r, Head(inbox).call)
             /\ \/ Head(inbox).ok /\ JobDone(r)
                \/ ~Head(inbox).ok /\ Fail(r, <<>>) /\ UNCHANGED calls
       \/ Ignored(Head(inbox).call)
    /\ UNCHANGED <<daemon, tree, known, op, target, queueVars,
                   live, entitydVars, jobs, unit>>

-----------------------------------------------------------------------------
(* systemd handles the calls of one connection in order.  A call is        *)
(* refused, or it installs a job and the reply precedes the JobRemoved     *)
(* signal of that job.  A slice that was created or has a job cannot be    *)
(* created again; one that is active may just have been started together   *)
(* with a slice inside it, and can.  A stop job cancels the start job of   *)
(* its slice, whose signal precedes the reply; two stop jobs of a slice    *)
(* become one.  A slice is started together with the slices around it, and *)
(* is stopped after the slices inside it.                                  *)

Message(type, call, ok) == [type |-> type, call |-> call, ok |-> ok]
Outcomes(fault)         == {TRUE} \cup (IF fault THEN {FALSE} ELSE {})
JobsOn(S, what)         == {j \in jobs : Slice[j.ent] \in S /\ j.what = what}

(* The signals of jobs that are cancelled, in any order. *)
Cancelled(starts) ==
    {[i \in DOMAIN order |-> Message("removed", order[i], FALSE)] : order \in SetToSeqs(starts)}

(* A stop job of slice s, and of each active slice in it, that has none yet. *)
StopJobs(r, s) ==
    {[req |-> r, what |-> "stopUnit", ent |-> CHOOSE n \in Names : Slice[n] = t] :
        t \in {t \in {s} \cup (Inside[s] \cap unit) : JobsOn({t}, "stopUnit") = {}}}

SystemdHandles ==
    /\ daemon = "up"
    /\ calls # <<>>
    /\ calls' = Tail(calls)
    /\ LET call    == Head(calls)
           s       == Slice[call.ent]
           starts  == JobsOn({s} \cup Inside[s], "slice")
           exists  == call.what = "slice"
                      /\ \/ s \in unit /\ Inside[s] = {}
                         \/ JobsOn({s}, "slice") \cup JobsOn({s}, "stopUnit") # {}
           active  == call.what = "slice" /\ s \in unit
           noPid   == call.what = "scope" /\ proc[call.ent] # "running"
           stop    == call.what = "stopUnit"
       IN  \E ok \in IF exists THEN {FALSE} ELSE Outcomes("call" \in Faults \/ active \/ noPid) :
              IF ok
              THEN /\ jobs' = IF stop THEN (jobs \ starts) \cup StopJobs(call.req, s)
                              ELSE jobs \cup {call}
                   /\ \E signals \in Cancelled(IF stop THEN starts ELSE {}) :
                         inbox' = inbox \o signals \o <<Message("reply", call, TRUE)>>
              ELSE /\ inbox' = Append(inbox, Message("reply", call, FALSE))
                   /\ UNCHANGED jobs
    /\ UNCHANGED <<daemonVars, queueVars, live, entitydVars, unit>>

(* The entityds in slice s that run in a scope of their own. *)
InSlice(s) == {n \in Names : Slice[n] = s /\ Scope(n) \in unit /\ proc[n] = "running"}

(* A job is done: the unit is started, or stopped and its processes killed. *)
JobEffect(job) ==
    LET s == Slice[job.ent]
        killed == IF job.what = "stopUnit" THEN InSlice(s) ELSE {}
    IN
    /\ unit' = CASE job.what = "slice"    -> unit \cup {s} \cup {t \in Slices : s \in Inside[t]}
                 [] job.what = "scope"    -> unit \cup {Scope(job.ent)}
                 [] job.what = "stopUnit" -> unit \ ({s} \cup {Scope(n) : n \in killed})
    /\ proc' = [n \in Names |-> IF n \in killed THEN "dead" ELSE proc[n]]
    /\ ecalls' = [n \in Names |-> IF n \in killed THEN <<>> ELSE ecalls[n]]

SystemdFinishes(job) ==
    /\ daemon = "up"
    /\ job \in jobs
    /\ job.what = "stopUnit" => JobsOn(Inside[Slice[job.ent]], "stopUnit") = {}
    /\ jobs' = jobs \ {job}
    /\ \E ok \in Outcomes("job" \in Faults) :
          /\ inbox' = Append(inbox, Message("removed", job, ok))
          /\ \/ ok /\ JobEffect(job)
             \/ ~ok /\ UNCHANGED <<unit, proc, ecalls>>
    /\ UNCHANGED <<daemonVars, queueVars, live, ns, eanswers, calls>>

-----------------------------------------------------------------------------
(* nonsense-entityd, as far as the daemon can tell.  The model, and with   *)
(* it systemd and the entityds, stops where the daemon does.               *)

Handles(n, what) == ecalls[n] # <<>> /\ Head(ecalls[n]).what = what

(***************************************************************************)
(* add_component and add_network: an end of the link is moved into the     *)
(* namespace of the uplink, which has to exist.                            *)
(***************************************************************************)
EntitydAdds(n) ==
    /\ daemon = "up"
    /\ Handles(n, "component")
    /\ Uplink[n] # None => ns[Uplink[n]] = "up"
    /\ ns' = [ns EXCEPT ![n] = "up"]
    /\ ecalls' = [ecalls EXCEPT ![n] = Tail(@)]
    /\ eanswers' = [eanswers EXCEPT ![n] = Append(@, Head(ecalls[n]))]
    /\ UNCHANGED <<daemonVars, queueVars, live, proc, systemdVars>>

(* A step of add_network throws, and its handler asserts. *)
EntitydAborts(n) ==
    /\ daemon = "up"
    /\ Handles(n, "component")
    /\ "component" \in Faults \/ (Uplink[n] # None /\ ns[Uplink[n]] # "up")
    /\ proc' = [proc EXCEPT ![n] = "dead"]
    /\ ecalls' = [ecalls EXCEPT ![n] = <<>>]
    /\ UNCHANGED <<daemonVars, queueVars, live, ns, eanswers, systemdVars>>

(* handle_shutdown: the cleanups, the reply, exit. *)
EntitydShutsDown(n) ==
    /\ daemon = "up"
    /\ Handles(n, "shutdown")
    /\ ns' = [ns EXCEPT ![n] = "down"]
    /\ proc' = [proc EXCEPT ![n] = "dead"]
    /\ eanswers' = [eanswers EXCEPT ![n] = Append(@, Head(ecalls[n]))]
    /\ ecalls' = [ecalls EXCEPT ![n] = <<>>]
    /\ UNCHANGED <<daemonVars, queueVars, live, systemdVars>>

(* The process is killed; nothing in the daemon watches for that. *)
EntitydDies(n) ==
    /\ daemon = "up"
    /\ "die" \in Faults
    /\ proc[n] = "running"
    /\ proc' = [proc EXCEPT ![n] = "dead"]
    /\ ecalls' = [ecalls EXCEPT ![n] = <<>>]
    /\ UNCHANGED <<daemonVars, queueVars, live, ns, eanswers, systemdVars>>

(***************************************************************************)
(* The daemon is killed, or is gone already, and the next call activates a *)
(* new one, which reads the configuration file and knows nothing else.     *)
(* Clients that waited get an error from the bus, and the entityds find    *)
(* their connection closed, clean up and exit (module Entityd).  The       *)
(* slices, and what systemd was asked to do, stay.                         *)
(***************************************************************************)
DaemonRestarts ==
    /\ "crash" \in Faults
    /\ daemon' = "up"
    /\ tree' = 0
    /\ known' = Configured
    /\ reply' = [r \in Requests |-> IF reply[r] = "pending" THEN "error" ELSE reply[r]]
    /\ chain' = [r \in Requests |-> <<>>]
    /\ stack' = <<>>
    /\ held' = [n \in Names |-> FALSE]
    /\ queue' = [n \in Names |-> <<>>]
    /\ live' = {}
    /\ proc' = [n \in Names |-> "none"]
    /\ ns' = [n \in Names |-> "down"]
    /\ ecalls' = [n \in Names |-> <<>>]
    /\ eanswers' = [n \in Names |-> <<>>]
    /\ inbox' = <<>>
    /\ UNCHANGED <<op, target, calls, jobs, unit>>

-----------------------------------------------------------------------------
RunStep(r) ==
    \/ Enqueue(r)
    \/ StartAlreadyLive(r)
    \/ StartUplink(r)
    \/ DanglingCrash(r)
    \/ Spawn(r)
    \/ SpawnForkFails(r)
    \/ SpawnAllocFails(r)
    \/ SpawnBusFails(r)
    \/ SpawnHandshakeFails(r)
    \/ Components(r)
    \/ StopNotLive(r)
    \/ StopShutdown(r)
    \/ StopBusClosed(r)

Executes == DropToken \/ \E r \in Requests : RunStep(r)

SystemBusStep == DeliverReply \/ DeliverJobRemoved

EntityBusStep(n) ==
    \/ DeliverComponent(n)
    \/ DanglingAdvance(n)
    \/ DeliverShutdown(n)
    \/ \E r \in Requests : chain[r] # <<>> /\ Frame(r).ent = n /\ EntitydHangup(r)

SystemdStep == SystemdHandles \/ \E job \in jobs : SystemdFinishes(job)

EntitydStep(n) == EntitydAdds(n) \/ EntitydAborts(n) \/ EntitydShutsDown(n)

Next ==
    \/ \E r \in Requests, o \in Ops, n \in Names : Request(r, o, n)
    \/ \E n \in Names \cup {None} : Commit(n)
    \/ Executes
    \/ SystemBusStep
    \/ \E n \in Names : EntityBusStep(n)
    \/ \E r \in Requests : EntitydCallTimesOut(r) \/ SystemdCallTimesOut(r)
    \/ SystemdStep
    \/ \E n \in Names : EntitydStep(n) \/ EntitydDies(n)
    \/ DaemonRestarts

Spec == Init /\ [][Next]_vars

(***************************************************************************)
(* The service loop serves every bus: both EPOLLIN and EPOLLOUT are polled *)
(* for, level triggered, so epoll_wait reports each bus in turn.  systemd  *)
(* handles calls and finishes jobs, and an entityd answers.  Requests,     *)
(* commits, timeouts and deaths of an entityd need not happen.             *)
(***************************************************************************)
FairSpec ==
    /\ Spec
    /\ WF_vars(Executes)
    /\ WF_vars(SystemBusStep)
    /\ WF_vars(SystemdStep)
    /\ \A n \in Names : WF_vars(EntityBusStep(n)) /\ WF_vars(EntitydStep(n))
-----------------------------------------------------------------------------
Pcs == {"enqueue", "queued", "entered", "uplink", "spawn", "slice", "sliceJob", "scope",
        "scopeJob", "components", "component", "shutdown", "stopUnit", "stopJob"}

Frames     == [ent : Names, pc : Pcs, tree : 0..MaxCommits]
Depths     == 1..(Cardinality(Names) + 1)
Coroutines == Requests \X Depths
StackItems == [kind : {"run"}, req : Requests]
              \cup [kind : {"drop"}, req : Requests, depth : Depths, ent : Names]
Calls      == [req : Requests, ent : Names,
               what : {"slice", "scope", "stopUnit", "component", "shutdown"}]

(***************************************************************************)
(* The values every variable ranges over.  A request has at most one frame *)
(* more than there are entities, even when an entity is its own uplink:    *)
(* all but the innermost hold the tokens of different entities.            *)
(***************************************************************************)
TypeOK ==
    /\ daemon \in {"up", "aborted"}
    /\ tree \in 0..MaxCommits
    /\ known \subseteq Names
    /\ op \in [Requests -> {"none", "start", "stop"}]
    /\ target \in [Requests -> Names \cup {None}]
    /\ reply \in [Requests -> {"none", "pending", "ok", "error"}]
    /\ \A r \in Requests : chain[r] \in Seq(Frames) /\ Depth(r) \in 0..(Cardinality(Names) + 1)
    /\ stack \in Seq(StackItems)
    /\ held \in [Names -> BOOLEAN]
    /\ queue \in [Names -> Seq(Coroutines)]
    /\ live \subseteq Names
    /\ proc \in [Names -> {"none", "running", "dead"}]
    /\ ns \in [Names -> {"down", "up"}]
    /\ ecalls \in [Names -> Seq(Calls)]
    /\ eanswers \in [Names -> Seq(Calls)]
    /\ calls \in Seq(Calls)
    /\ jobs \subseteq Calls
    /\ unit \subseteq Slices \cup {Scope(n) : n \in Names}
    /\ inbox \in Seq([type : {"reply", "removed"}, call : Calls, ok : BOOLEAN])

(***************************************************************************)
(* The coroutines use the entity queues as module EntityQueue describes:   *)
(* a token lives in a frame that is past its co_await enqueue(), or that   *)
(* is about to be left or destroyed.  No path through start(), stop(),     *)
(* return_value and destroy() loses a token or gives one back twice.       *)
(***************************************************************************)
Tokens(n) ==
    {c \in Coroutines :
        /\ c[2] \in DOMAIN chain[c[1]]
        /\ chain[c[1]][c[2]].ent = n
        /\ chain[c[1]][c[2]].pc \notin {"enqueue", "queued"}}
    \cup {<<stack[i].req, stack[i].depth>> :
            i \in {j \in DOMAIN stack : stack[j].kind = "drop" /\ stack[j].ent = n}}

Queue == INSTANCE EntityQueue WITH tokens <- [n \in Names |-> Tokens(n)]

(* Every step of the coroutines is a step of the queue, or none of its. *)
ImplementsQueue == Queue!Spec

(***************************************************************************)
(* A coroutine never waits for something that will not come: for every     *)
(* suspended frame the call, the job or the message that resumes it is     *)
(* still on its way.  For jobs this is why subscribing before the call,    *)
(* and matching in the very step that reads the reply, is enough.          *)
(***************************************************************************)
Resumable(r) ==
    LET n == Frame(r).ent
        pc == Frame(r).pc
        replies == {inbox[i].call : i \in {j \in DOMAIN inbox : inbox[j].type = "reply"}}
        removed == {inbox[i].call : i \in {j \in DOMAIN inbox : inbox[j].type = "removed"}}
        sent == {calls[i] : i \in DOMAIN calls}
    IN  CASE pc \in {"slice", "scope", "stopUnit"} ->
                Call(r, pc) \in sent \cup replies
          [] pc = "sliceJob" -> Call(r, "slice") \in jobs \cup removed
          [] pc = "scopeJob" -> Call(r, "scope") \in jobs \cup removed
          [] pc = "stopJob"  -> \E c \in jobs \cup removed : c.what = "stopUnit" /\ Slice[c.ent] = Slice[n]
          [] pc \in {"component", "shutdown"} ->
                \/ proc[n] # "running"
                \/ \E i \in DOMAIN ecalls[n] : ecalls[n][i].req = r
                \/ \E i \in DOMAIN eanswers[n] : eanswers[n][i].req = r
          [] pc = "queued" -> \E i \in DOMAIN queue[n] : queue[n][i] = <<r, Depth(r)>>
          [] OTHER -> Run(r) \in {stack[i] : i \in DOMAIN stack}

NoLostWakeup ==
    daemon = "up" => \A r \in Requests : chain[r] # <<>> => Resumable(r)

(***************************************************************************)
(* A running entityd is always in _live_entities, so that a Stop can reach *)
(* it: start() and stop() never forget a process.                          *)
(***************************************************************************)
NoOrphan == \A n \in Names : proc[n] = "running" => n \in live

Up(n) == proc[n] = "running" /\ (n \in Networked => ns[n] = "up")

(***************************************************************************)
(* A successful answer to Stop means that the entity is down: its process  *)
(* is gone, its namespace is torn down, its slice is inactive and nothing  *)
(* of it is left in _live_entities.                                        *)
(***************************************************************************)
StopOkMeansDown ==
    [][\A r \in Requests :
          (op[r] = "stop" /\ reply[r] = "pending" /\ reply'[r] = "ok") =>
             /\ target[r] \notin live
             /\ proc[target[r]] = "none"
             /\ ns[target[r]] = "down"
             /\ Slice[target[r]] \notin unit]_vars

(***************************************************************************)
(* A successful answer to Start means that the entity is up.               *)
(***************************************************************************)
StartOkMeansUp ==
    [][\A r \in Requests :
          (op[r] = "start" /\ reply[r] = "pending" /\ reply'[r] = "ok") => Up(target[r])]_vars

(***************************************************************************)
(* An entityd is only told to add a network component once the whole chain *)
(* of uplinks above it is up.                                              *)
(***************************************************************************)
UplinkFirst ==
    \A n \in Names : (ecalls[n] # <<>> /\ Uplink[n] # None) => Up(Uplink[n])

(* No request and no failure of another process takes the daemon down. *)
DaemonStaysUp == daemon = "up"

(***************************************************************************)
(* No coroutine reads the json object of its entity after Commit has       *)
(* replaced the tree the object was part of.                               *)
(***************************************************************************)
ReadsSelf(r) ==
    \/ Running(r, "components")
    \/ Running(r, "entered") /\ op[r] = "start" /\ Frame(r).ent \notin live

NoDanglingSelf == \A r \in Requests : ReadsSelf(r) => Frame(r).tree = tree

(* Every Start and every Stop is answered, unless the daemon is gone. *)
Answered ==
    \A r \in Requests :
        reply[r] = "pending" ~> (reply[r] # "pending" \/ daemon = "aborted")
=============================================================================
