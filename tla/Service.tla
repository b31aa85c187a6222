------------------------------ MODULE Service ------------------------------
(***************************************************************************)
(* service::loop (src/daemon/service.cpp) and the life of the buses it     *)
(* serves: the bus to the system, and one per live entity, which           *)
(* entity::start creates and registers and entity::stop unregisters and    *)
(* gives up, both from inside a handler that the loop has called.          *)
(*                                                                         *)
(* A bus object has a socket and a queue of messages that were read from   *)
(* the socket but not dispatched: a blocking call, which sd-bus makes when *)
(* a subscription is created, reads the system bus until its reply comes   *)
(* and leaves there what it read before that.                              *)
(***************************************************************************)
EXTENDS Naturals, Sequences

CONSTANTS
    Main,        \* the bus to the system
    Buses,       \* bus objects of entities; a restarted entity has a new one
    MaxOthers    \* bound on the messages that neither start nor stop an entity

ASSUME ServiceAssumption ==
    /\ Main \notin Buses
    /\ MaxOthers \in Nat

All == Buses \cup {Main}

VARIABLES
    daemon,      \* "up", or "exited"
    current,     \* the bus pointer of the loop
    waiting,     \* is the loop in epoll_wait
    registered,  \* the buses in the epoll set
    life,        \* life[b]: who refers to bus object b
    sock,        \* sock[b]: messages in the socket
    rqueue,      \* rqueue[b]: messages read, not dispatched
    eof,         \* the buses whose other end is closed
    others       \* how many other messages were sent

worldVars == <<sock, eof, others>>
vars      == <<daemon, current, waiting, registered, life, sock, rqueue, eof, others>>

Message(what, b) == [what |-> what, bus |-> b]

(* Pointers to b are valid while _live_entities, or a message that a frame keeps, has it. *)
Valid(b) == life[b] \in {"live", "kept"}

Init ==
    /\ daemon = "up"
    /\ current = Main
    /\ waiting = FALSE
    /\ registered = {Main}
    /\ life = [b \in All |-> IF b = Main THEN "live" ELSE "none"]
    /\ sock = [b \in All |-> <<>>]
    /\ rqueue = [b \in All |-> <<>>]
    /\ eof = {}
    /\ others = 0

-----------------------------------------------------------------------------
(* What the loop is sent. *)

Sends(b, m) == sock' = [sock EXCEPT ![b] = Append(@, m)]
Environment == daemon = "up" /\ UNCHANGED <<daemon, current, waiting, registered, life, rqueue>>

(* A client asks for an entity to be started: b will be its bus. *)
ClientStarts(b) ==
    /\ Environment
    /\ life[b] = "none"
    /\ \A i \in DOMAIN sock[Main] : sock[Main][i] # Message("start", b)
    /\ \A i \in DOMAIN rqueue[Main] : rqueue[Main][i] # Message("start", b)
    /\ Sends(Main, Message("start", b))
    /\ UNCHANGED <<eof, others>>

(* An entityd has been told to shut down, answers and exits. *)
EntitydAnswersShutdown(b) ==
    /\ Environment
    /\ life[b] = "live" /\ b \in Buses \ eof
    /\ Sends(b, Message("shutdown", b))
    /\ eof' = eof \cup {b}
    /\ UNCHANGED others

EntitydDies(b) ==
    /\ Environment
    /\ life[b] = "live" /\ b \in Buses \ eof
    /\ eof' = eof \cup {b}
    /\ UNCHANGED <<sock, others>>

(* The answer to the StopUnit call of entity::stop. *)
SystemdAnswersStop(b) ==
    /\ Environment
    /\ life[b] = "kept"
    /\ \A i \in DOMAIN sock[Main] : sock[Main][i] # Message("stopped", b)
    /\ \A i \in DOMAIN rqueue[Main] : rqueue[Main][i] # Message("stopped", b)
    /\ Sends(Main, Message("stopped", b))
    /\ UNCHANGED <<eof, others>>

SendsOther(b) ==
    /\ Environment
    /\ life[b] = "live" /\ b \notin eof
    /\ others < MaxOthers
    /\ Sends(b, Message("other", b))
    /\ others' = others + 1
    /\ UNCHANGED eof

SystemBusCloses ==
    /\ Environment
    /\ Main \notin eof
    /\ eof' = eof \cup {Main}
    /\ UNCHANGED <<sock, others>>

-----------------------------------------------------------------------------
(* The handlers, as far as they change the buses. *)

(* A signal_subscription is created: a blocking AddMatch call on the system bus. *)
Subscribes(sock0, rqueue0) ==
    \E k \in 0..Len(sock0[Main]) :
        /\ rqueue' = [rqueue0 EXCEPT ![Main] = @ \o SubSeq(sock0[Main], 1, k)]
        /\ sock' = [sock0 EXCEPT ![Main] = SubSeq(@, k + 1, Len(@))]

register_bus(b)   == registered' = registered \cup {b}
unregister_bus(b) == registered' = registered \ {b}

(* entity::start: a new bus, entered into _live_entities and registered. *)
HandlesStart(b, sock0, rqueue0) ==
    /\ life' = [life EXCEPT ![b] = "live"]
    /\ register_bus(b)
    /\ Subscribes(sock0, rqueue0)

(* Mutant: the answer is not kept, and erase() frees its bus. *)
HandlesShutdownFrees(b, sock0, rqueue0) ==
    /\ unregister_bus(b)
    /\ life' = [life EXCEPT ![b] = "freed"]
    /\ Subscribes(sock0, rqueue0)

(* Mutant: the bus is not unregistered. *)
HandlesShutdownRegistered(b, sock0, rqueue0) ==
    /\ UNCHANGED registered
    /\ life' = [life EXCEPT ![b] = "kept"]
    /\ Subscribes(sock0, rqueue0)

(***************************************************************************)
(* entity::stop after Shutdown has answered: unregister_bus, and erase()   *)
(* drops the reference of _live_entities.  The answer, and through it its  *)
(* bus, is kept in the local variable reply.                               *)
(***************************************************************************)
HandlesShutdown(b, sock0, rqueue0) ==
    /\ unregister_bus(b)
    /\ life' = [life EXCEPT ![b] = "kept"]
    /\ Subscribes(sock0, rqueue0)

(* entity::stop: the answer to StopUnit replaces the one kept in reply. *)
HandlesStopped(b, sock0, rqueue0) ==
    /\ life' = [life EXCEPT ![b] = "freed"]
    /\ UNCHANGED registered
    /\ sock' = sock0
    /\ rqueue' = rqueue0

Handles(m, sock0, rqueue0) ==
    \/ m.what = "start" /\ HandlesStart(m.bus, sock0, rqueue0)
    \/ m.what = "shutdown" /\ HandlesShutdown(m.bus, sock0, rqueue0)
    \/ m.what = "stopped" /\ HandlesStopped(m.bus, sock0, rqueue0)
    \/ /\ m.what = "other"
       /\ sock' = sock0
       /\ rqueue' = rqueue0
       /\ UNCHANGED <<life, registered>>

-----------------------------------------------------------------------------
(* sd_bus_process on the current bus. *)

Processing == daemon = "up" /\ ~waiting

(* It dispatches a message it has read before, or reads one and dispatches it: ret > 0. *)
ProcessQueued ==
    /\ Processing
    /\ rqueue[current] # <<>>
    /\ Handles(Head(rqueue[current]), sock, [rqueue EXCEPT ![current] = Tail(@)])
    /\ UNCHANGED <<daemon, current, waiting, eof, others>>

ProcessRead ==
    /\ Processing
    /\ rqueue[current] = <<>>
    /\ sock[current] # <<>>
    /\ Handles(Head(sock[current]), [sock EXCEPT ![current] = Tail(@)], rqueue)
    /\ UNCHANGED <<daemon, current, waiting, eof, others>>

(* There is nothing to do: ret = 0. *)
ProcessNothing ==
    /\ Processing
    /\ rqueue[current] = <<>> /\ sock[current] = <<>>
    /\ current \notin eof
    /\ waiting' = TRUE
    /\ UNCHANGED <<daemon, current, registered, life, worldVars, rqueue>>

(* The connection is closed, and with it the socket, which leaves the epoll set. *)
ProcessFails ==
    /\ Processing
    /\ rqueue[current] = <<>> /\ sock[current] = <<>>
    /\ current \in eof
    /\ registered' = registered \ {current}
    /\ IF current = Main
       THEN daemon' = "exited" /\ UNCHANGED waiting
       ELSE waiting' = TRUE /\ UNCHANGED daemon
    /\ UNCHANGED <<current, life, worldVars, rqueue>>

Process == ProcessQueued \/ ProcessRead \/ ProcessNothing \/ ProcessFails

(* Mutant: buses are registered for EPOLLIN only. *)
ReadyIn(b) == b \in registered /\ (sock[b] # <<>> \/ b \in eof)

(* Buses are registered for EPOLLIN and EPOLLOUT, and a socket can be written to. *)
Ready(b) == b \in registered

(* epoll_wait returns one event. *)
Wakes(b) ==
    /\ daemon = "up" /\ waiting
    /\ Ready(b)
    /\ current' = b
    /\ waiting' = FALSE
    /\ UNCHANGED <<daemon, registered, life, worldVars, rqueue>>

Next ==
    \/ \E b \in Buses : \/ ClientStarts(b) \/ EntitydAnswersShutdown(b) \/ EntitydDies(b)
                        \/ SystemdAnswersStop(b)
    \/ \E b \in All : SendsOther(b)
    \/ SystemBusCloses
    \/ Process
    \/ \E b \in All : Wakes(b)

Spec == Init /\ [][Next]_vars

(* epoll_wait goes round the ready descriptors: each is reported again and again. *)
FairSpec == Spec /\ WF_vars(Process) /\ \A b \in All : SF_vars(Wakes(b))
-----------------------------------------------------------------------------
What == {"start", "shutdown", "stopped", "other"}

(* The values the variables range over; an entity's bus is registered only while it is live. *)
TypeOK ==
    /\ daemon \in {"up", "exited"}
    /\ current \in All
    /\ waiting \in BOOLEAN
    /\ registered \subseteq All
    /\ life \in [All -> {"none", "live", "kept", "freed"}]
    /\ sock \in [All -> Seq([what : What, bus : All])]
    /\ rqueue \in [All -> Seq([what : What, bus : All])]
    /\ eof \subseteq All
    /\ others \in 0..MaxOthers
    /\ \A b \in registered : life[b] = "live"

(***************************************************************************)
(* The loop never uses a bus that has been freed, neither the one it is at *)
(* (a handler that gives its own bus up returns to sd_bus_process on it)   *)
(* nor one that epoll_wait may report.                                     *)
(***************************************************************************)
NoFreedBus ==
    /\ daemon = "up" /\ ~waiting => Valid(current)
    /\ \A b \in registered : Valid(b)

(***************************************************************************)
(* Every message that reaches the daemon is dispatched, also one that was  *)
(* read ahead of its turn by a blocking call inside a handler of another   *)
(* bus, unless the daemon is gone.                                         *)
(***************************************************************************)
Undispatched(b) == rqueue[b] # <<>> \/ sock[b] # <<>>

EveryMessageDispatched ==
    \A b \in All : Undispatched(b) ~> (~Undispatched(b) \/ daemon = "exited")
=============================================================================
