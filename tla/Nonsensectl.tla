---------------------------- MODULE Nonsensectl ----------------------------
(***************************************************************************)
(* Users who run nonsensectl (src/control/main.cpp) against the daemon,    *)
(* with the transaction manager of module Transactions on the other end.   *)
(*                                                                         *)
(* An invocation checks its arguments, makes at most one blocking call on  *)
(* the system bus and exits with 0 or 1.  The daemon reads calls in the    *)
(* order in which they were made and handles one at a time.  Scripts hand  *)
(* tokens around: the token get new-transaction-token prints may be used   *)
(* by any user, in any number of concurrent invocations.                   *)
(*                                                                         *)
(* add puts the text of its token into an object path, commit and discard  *)
(* read it as a hexadecimal number.  A token is therefore a number and how *)
(* it is written: as it was printed, with its leading zeros, or bare.      *)
(***************************************************************************)
EXTENDS Transactions

CONSTANTS
    Users,        \* who run commands, each one command at a time
    Uid,          \* the uid of each user
    Commands,     \* the commands they run
    Faults,       \* "bus": the bus cannot be reached; "timeout": a call times out
    MaxCommands   \* bound on the commands run by all users

ASSUME NonsensectlAssumption ==
    /\ Uid \in [Users -> Uids]
    /\ Faults \subseteq {"bus", "timeout"}
    /\ MaxCommands \in Nat
    /\ \A c \in Commands :
          /\ DOMAIN c = {"verb", "token", "wellFormed", "name", "parameters"}
          /\ c.verb = "add" => c.name \in Names /\ c.parameters \in Parameters
    /\ None \notin [user : Users, serial : 1..MaxCommands, command : Commands]

VARIABLES
    command,     \* the command each user runs, or ran last
    exit,        \* its exit status, or "waiting", or "none"
    count,       \* how many commands there have been
    serial,      \* the number of each user's command
    bus,         \* the calls the daemon has not read
    serving,     \* the call whose commit is being executed
    acting,      \* the calls of Start and Stop whose coroutines have not ended
    replies,     \* answers on their way to the clients
    issued,      \* identifiers there ever were: 64 random bits do not repeat
    acked,       \* history: the adds that have exited with 0
    promised     \* history: those a commit found when it was run

clientVars == <<command, exit, count, serial, bus, serving, acting, replies, issued, acked, promised>>

CtlInit ==
    /\ Init
    /\ command = [u \in Users |-> None]
    /\ exit = [u \in Users |-> "none"]
    /\ count = 0
    /\ serial = [u \in Users |-> 0]
    /\ bus = <<>>
    /\ serving = None
    /\ acting = {}
    /\ replies = {}
    /\ issued = {}
    /\ acked = {}
    /\ promised = [u \in Users |-> {}]
-----------------------------------------------------------------------------
(* The errors found before anything is sent. *)

(* main: a verb that is not known. *)
UnknownVerb(c) == c.verb = "unknown"

(* A handler: arguments of the wrong number, or a parameter without "=". *)
IllFormed(c) == ~c.wellFormed

(* finalize_handler: a token that is missing, or is no hexadecimal number. *)
IsNumber(token)   == token # None /\ token.id \in Ids
InvalidToken(c) == c.verb \in {"commit", "discard"} /\ ~IsNumber(c.token)

Usage(c) == UnknownVerb(c) \/ IllFormed(c) \/ InvalidToken(c)

AckedFor(id) == {a \in acked : a.id = id}

(* main and a handler, up to sd_bus_call. *)
Invoke(u, c) ==
    /\ exit[u] # "waiting" /\ count < MaxCommands
    /\ command' = [command EXCEPT ![u] = c]
    /\ count' = count + 1
    /\ serial' = [serial EXCEPT ![u] = count']
    /\ promised' = [promised EXCEPT ![u] =
                       IF c.verb = "commit" /\ IsNumber(c.token) THEN AckedFor(c.token.id) ELSE {}]
    /\ \/ /\ Usage(c) \/ "bus" \in Faults
          /\ exit' = [exit EXCEPT ![u] = "1"]
          /\ UNCHANGED bus
       \/ /\ ~Usage(c)
          /\ exit' = [exit EXCEPT ![u] = "waiting"]
          /\ bus' = Append(bus, [user |-> u, serial |-> count', command |-> c])
    /\ UNCHANGED <<vars, serving, acting, replies, issued, acked>>

-----------------------------------------------------------------------------
(* What the call of each handler does in the daemon. *)

get_transaction_token(uid) ==
    \/ \E id \in Ids \ issued : New(uid, id) /\ issued' = issued \cup {id}
    \/ Ids \subseteq issued /\ CallFails /\ UNCHANGED issued   \* the bound on identifiers

(* Get is declared with three arguments and is sent two. *)
get_property == CallFails

(* The open transaction whose object path is made with the text of the token. *)
Named(c) == {id \in DOMAIN open : c.token = [id |-> id, printed |-> TRUE]}

(***************************************************************************)
(* Without a token the call goes to the running configuration, which has   *)
(* no method Add.                                                          *)
(***************************************************************************)
add_handler(uid, c) ==
    \/ \E id \in Named(c) : AddOperation(uid, id, c.name, c.parameters)
    \/ Named(c) = {} /\ CallFails

finalize_handler(uid, c) ==
    \/ c.verb = "commit" /\ CommitBegin(uid, c.token.id)
    \/ c.verb = "discard" /\ Discard(uid, c.token.id)

(* The running configuration has no methods Lock and Unlock. *)
locking_handler == CallFails

Method(uid, c) ==
    \/ c.verb = "get new-transaction-token" /\ get_transaction_token(uid)
    \/ c.verb = "get" /\ get_property /\ UNCHANGED issued
    \/ c.verb = "add" /\ add_handler(uid, c) /\ UNCHANGED issued
    \/ c.verb \in {"commit", "discard"} /\ finalize_handler(uid, c) /\ UNCHANGED issued
    \/ c.verb \in {"lock", "unlock"} /\ locking_handler /\ UNCHANGED issued

(* The client waits no longer for the answer to its call. *)
GaveUp(call) == exit[call.user] # "waiting" \/ serial[call.user] # call.serial

(* The answer to a call; the bus drops it if the client has given up. *)
Reply(call) ==
    IF GaveUp(call) THEN {} ELSE {[user |-> call.user, ok |-> answer' = "ok"]}

(* The daemon reads a call and the method runs; a commit only begins. *)
Serve ==
    /\ bus # <<>> /\ serving = None
    /\ bus' = Tail(bus)
    /\ LET call == Head(bus) IN
       /\ Method(Uid[call.user], call.command)
       /\ IF commit' = None
          THEN replies' = replies \cup Reply(call) /\ UNCHANGED serving
          ELSE serving' = call /\ UNCHANGED replies
    /\ UNCHANGED <<command, exit, count, serial, acting, acked, promised>>

(* The methods that ask the bus who the sender is. *)
AsksSender(c) ==
    \/ c.verb = "get new-transaction-token"
    \/ c.verb = "add" /\ Named(c) # {}
    \/ c.verb \in {"commit", "discard"} /\ c.token.id \in DOMAIN open

(***************************************************************************)
(* The call of a client that has given up: nonsensectl exits, and if its   *)
(* connection is closed by the time the daemon asks for its uid the daemon *)
(* aborts.  If it is not, the method is executed like any other (Serve).   *)
(***************************************************************************)
ServeSenderGone ==
    /\ bus # <<>> /\ serving = None
    /\ bus' = Tail(bus)
    /\ GaveUp(Head(bus)) /\ AsksSender(Head(bus).command)
    /\ SenderGone
    /\ UNCHANGED <<command, exit, count, serial, serving, acting, replies, issued, acked, promised>>

(***************************************************************************)
(* Start and Stop: the coroutine suspends, and the daemon goes on to other *)
(* calls.  EntityLifecycle is about what the coroutines do.                *)
(***************************************************************************)
action_handler ==
    /\ Idle /\ bus # <<>> /\ serving = None
    /\ Head(bus).command.verb \in {"start", "stop"}
    /\ bus' = Tail(bus)
    /\ acting' = acting \cup {Head(bus)}
    /\ UNCHANGED <<vars, command, exit, count, serial, serving, replies, issued, acked, promised>>

(***************************************************************************)
(* Its end: an answer; no answer, when socketpair or fork fails and the    *)
(* positive errno is taken for an answer already sent; or the end of the   *)
(* daemon, by an assertion in start or by Shutdown on a closed bus in stop.*)
(* A coroutine that waits for itself never gets here.                      *)
(***************************************************************************)
ActionEnds(call) ==
    /\ Idle
    /\ acting' = acting \ {call}
    /\ \/ \E a \in {"ok", "failed"} : Answers(a) /\ replies' = replies \cup Reply(call)
       \/ call.command.verb = "start" /\ UNCHANGED <<vars, replies>>
       \/ /\ daemon' = "aborted"
          /\ UNCHANGED <<saved, running, open, commit, answer, replies>>
    /\ UNCHANGED <<command, exit, count, serial, bus, serving, issued, acked, promised>>

(* Mutant: a commit that fails is not answered. *)
ServeCommitSilent ==
    /\ serving # None
    /\ CommitApply \/ CommitEnd
    /\ serving' = IF commit' = None THEN None ELSE serving
    /\ replies' = IF commit' = None /\ answer' = "ok"
                  THEN replies \cup Reply(serving) ELSE replies
    /\ UNCHANGED <<command, exit, count, serial, bus, acting, issued, acked, promised>>

(* Mutant: the call stays the one being served after its answer. *)
ServeCommitKeeps ==
    /\ serving # None
    /\ CommitApply \/ CommitEnd
    /\ replies' = IF commit' = None THEN replies \cup Reply(serving) ELSE replies
    /\ UNCHANGED <<command, exit, count, serial, bus, serving, acting, issued, acked, promised>>

(* The rest of a commit, operation by operation. *)
ServeCommit ==
    /\ serving # None
    /\ CommitApply \/ CommitEnd
    /\ IF commit' = None
       THEN replies' = replies \cup Reply(serving) /\ serving' = None
       ELSE UNCHANGED <<replies, serving>>
    /\ UNCHANGED <<command, exit, count, serial, bus, acting, issued, acked, promised>>

(* What an add with exit status 0 promises. *)
Acknowledges(c, status) ==
    IF c.verb = "add" /\ status = "0"
    THEN {[id |-> c.token.id, name |-> c.name, parameters |-> c.parameters]}
    ELSE {}

Exits(u, status) ==
    /\ exit[u] = "waiting"
    /\ exit' = [exit EXCEPT ![u] = status]
    /\ acked' = acked \cup Acknowledges(command[u], status)
    /\ UNCHANGED <<vars, command, count, serial, bus, serving, acting, issued, promised>>

(* Mutant: the error in an answer is not looked at. *)
StatusZero(reply) == "0"

(* HANDLE_DBUS_ERROR *)
Status(reply) == IF reply.ok THEN "0" ELSE "1"

(* The answer to the call being waited for. *)
Receive(u) ==
    \E reply \in replies :
        /\ reply.user = u
        /\ Exits(u, Status(reply))
        /\ replies' = replies \ {reply}

(* sd_bus_call gives up and nonsensectl exits; the call stays where it is. *)
TimesOut(u) ==
    /\ "timeout" \in Faults
    /\ Exits(u, "1")
    /\ replies' = {reply \in replies : reply.user # u}

(* The bus answers for a daemon that is gone, unless the daemon had answered. *)
DaemonGone(u) ==
    /\ daemon = "aborted"
    /\ \A reply \in replies : reply.user # u
    /\ Exits(u, "1")
    /\ UNCHANGED replies

CtlNext ==
    \/ \E u \in Users :
          Receive(u) \/ TimesOut(u) \/ DaemonGone(u) \/ \E c \in Commands : Invoke(u, c)
    \/ Serve
    \/ ServeSenderGone
    \/ ServeCommit
    \/ action_handler
    \/ \E call \in acting : ActionEnds(call)

ctlVars == <<vars, clientVars>>

CtlSpec == CtlInit /\ [][CtlNext]_ctlVars
-----------------------------------------------------------------------------
(***************************************************************************)
(* Types; and the daemon is in a commit exactly while it serves the call   *)
(* that asked for it, so that its answer goes to the right client.         *)
(***************************************************************************)
CtlTypeOK ==
    /\ TypeOK
    /\ command \in [Users -> Commands \cup {None}]
    /\ exit \in [Users -> {"none", "waiting", "0", "1"}]
    /\ count \in 0..MaxCommands /\ serial \in [Users -> 0..count]
    /\ DOMAIN open \subseteq issued
    /\ serving = None <=> commit = None
    /\ serving # None => serving.command.token.id = commit.id

(***************************************************************************)
(* When nonsensectl commit exits with 0, every add to its transaction that *)
(* had exited with 0 before commit was run is in the running configuration *)
(* with the parameters it was given, whoever ran it and whatever else has  *)
(* been done with the token meanwhile.                                     *)
(***************************************************************************)
CommitMeansApplied ==
    \A u \in Users :
        exit[u] = "0" => \A a \in promised[u] :
            a.name \in DOMAIN running /\ running[a.name] = BuildEntity(a.parameters).json

(***************************************************************************)
(* No invocation of a command other than start is forgotten: as long as it *)
(* has not exited, its call is queued or being served, a coroutine is at   *)
(* work on it, its answer is under way, or the daemon is gone and the bus  *)
(* answers.  A call that an earlier one of the same user has given up is   *)
(* never taken for it.                                                     *)
(*                                                                         *)
(* start is left out because it can be forgotten (ActionEnds); and for a   *)
(* stop, this says nothing of whether its coroutine ends, which is what    *)
(* Answered of EntityLifecycle is about.                                   *)
(***************************************************************************)
AnswerOnItsWay ==
    \A u \in Users : exit[u] = "waiting" /\ command[u].verb # "start" =>
        LET own(call) == call.user = u /\ call.serial = serial[u] IN
        \/ \E i \in DOMAIN bus : own(bus[i])
        \/ serving # None /\ own(serving)
        \/ \E call \in acting : own(call)
        \/ \E reply \in replies : reply.user = u
        \/ daemon = "aborted"
=============================================================================
