------------------------------ MODULE Entityd ------------------------------
(***************************************************************************)
(* The nonsense-entityd processes (src/entityd/main.cpp, cleanup.h): what  *)
(* AddComponent sets up in the namespaces of the entity and of its         *)
(* uplinks, one shell command at a time, and how Shutdown, or the loss of  *)
(* the connection to the daemon, takes it down again.  The processes run   *)
(* concurrently, and reach into each other's namespaces.                   *)
(***************************************************************************)
EXTENDS Netns, SequencesExt

CONSTANTS
    Role,       \* Role[n]: the role of the network component of n
    Uplink,     \* Uplink[n], or None
    Address,    \* Address[n]: the subnet of switch n, or None
    Faults      \* "command": a command may fail; "hangup": the daemon may die

Roles == {"root", "interface", "router", "switch", "client"}

ASSUME EntitydAssumption ==
    /\ {None, Host} \cap (Names \cup Procs) = {} /\ None # Host
    /\ MaxStarts \in Nat
    /\ Space \in [Names -> {"own", "default", "external"}]
    /\ Role \in [Names -> Roles]
    /\ Uplink \in [Names -> Names \cup {None}]
    /\ \A n \in Names : Uplink[n] # None => Role[Uplink[n]] # "client"
    /\ \A n \in Names : Address[n] # None => Role[n] = "switch"
    /\ \A n \in Names : Space[n] # "own" => Role[n] = "root"
    /\ Faults \subseteq {"command", "hangup"}

VARIABLES
    daemon,     \* is the other end of the connections open
    state,      \* state[p]
    todo,       \* todo[p]: the commands p has still to execute
    cleanups,   \* cleanups[p]: the cleanups p has registered
    answer      \* answer[p]: what the daemon knows of its AddComponent call

procs == <<daemon, state, todo, cleanups, answer>>
vars  == <<netns, procs>>

-----------------------------------------------------------------------------
(* The commands, in the order of the code. *)

Cmd(do, at, kind)           == [do |-> do, at |-> at, kind |-> kind]
Mounts(do)                  == [do |-> do, at |-> None]
LinkAdd(kinds)              == [do |-> "add", at |-> None, kinds |-> kinds]
SetTo(do, at, kind, to)     == [do |-> do, at |-> at, kind |-> kind, to |-> to]
Addr(do, at, kind, net, i)  == [do |-> do, at |-> at, kind |-> kind, addr |-> <<net, i>>]
RouteAdd(at, to, via)       == [do |-> "routeAdd", at |-> at, to |-> to, via |-> via]
RouteDel(at, to)            == [do |-> "routeDel", at |-> at, to |-> to]
Throw                       == <<[do |-> "throw"]>>

setup_interfaces == <<LinkAdd({"nu", "nd"}), Cmd("up", None, "nu")>>

setup_bridge(n) == <<LinkAdd({"nb"}), Cmd("up", None, "nb"), SetTo("master", None, "nu", n)>>

setup_nft == Throw

(* The uplink and the uplinks above it, for as long as they are switches. *)
Switches(n) ==
    LET above[m \in Names] ==
            IF Uplink[m] = None \/ Role[Uplink[m]] # "switch" THEN <<>>
            ELSE <<Uplink[m]>> \o above[Uplink[m]]
    IN  above[n]

(* Mutant: the loop over the uplinks begins with the second one. *)
RoutesSkipFirst(n) ==
    LET above == Switches(n) IN
    [i \in 1..(Len(above) - 1) |-> RouteAdd(Uplink[above[i + 1]], Address[n], Address[above[i + 1]])]

Routes(n) == [i \in DOMAIN Switches(n) |->
                 LET s == Switches(n)[i] IN RouteAdd(Uplink[s], Address[n], Address[s])]

(***************************************************************************)
(* connect().  A missing ":uplink-name" or "address" is a json null, and   *)
(* get_ref throws on it.                                                   *)
(***************************************************************************)
connect(n) ==
    LET u == Uplink[n]
        net == IF Role[n] = "switch" THEN Address[n] ELSE Address[u]
    IN
    IF u = None THEN Throw
    ELSE <<SetTo("move", None, "nd", u)>> \o
         IF Role[n] = "switch"
         THEN IF net = None THEN Throw
              ELSE <<Addr("addrAdd", u, "nd", net, 1)>>
                   \o Routes(n)
                   \o <<Cmd("up", u, "nd"),
                        Addr("addrAdd", None, "nb", net, 2),
                        RouteAdd(None, "default", net)>>
         ELSE <<SetTo("master", u, "nd", u)>> \o
              IF net = None THEN Throw
              ELSE <<Cmd("up", u, "nd"),
                     Addr("addrAdd", None, "nu", net, 3),
                     RouteAdd(None, "default", net)>>

(* add_network() after it has entered, or made, its namespace. *)
add_network(n) ==
    <<Mounts("umount"), Mounts("mount")>> \o
    CASE Role[n] = "root"      -> <<>>
      [] Role[n] = "interface" -> Throw
      [] Role[n] = "router"    -> setup_interfaces \o setup_nft \o connect(n)
      [] Role[n] = "switch"    -> setup_interfaces \o setup_bridge(n) \o connect(n)
      [] Role[n] = "client"    -> setup_interfaces \o connect(n)

(* Mutant: connect() registers no cleanup for the routes. *)
UndoNoRoutes(p, c) ==
    CASE c.do = "mount"   -> <<Mounts("umount")>>
      [] c.do = "add"     -> <<Cmd("del", None, IF "nb" \in c.kinds THEN "nb" ELSE "nu")>>
      [] c.do = "move"    -> <<SetTo("move", c.to, "nd", p[1])>>
      [] c.do = "addrAdd" -> <<[c EXCEPT !.do = "addrDel"]>>
      [] c.do = "up" /\ c.at # None -> <<Cmd("down", c.at, c.kind)>>
      [] OTHER -> <<>>

(* Mutant: the path of the namespace stays mounted. *)
UndoNoUmount(p, c) ==
    CASE c.do = "add"      -> <<Cmd("del", None, IF "nb" \in c.kinds THEN "nb" ELSE "nu")>>
      [] c.do = "move"     -> <<SetTo("move", c.to, "nd", p[1])>>
      [] c.do = "addrAdd"  -> <<[c EXCEPT !.do = "addrDel"]>>
      [] c.do = "routeAdd" -> <<RouteDel(c.at, c.to)>>
      [] c.do = "up" /\ c.at # None -> <<Cmd("down", c.at, c.kind)>>
      [] OTHER -> <<>>

(* The cleanup that is registered after command c, if there is one. *)
Undo(p, c) ==
    CASE c.do = "mount"    -> <<Mounts("umount")>>
      [] c.do = "add"      -> <<Cmd("del", None, IF "nb" \in c.kinds THEN "nb" ELSE "nu")>>
      [] c.do = "move"     -> <<SetTo("move", c.to, "nd", p[1])>>
      [] c.do = "addrAdd"  -> <<[c EXCEPT !.do = "addrDel"]>>
      [] c.do = "routeAdd" -> <<RouteDel(c.at, c.to)>>
      [] c.do = "up" /\ c.at # None -> <<Cmd("down", c.at, c.kind)>>
      [] OTHER -> <<>>

-----------------------------------------------------------------------------
Alive(p)    == state[p] \in {"idle", "adding", "up", "cleaning"}
Finished(p) == state[p] \in {"exited", "aborted"}
Goes(p, s)  == state' = [state EXCEPT ![p] = s]

Init ==
    /\ NetnsInit
    /\ daemon = "up"
    /\ state = [p \in Procs |-> "none"]
    /\ todo = [p \in Procs |-> <<>>]
    /\ cleanups = [p \in Procs |-> <<>>]
    /\ answer = [p \in Procs |-> "none"]

(***************************************************************************)
(* The daemon forks an entityd, once it has seen the uplink started.  The  *)
(* uplink is still in _live_entities if its entityd has aborted since.     *)
(***************************************************************************)
Spawn(p) ==
    /\ daemon = "up"
    /\ state[p] = "none"
    /\ \A k \in 1..(p[2] - 1) : Finished(<<p[1], k>>)
    /\ Uplink[p[1]] # None =>
          \E q \in Procs : q[1] = Uplink[p[1]] /\ state[q] \in {"up", "aborted"}
    /\ Goes(p, "idle")
    /\ UNCHANGED <<netns, daemon, todo, cleanups, answer>>

(* add_component() and add_network() up to the first command. *)
AddComponent(p) ==
    /\ daemon = "up"
    /\ state[p] = "idle"
    /\ Goes(p, "adding")
    /\ todo' = [todo EXCEPT ![p] = add_network(p[1])]
    /\ answer' = [answer EXCEPT ![p] = "pending"]
    /\ UNCHANGED <<netns, daemon, cleanups>>

Executes(p) ==
    /\ state[p] = "adding"
    /\ todo[p] # <<>>
    /\ Possible(p, Head(todo[p]))
    /\ Effect(p, Head(todo[p]))
    /\ todo' = [todo EXCEPT ![p] = Tail(@)]
    /\ cleanups' = [cleanups EXCEPT ![p] = @ \o Undo(p, Head(todo[p]))]
    /\ UNCHANGED <<daemon, state, answer>>

(* A command fails: the handler of add_network() asserts, and nothing is undone. *)
Aborts(p) ==
    /\ state[p] = "adding"
    /\ todo[p] # <<>>
    /\ "command" \in Faults \/ ~Possible(p, Head(todo[p]))
    /\ Goes(p, "aborted")
    /\ todo' = [todo EXCEPT ![p] = <<>>]
    /\ cleanups' = [cleanups EXCEPT ![p] = <<>>]
    /\ UNCHANGED <<netns, daemon, answer>>

Answers(p) ==
    /\ state[p] = "adding"
    /\ todo[p] = <<>>
    /\ Goes(p, "up")
    /\ answer' = [answer EXCEPT ![p] = "ok"]
    /\ UNCHANGED <<netns, daemon, todo, cleanups>>

(* Mutant: cleanup::run() leaves the list as it is. *)
RunsCleanupsKeeps(p) ==
    /\ Goes(p, "cleaning")
    /\ todo' = [todo EXCEPT ![p] = Reverse(cleanups[p])]
    /\ UNCHANGED <<netns, daemon, cleanups, answer>>

(* shutdown(): connection_cleanups, then cleanups, each from its end.  A    *)
(* cleanup fails only if what it is to remove is gone already.             *)
RunsCleanups(p) ==
    /\ Goes(p, "cleaning")
    /\ todo' = [todo EXCEPT ![p] = Reverse(cleanups[p])]
    /\ cleanups' = [cleanups EXCEPT ![p] = <<>>]
    /\ UNCHANGED <<netns, daemon, answer>>

(* handle_shutdown().  Nothing keeps the user from stopping an uplink first. *)
Shutdown(p) ==
    /\ daemon = "up"
    /\ state[p] \in {"idle", "up"}
    /\ RunsCleanups(p)

(* Mutant: a process without a component waits for the daemon to come back. *)
HangsUpWhenUp(p) ==
    /\ daemon = "gone"
    /\ state[p] = "up"
    /\ RunsCleanups(p)

(* The connection is closed: the loop of main() throws, and the handler cleans up. *)
HangsUp(p) ==
    /\ daemon = "gone"
    /\ state[p] \in {"idle", "up"}
    /\ RunsCleanups(p)

(* The status of a cleanup command is not looked at. *)
Cleans(p) ==
    /\ state[p] = "cleaning"
    /\ todo[p] # <<>>
    /\ IF Possible(p, Head(todo[p])) THEN Effect(p, Head(todo[p])) ELSE UNCHANGED netns
    /\ todo' = [todo EXCEPT ![p] = Tail(@)]
    /\ UNCHANGED <<daemon, state, cleanups, answer>>

Exits(p) ==
    /\ state[p] = "cleaning"
    /\ todo[p] = <<>>
    /\ Goes(p, "exited")
    /\ UNCHANGED <<netns, daemon, todo, cleanups, answer>>

(* A namespace is kept by the process in it and by the mounts of it. *)
Kept(s) == s \notin Procs \/ Alive(s) \/ \E n \in Names : mnt[n] = s

KernelReaps(s) ==
    /\ ~Kept(s)
    /\ Reap(s)
    /\ UNCHANGED procs

DaemonDies ==
    /\ "hangup" \in Faults
    /\ daemon = "up"
    /\ daemon' = "gone"
    /\ UNCHANGED <<netns, state, todo, cleanups, answer>>

EntitydStep(p) == Executes(p) \/ Aborts(p) \/ Answers(p) \/ HangsUp(p) \/ Cleans(p) \/ Exits(p)

Next ==
    \/ \E p \in Procs : Spawn(p) \/ AddComponent(p) \/ Shutdown(p) \/ EntitydStep(p)
    \/ \E s \in Procs : KernelReaps(s)
    \/ DaemonDies

Spec == Init /\ [][Next]_vars

(* Every process goes on with what it has begun; the kernel reaps. *)
FairSpec ==
    /\ Spec
    /\ \A p \in Procs : WF_vars(EntitydStep(p)) /\ WF_vars(KernelReaps(p))
-----------------------------------------------------------------------------
(***************************************************************************)
(* The values the variables range over; only a process at work has         *)
(* commands to execute, and only one that set something up has cleanups.   *)
(***************************************************************************)
TypeOK ==
    /\ mnt \in [Names -> Spaces \cup {None}]
    /\ loc \in [Links -> Spaces \cup {None}]
    /\ up \subseteq Links
    /\ ports \subseteq Links \X Links
    /\ \A a \in addrs : a[1] \in Links /\ loc[a[1]] # None
    /\ \A r \in routes : r.in = loc[r.dev] /\ r.dev \in up
    /\ daemon \in {"up", "gone"}
    /\ state \in [Procs -> {"none", "idle", "adding", "up", "cleaning", "exited", "aborted"}]
    /\ answer \in [Procs -> {"none", "pending", "ok"}]
    /\ \A p \in Procs : todo[p] # <<>> => state[p] \in {"adding", "cleaning"}
    /\ \A p \in Procs : cleanups[p] # <<>> => state[p] \in {"adding", "up"}

(* A namespace that is there to stay: its process is not about to leave it for good. *)
Stays(s) == Kept(s) /\ (s \in Procs => state[s] # "cleaning" \/ mnt[s[1]] = s)

(***************************************************************************)
(* Once the entityds of an entity have exited, nothing of it is left, also *)
(* not in the namespaces of its uplinks: no mount, no link, no route to    *)
(* its subnet, in whatever order the entities above and below it stopped,  *)
(* failed or were started again.                                           *)
(***************************************************************************)
NoTrace ==
    \A n \in Names :
        (\A k \in 1..MaxStarts : state[<<n, k>>] \in {"none", "exited"}) =>
            /\ mnt[n] = None
            /\ \A l \in Links : (l[1][1] = n /\ loc[l] # None) => ~Stays(loc[l])
            /\ \A r \in routes : r.to = Address[n] => ~Stays(r.in)

(* Entityd p is connected to entityd q of its uplink, and both are up. *)
Linked(p, q) ==
    /\ state[p] = "up" /\ state[q] = "up"
    /\ q[1] = Uplink[p[1]]
    /\ loc[<<p, "nd">>] = Netns(q)

Reaches(q, net, p) == \E r \in Routed(Netns(q), net) : r.dev = <<p, "nd">>

(***************************************************************************)
(* A switch that is connected to its uplink, and the uplink to another     *)
(* one, can be reached from there: connect() has entered a route to its    *)
(* subnet in the namespaces above that of its uplink, and whatever stops   *)
(* or starts takes it away only together with the connection.  Commands    *)
(* may fail as long as nothing is started again: the route may else go     *)
(* over a link that a failed entityd of the uplink has left there.         *)
(***************************************************************************)
RoutesComplete ==
    \A p, q, r \in Procs :
        (Role[p[1]] = "switch" /\ Linked(p, q) /\ Linked(q, r)) =>
            Reaches(r, Address[p[1]], q)

(* The entities in whose namespaces connect() of n executes commands. *)
Above(n) == {Uplink[n]} \cup {Uplink[Switches(n)[i]] : i \in DOMAIN Switches(n)}

(***************************************************************************)
(* Setting up an entity fails only if something above it has been taken    *)
(* down: what an earlier entityd of the same entity did, or left to the    *)
(* kernel, never gets into the way of the next one, and neither does what  *)
(* hangs below it.                                                         *)
(***************************************************************************)
AddSucceeds ==
    \A p \in Procs :
        state[p] = "aborted" =>
            \E q \in Procs : q[1] \in Above(p[1]) /\ state[q] \in {"cleaning", "exited", "aborted"}

(* When the daemon dies, every entityd goes away, and takes down what it had set up. *)
TornDown ==
    (daemon = "gone") ~> (\A p \in Procs : ~Alive(p)) /\ NoTrace
-----------------------------------------------------------------------------
(* What the theorems of EntitydProofs suppose of the entities. *)

(* The uplinks form no loop, so that Switches comes to an end. *)
SwitchesEnd ==
    \A n \in Names :
        /\ Switches(n) \in Seq(Names)
        /\ Switches(n) = IF Uplink[n] = None \/ Role[Uplink[n]] # "switch" THEN <<>>
                         ELSE <<Uplink[n]>> \o Switches(Uplink[n])

(* Every entity has a namespace of its own. *)
AllOwn == \A n \in Names : Space[n] = "own"

(* A subnet belongs to one switch, and is not the default route. *)
SubnetsDistinct ==
    \A n \in Names :
        /\ Address[n] # "default"
        /\ Address[n] # None => \A m \in Names : Address[m] = Address[n] => m = n

(* No command fails of itself, or nothing is started again. *)
Calm == "command" \notin Faults \/ MaxStarts = 1

(* The roles that entityd can set up, with what their set-up looks for. *)
Supported ==
    \A n \in Names :
        /\ Role[n] \in {"root", "switch", "client"}
        /\ Role[n] = "switch" => Uplink[n] # None /\ Address[n] # None
        /\ Role[n] = "client" => Uplink[n] # None /\ Role[Uplink[n]] = "switch"
=============================================================================
