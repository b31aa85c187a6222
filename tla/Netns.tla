------------------------------- MODULE Netns -------------------------------
(***************************************************************************)
(* Network namespaces, as far as the commands of nonsense-entityd (module  *)
(* Entityd) can tell: which namespace is mounted under                     *)
(* /var/run/netns/nonsense:NAME, where the links are, and their addresses, *)
(* bridges and routes.  This is the kernel and the ip tool, not code of    *)
(* the repository.                                                         *)
(*                                                                         *)
(* A process <<n, k>> is the k-th nonsense-entityd of entity n, and names  *)
(* the namespace it creates.  It may create the links nu-n and nd-n, the   *)
(* two ends of a veth pair, and the bridge nb-n.  A command looks links up *)
(* by name, in the namespace where it runs.                                *)
(***************************************************************************)
EXTENDS Naturals, FiniteSets

CONSTANTS
    Names,      \* entity names
    None,       \* no uplink, no address, no namespace
    Host,       \* the namespace of the host
    Space,      \* Space[n]: "own", or the existing namespace "default" or "external"
    MaxStarts   \* bound on how often an entity is started

Procs  == Names \X (1..MaxStarts)
Spaces == Procs \cup {Host} \cup Names
Links  == Procs \X {"nu", "nd", "nb"}

VARIABLES
    mnt,        \* mnt[n]: the namespace mounted under nonsense:n, or None
    loc,        \* loc[l]: the namespace link l is in, or None
    up,         \* the links that are up
    ports,      \* the pairs <<link, bridge>>
    addrs,      \* the pairs <<link, address>>
    routes      \* the routes: [in, to, dev]

netns == <<mnt, loc, up, ports, addrs, routes>>

NetnsInit ==
    /\ mnt = [n \in Names |-> None]
    /\ loc = [l \in Links |-> None]
    /\ up = {}
    /\ ports = {}
    /\ addrs = {}
    /\ routes = {}

(* The namespace an entityd is in once it has set it up; "external" is known by the name. *)
Netns(p) == CASE Space[p[1]] = "own"      -> p
              [] Space[p[1]] = "default"  -> Host
              [] Space[p[1]] = "external" -> p[1]

(* The link KIND-n of namespace s, if there is one. *)
Named(s, kind, n) == {l \in Links : l[1][1] = n /\ l[2] = kind /\ loc[l] = s /\ s # None}

(* A command runs in the namespace of its process, or under ip netns exec nonsense:AT. *)
Where(p, c) == IF c.at = None THEN Netns(p) ELSE mnt[c.at]
Link(p, c)  == Named(Where(p, c), c.kind, p[1])

(* The links of s that are up and have an address in the subnet of gateway gw. *)
Gateways(s, gw) == {l \in up : loc[l] = s /\ \E i \in 1..3 : <<l, <<gw, i>>>> \in addrs}

Routed(s, to) == {r \in routes : r.in = s /\ r.to = to}

-----------------------------------------------------------------------------
(* Does command c, run by process p, exit with status 0?                   *)
Possible(p, c) ==
    CASE c.do \in {"umount", "mount"}       -> TRUE
      [] c.do = "add"      -> \A k \in c.kinds : Named(Where(p, c), k, p[1]) = {}
      [] c.do \in {"up", "down", "del"}     -> Link(p, c) # {}
      [] c.do = "master"   -> Link(p, c) # {} /\ Named(Where(p, c), "nb", c.to) # {}
      [] c.do = "move"     -> Link(p, c) # {} /\ mnt[c.to] # None
                              /\ Named(mnt[c.to], c.kind, p[1]) = {}
      [] c.do = "addrAdd"  -> \E l \in Link(p, c) : <<l, c.addr>> \notin addrs
      [] c.do = "addrDel"  -> \E l \in Link(p, c) : <<l, c.addr>> \in addrs
      [] c.do = "routeAdd" -> Gateways(Where(p, c), c.via) # {}
                              /\ Routed(Where(p, c), c.to) = {}
      [] c.do = "routeDel" -> Where(p, c) # None /\ Routed(Where(p, c), c.to) # {}
      [] c.do = "throw"    -> FALSE

-----------------------------------------------------------------------------
(* What the commands change. *)

WithPeers(L) == L \cup {l \in Links : l[2] # "nb" /\
                           \E e \in {"nu", "nd"} : <<l[1], e>> \in L}

(* The links L are no longer there, nor the other ends of their pairs. *)
Delete(L) ==
    LET gone == WithPeers(L) IN
    /\ loc' = [l \in Links |-> IF l \in gone THEN None ELSE loc[l]]
    /\ up' = up \ gone
    /\ ports' = {e \in ports : e[1] \notin gone /\ e[2] \notin gone}
    /\ addrs' = {a \in addrs : a[1] \notin gone}
    /\ routes' = {r \in routes : r.dev \notin gone}

(* A link that changes its namespace loses all that it had. *)
Move(l, s) ==
    /\ loc' = [loc EXCEPT ![l] = s]
    /\ up' = up \ {l}
    /\ ports' = {e \in ports : e[1] # l}
    /\ addrs' = {a \in addrs : a[1] # l}
    /\ routes' = {r \in routes : r.dev # l}

(* Routes go with the last address of their link. *)
DropAddress(l, addr) ==
    /\ addrs' = addrs \ {<<l, addr>>}
    /\ routes' = {r \in routes : r.dev = l => \E a \in addrs' : a[1] = l}

Effect(p, c) ==
    \/ /\ c.do = "umount"
       /\ mnt' = [mnt EXCEPT ![p[1]] = None]
       /\ UNCHANGED <<loc, up, ports, addrs, routes>>
    \/ /\ c.do = "mount"
       /\ mnt' = [mnt EXCEPT ![p[1]] = Netns(p)]
       /\ UNCHANGED <<loc, up, ports, addrs, routes>>
    \/ /\ c.do = "add"
       /\ loc' = [l \in Links |-> IF l[1] = p /\ l[2] \in c.kinds THEN Netns(p) ELSE loc[l]]
       /\ UNCHANGED <<mnt, up, ports, addrs, routes>>
    \/ /\ c.do = "del"
       /\ Delete(Link(p, c))
       /\ UNCHANGED mnt
    \/ /\ c.do = "up"
       /\ up' = up \cup Link(p, c)
       /\ UNCHANGED <<mnt, loc, ports, addrs, routes>>
    \/ /\ c.do = "down"
       /\ up' = up \ Link(p, c)
       /\ routes' = {r \in routes : r.dev \notin Link(p, c)}
       /\ UNCHANGED <<mnt, loc, ports, addrs>>
    \/ /\ c.do = "master"
       /\ ports' = ports \cup (Link(p, c) \X Named(Where(p, c), "nb", c.to))
       /\ UNCHANGED <<mnt, loc, up, addrs, routes>>
    \/ /\ c.do = "move"
       /\ \E l \in Link(p, c) : Move(l, mnt[c.to])
       /\ UNCHANGED mnt
    \/ /\ c.do = "addrAdd"
       /\ addrs' = addrs \cup (Link(p, c) \X {c.addr})
       /\ UNCHANGED <<mnt, loc, up, ports, routes>>
    \/ /\ c.do = "addrDel"
       /\ \E l \in Link(p, c) : DropAddress(l, c.addr)
       /\ UNCHANGED <<mnt, loc, up, ports>>
    \/ /\ c.do = "routeAdd"
       /\ \E l \in Gateways(Where(p, c), c.via) :
             routes' = routes \cup {[in |-> Where(p, c), to |-> c.to, dev |-> l]}
       /\ UNCHANGED <<mnt, loc, up, ports, addrs>>
    \/ /\ c.do = "routeDel"
       /\ routes' = routes \ Routed(Where(p, c), c.to)
       /\ UNCHANGED <<mnt, loc, up, ports, addrs>>

(* A namespace nobody refers to any more takes its links with it, in its own time. *)
Reap(s) ==
    LET inside == {l \in Links : loc[l] = s} IN
    /\ inside # {}
    /\ Delete(inside)
    /\ UNCHANGED mnt
=============================================================================
