--------------------------- MODULE EntitydProofs ---------------------------
(***************************************************************************)
(* Proofs about the nonsense-entityd processes, for any entities, number   *)
(* of starts and order in which they are started and stopped.              *)
(*                                                                         *)
(* A process works off the list of commands of its entity, and what it has *)
(* done so far is known from how long the list still is.  What it has put  *)
(* into the namespace of another one is safe to leave there in two cases   *)
(* only: that namespace is no longer mounted, so it goes away, or the      *)
(* command that takes it back is still to come.  The second case is what   *)
(* the invariant is about: nobody else may undo the command, or make it    *)
(* miss its link, before it is executed.                                   *)
(***************************************************************************)
EXTENDS Entityd, TLAPS

-----------------------------------------------------------------------------
(* The commands. *)

Umount      == Mounts("umount")
Mount       == Mounts("mount")
MoveUp(n)   == SetTo("move", None, "nd", Uplink[n])
MoveBack(n) == SetTo("move", Uplink[n], "nd", n)

MakesPair   == LinkAdd({"nu", "nd"})
MakesBridge == LinkAdd({"nb"})
PairUp      == Cmd("up", None, "nu")
BridgeUp    == Cmd("up", None, "nb")
LinkUp(n)   == Cmd("up", Uplink[n], "nd")
AddrAbove(n)  == Addr("addrAdd", Uplink[n], "nd", Address[n], 1)
AddrBridge(n) == Addr("addrAdd", None, "nb", Address[n], 2)
AddrClient(n) == Addr("addrAdd", None, "nu", Address[Uplink[n]], 3)

(* What add_network() of n may execute in its own namespace. *)
Makes(n) == {MakesPair, MakesBridge, PairUp, BridgeUp, SetTo("master", None, "nu", n), Throw[1]}

(* What connect() of n may execute, in the namespaces above as well. *)
Joins(n) ==
    IF Uplink[n] = None THEN {}
    ELSE {MoveUp(n), LinkUp(n), SetTo("master", Uplink[n], "nd", Uplink[n]),
          AddrClient(n), RouteAdd(None, "default", Address[Uplink[n]])}
         \cup (IF Address[n] = None THEN {}
               ELSE {AddrAbove(n), AddrBridge(n), RouteAdd(None, "default", Address[n])}
                    \cup {RouteAdd(Uplink[s], Address[n], Address[s]) : s \in Names})

Setups(n) == Makes(n) \cup Joins(n)

(* The cleanups of n, all but the first. *)
Undos(n) ==
    {Cmd("del", None, "nu"), Cmd("del", None, "nb"), RouteDel(None, "default"),
     Addr("addrDel", None, "nb", Address[n], 2)}
    \cup (IF Uplink[n] = None THEN {}
          ELSE {MoveBack(n), Cmd("down", Uplink[n], "nd"),
                Addr("addrDel", Uplink[n], "nd", Address[n], 1),
                Addr("addrDel", None, "nu", Address[Uplink[n]], 3)}
               \cup {RouteDel(Uplink[s], Address[n]) : s \in Names})

Commands == UNION {Setups(n) \cup Undos(n) \cup {Umount, Mount} : n \in Names}

-----------------------------------------------------------------------------
(* The processes. *)

(* How many commands of its list p has executed. *)
Done(p) == Len(add_network(p[1])) - Len(todo[p])

Past(p, c) == \E j \in 1..Done(p) : add_network(p[1])[j] = c

Working(p) == state[p] \in {"adding", "up"}

(* What p has still to execute, and the cleanups it has registered. *)
ListsOK(p) ==
    /\ state[p] \notin {"adding", "cleaning"} => todo[p] = <<>>
    /\ state[p] = "adding" =>
          /\ Len(todo[p]) <= Len(add_network(p[1]))
          /\ \A j \in 1..Len(todo[p]) : todo[p][j] = add_network(p[1])[Done(p) + j]
    /\ state[p] = "cleaning" =>
          \A j \in 1..Len(todo[p]) :
              todo[p][j] \in IF j = Len(todo[p]) THEN {Umount} ELSE Undos(p[1])
    /\ ~Working(p) => cleanups[p] = <<>>
    /\ Working(p) => (cleanups[p] # <<>> <=> Done(p) >= 2)
    /\ \A j \in 1..Len(cleanups[p]) :
          cleanups[p][j] \in IF j = 1 THEN {Umount} ELSE Undos(p[1])

(* A link is there only if its process has added it. *)
Adds(n, j, k) == add_network(n)[j].do = "add" /\ k \in add_network(n)[j].kinds

AddedOK(p) ==
    \A k \in {"nu", "nd", "nb"} :
        loc[<<p, k>>] # None =>
            /\ state[p] \notin {"none", "idle"}
            /\ Working(p) => \E j \in 1..Done(p) : Adds(p[1], j, k)

(* Addresses and routes belong to links that are there. *)
NetOK ==
    /\ mnt \in [Names -> Spaces \cup {None}]
    /\ loc \in [Links -> Spaces \cup {None}]
    /\ up \subseteq Links
    /\ ports \subseteq Links \X Links
    /\ \A a \in addrs : a[1] \in Links /\ loc[a[1]] # None
    /\ \A r \in routes : r.in = loc[r.dev] /\ r.dev \in up
    /\ \A l \in up : loc[l] # None

(* The inductive invariant of the types. *)
Base ==
    /\ NetOK
    /\ daemon \in {"up", "gone"}
    /\ state \in [Procs -> {"none", "idle", "adding", "up", "cleaning", "exited", "aborted"}]
    /\ answer \in [Procs -> {"none", "pending", "ok"}]
    /\ todo \in [Procs -> Seq(Commands)]
    /\ cleanups \in [Procs -> Seq(Commands)]
    /\ \A p \in Procs : ListsOK(p) /\ AddedOK(p)

-----------------------------------------------------------------------------
(* The namespaces. *)

nu(p) == <<p, "nu">>
nd(p) == <<p, "nd">>
nb(p) == <<p, "nb">>

(* There is one process of an entity at a time. *)
Serial ==
    \A p, q \in Procs : p[1] = q[1] /\ p[2] < q[2] /\ state[q] # "none" => Finished(p)

(* An entity that is its own uplink is never started. *)
NoSelf == \A p \in Procs : state[p] # "none" => Uplink[p[1]] # p[1]

(* The process has mounted its namespace, and has not unmounted it. *)
Holds(p) == cleanups[p] # <<>> \/ (state[p] = "cleaning" /\ todo[p] # <<>>)

MountOK ==
    /\ \A p \in Procs : Holds(p) => mnt[p[1]] = p
    /\ \A n \in Names : mnt[n] # None =>
          /\ mnt[n] \in Procs
          /\ mnt[n][1] = n
          /\ Holds(mnt[n]) \/ state[mnt[n]] = "aborted"

(* The process has mounted its namespace. *)
Visited(p) == state[p] \notin {"none", "idle"} /\ (state[p] = "adding" => cleanups[p] # <<>>)

(* The cleanup c of p is still to come. *)
Pending(p, c) ==
    \/ \E j \in 1..Len(cleanups[p]) : cleanups[p][j] = c
    \/ state[p] = "cleaning" /\ \E j \in 1..Len(todo[p]) : todo[p][j] = c

(* Cleanup c of p is still to come, unless p has aborted. *)
Owes(p, c) == Pending(p, c) \/ state[p] = "aborted"

LinkOK(p) ==
    /\ loc[nu(p)] \in {None, p}
    /\ loc[nb(p)] \in {None, p}
    /\ loc[nd(p)] \notin {None, p} =>
          /\ loc[nd(p)] \in Procs
          /\ loc[nd(p)][1] = Uplink[p[1]]
          /\ Visited(loc[nd(p)])
          /\ mnt[Uplink[p[1]]] = loc[nd(p)] => Owes(p, MoveBack(p[1]))

(* The link a process is going to take back is the only one of its name. *)
OneLink ==
    \A p, q \in Procs :
        (p # q /\ p[1] = q[1] /\ Pending(p, MoveBack(p[1])) /\ loc[nd(q)] # None) =>
            loc[nd(q)] # mnt[Uplink[p[1]]]

RouteOK(r) ==
    r.to # "default" =>
        /\ r.to # None
        /\ r.in \in Procs
        /\ Visited(r.in)
        /\ \E p \in Procs :
              /\ Address[p[1]] = r.to
              /\ r.in = p \/ (mnt[r.in[1]] = r.in => Owes(p, RouteDel(r.in[1], r.to)))

Tidy ==
    /\ Serial
    /\ NoSelf
    /\ MountOK
    /\ \A p \in Procs : LinkOK(p)
    /\ OneLink
    /\ \A r \in routes : RouteOK(r)

-----------------------------------------------------------------------------
(* What the lists of commands are made of. *)

(* connect() executes commands of Joins(n), and throws where a name is missing. *)
LEMMA ConnectFacts ==
    ASSUME SwitchesEnd, NEW n \in Names
    PROVE  /\ connect(n) \in Seq(Joins(n) \cup {Throw[1]})
           /\ Len(connect(n)) >= 1
           /\ \A j \in 1..Len(connect(n)) : connect(n)[j].do # "add"
<1> DEFINE S == Joins(n) \cup {Throw[1]}
<1>1. Throw \in Seq(S) /\ Len(Throw) = 1
  BY DEF Throw
<1>2. ASSUME NEW c \in S
      PROVE  c.do # "add"
  BY <1>2 DEF Joins, Throw, MoveUp, LinkUp, SetTo, Cmd, RouteAdd, AddrClient, AddrAbove,
              AddrBridge, Addr
<1>3. ASSUME NEW s \in Seq(S), Len(s) >= 1, connect(n) = s
      PROVE  /\ connect(n) \in Seq(S)
             /\ Len(connect(n)) >= 1
             /\ \A j \in 1..Len(connect(n)) : connect(n)[j].do # "add"
  <2>1. \A j \in 1..Len(s) : s[j] \in S
    BY <1>3
  <2> HIDE DEF S
  <2> QED BY <1>2, <1>3, <2>1
<1>4. CASE Uplink[n] = None
  <2>1. connect(n) = Throw
    BY <1>4 DEF connect
  <2> HIDE DEF S
  <2> QED BY <1>1, <1>3, <2>1 DEF S
<1>5. CASE Uplink[n] # None /\ Role[n] = "switch" /\ Address[n] = None
  <2>1. connect(n) = <<MoveUp(n)>> \o Throw
    BY <1>5 DEF connect, MoveUp
  <2>2. MoveUp(n) \in S
    BY <1>5 DEF Joins
  <2> HIDE DEF S
  <2>3. <<MoveUp(n)>> \o Throw \in Seq(S) /\ Len(<<MoveUp(n)>> \o Throw) >= 1
    BY <1>1, <2>2
  <2> QED BY <1>3, <2>1, <2>3 DEF S
<1>6. CASE Uplink[n] # None /\ Role[n] = "switch" /\ Address[n] # None
  <2> DEFINE last == <<LinkUp(n), AddrBridge(n), RouteAdd(None, "default", Address[n])>>
             all  == <<MoveUp(n)>> \o (<<AddrAbove(n)>> \o Routes(n) \o last)
  <2>1. connect(n) = all
    BY <1>6, Zenon DEF connect, MoveUp, AddrAbove, LinkUp, AddrBridge
  <2>2. /\ MoveUp(n) \in S /\ AddrAbove(n) \in S /\ LinkUp(n) \in S /\ AddrBridge(n) \in S
        /\ RouteAdd(None, "default", Address[n]) \in S
        /\ \A s \in Names : RouteAdd(Uplink[s], Address[n], Address[s]) \in S
    BY <1>6 DEF Joins
  <2>3. Switches(n) \in Seq(Names)
    BY DEF SwitchesEnd
  <2> HIDE DEF S
  <2>4. Routes(n) \in Seq(S)
    BY <2>2, <2>3 DEF Routes
  <2>5. last \in Seq(S) /\ <<MoveUp(n)>> \in Seq(S) /\ <<AddrAbove(n)>> \in Seq(S)
    BY <2>2
  <2> HIDE DEF last
  <2>6. all \in Seq(S) /\ Len(all) >= 1
    BY <2>4, <2>5
  <2> HIDE DEF all
  <2> QED BY <1>3, <2>1, <2>6 DEF S
<1>7. CASE Uplink[n] # None /\ Role[n] # "switch"
  <2> DEFINE net == Address[Uplink[n]]
             master == SetTo("master", Uplink[n], "nd", Uplink[n])
             last == <<LinkUp(n), AddrClient(n), RouteAdd(None, "default", net)>>
             rest == IF net = None THEN Throw ELSE last
             all  == <<MoveUp(n)>> \o (<<master>> \o rest)
  <2>1. connect(n) = all
    BY <1>7, Zenon DEF connect, MoveUp, LinkUp, AddrClient
  <2>2. /\ MoveUp(n) \in S /\ master \in S /\ LinkUp(n) \in S
        /\ RouteAdd(None, "default", net) \in S /\ AddrClient(n) \in S
    BY <1>7 DEF Joins
  <2> HIDE DEF S, master, net
  <2>3. rest \in Seq(S)
    BY <1>1, <2>2
  <2> HIDE DEF rest
  <2>4. all \in Seq(S) /\ Len(all) >= 1
    BY <2>2, <2>3
  <2> HIDE DEF all
  <2> QED BY <1>3, <2>1, <2>4 DEF S
<1> QED BY <1>4, <1>5, <1>6, <1>7

(* The commands after the first two, which mount the namespace. *)
Body(n) ==
    CASE Role[n] = "root"      -> <<>>
      [] Role[n] = "interface" -> Throw
      [] Role[n] = "router"    -> setup_interfaces \o setup_nft \o connect(n)
      [] Role[n] = "switch"    -> setup_interfaces \o setup_bridge(n) \o connect(n)
      [] Role[n] = "client"    -> setup_interfaces \o connect(n)

LEMMA NetworkIs ==
    ASSUME NEW n
    PROVE  add_network(n) = <<Umount, Mount>> \o Body(n)
BY Zenon DEF add_network, Body, Umount, Mount

(* A pair is added first, then a bridge, and each of them once. *)
LEMMA BodyFacts ==
    ASSUME SwitchesEnd, NEW n \in Names
    PROVE  /\ Body(n) \in Seq(Setups(n))
           /\ \A j \in 1..Len(Body(n)) : Body(n)[j].do = "add" =>
                 (j = 1 /\ Body(n)[j] = MakesPair) \/ (j = 3 /\ Body(n)[j] = MakesBridge)
<1> DEFINE S == Setups(n)
<1>1. /\ MakesPair \in S /\ MakesBridge \in S /\ PairUp \in S /\ BridgeUp \in S
      /\ SetTo("master", None, "nu", n) \in S /\ Throw[1] \in S
  BY DEF Setups, Makes
<1>2. /\ PairUp.do # "add" /\ BridgeUp.do # "add" /\ Throw[1].do # "add"
      /\ SetTo("master", None, "nu", n).do # "add"
  BY DEF PairUp, BridgeUp, Cmd, Throw, SetTo
<1>3. /\ connect(n) \in Seq(S)
      /\ \A j \in 1..Len(connect(n)) : connect(n)[j].do # "add"
  <2> DEFINE T == Joins(n) \cup {Throw[1]}
  <2>1. T \subseteq S
    BY DEF Setups, Makes
  <2>2. /\ connect(n) \in Seq(T)
        /\ \A j \in 1..Len(connect(n)) : connect(n)[j].do # "add"
    BY ConnectFacts
  <2> HIDE DEF S, T
  <2> QED BY <2>1, <2>2
<1>4. /\ setup_interfaces = <<MakesPair, PairUp>>
      /\ setup_nft = <<Throw[1]>>
      /\ setup_bridge(n) = <<MakesBridge, BridgeUp, SetTo("master", None, "nu", n)>>
  BY DEF setup_interfaces, setup_nft, setup_bridge, MakesPair, PairUp, MakesBridge, BridgeUp, Throw
<1>5. Role[n] \in Roles
  BY EntitydAssumption
<1> DEFINE master == SetTo("master", None, "nu", n)
<1> HIDE DEF S, master
<1>6. CASE Role[n] = "root"
  <2>1. Body(n) = <<>>
    BY <1>6 DEF Body
  <2> QED BY <2>1 DEF S
<1>7. CASE Role[n] = "interface"
  <2>1. Body(n) = <<Throw[1]>>
    BY <1>7 DEF Body, Throw
  <2> QED BY <1>1, <1>2, <2>1 DEF S
<1>8. CASE Role[n] = "router"
  <2>1. Body(n) = <<MakesPair, PairUp>> \o <<Throw[1]>> \o connect(n)
    BY <1>4, <1>8 DEF Body
  <2> DEFINE all == <<MakesPair, PairUp>> \o <<Throw[1]>> \o connect(n)
  <2>2. all \in Seq(S)
    BY <1>1, <1>3
  <2>3. /\ all[1] = MakesPair /\ all[2] = PairUp /\ all[3] = Throw[1]
        /\ \A j \in 4..Len(all) : all[j] = connect(n)[j - 3] /\ j - 3 \in 1..Len(connect(n))
    BY <1>3
  <2>4. \A j \in 1..Len(all) : all[j].do = "add" => j = 1 /\ all[j] = MakesPair
    BY <1>2, <1>3, <2>2, <2>3
  <2> HIDE DEF all
  <2> QED BY <2>1, <2>2, <2>4 DEF S, all
<1>9. CASE Role[n] = "switch"
  <2>1. Body(n) = <<MakesPair, PairUp>> \o <<MakesBridge, BridgeUp, master>> \o connect(n)
    BY <1>4, <1>9 DEF Body, master
  <2> DEFINE all == <<MakesPair, PairUp>> \o <<MakesBridge, BridgeUp, master>> \o connect(n)
  <2>2. all \in Seq(S)
    BY <1>1, <1>3 DEF master
  <2>3. /\ all[1] = MakesPair /\ all[2] = PairUp /\ all[3] = MakesBridge /\ all[4] = BridgeUp
        /\ all[5] = master
        /\ \A j \in 6..Len(all) : all[j] = connect(n)[j - 5] /\ j - 5 \in 1..Len(connect(n))
    BY <1>3
  <2>4. \A j \in 1..Len(all) : all[j].do = "add" =>
           (j = 1 /\ all[j] = MakesPair) \/ (j = 3 /\ all[j] = MakesBridge)
    BY <1>2, <1>3, <2>2, <2>3 DEF master
  <2> HIDE DEF all
  <2> QED BY <2>1, <2>2, <2>4 DEF S, all
<1>10. CASE Role[n] = "client"
  <2>1. Body(n) = <<MakesPair, PairUp>> \o connect(n)
    BY <1>4, <1>10 DEF Body
  <2> DEFINE all == <<MakesPair, PairUp>> \o connect(n)
  <2>2. all \in Seq(S)
    BY <1>1, <1>3
  <2>3. /\ all[1] = MakesPair /\ all[2] = PairUp
        /\ \A j \in 3..Len(all) : all[j] = connect(n)[j - 2] /\ j - 2 \in 1..Len(connect(n))
    BY <1>3
  <2>4. \A j \in 1..Len(all) : all[j].do = "add" => j = 1 /\ all[j] = MakesPair
    BY <1>2, <1>3, <2>2, <2>3
  <2> HIDE DEF all
  <2> QED BY <2>1, <2>2, <2>4 DEF S, all
<1> QED BY <1>5, <1>6, <1>7, <1>8, <1>9, <1>10 DEF Roles

LEMMA NetworkFacts ==
    ASSUME SwitchesEnd, NEW n \in Names
    PROVE  /\ add_network(n) \in Seq(Setups(n) \cup {Umount, Mount})
           /\ Len(add_network(n)) \in Nat /\ Len(add_network(n)) >= 2
           /\ add_network(n)[1] = Umount /\ add_network(n)[2] = Mount
           /\ \A j \in 3..Len(add_network(n)) : add_network(n)[j] \in Setups(n)
           /\ \A j \in 1..Len(add_network(n)) : add_network(n)[j].do = "add" =>
                 \/ j = 3 /\ add_network(n)[j] = MakesPair
                 \/ j = 5 /\ add_network(n)[j] = MakesBridge
<1> DEFINE net == <<Umount, Mount>> \o Body(n)
<1>1. Body(n) \in Seq(Setups(n))
  BY BodyFacts
<1>2. Umount.do # "add" /\ Mount.do # "add"
  BY DEF Umount, Mount, Mounts
<1>3. /\ net \in Seq(Setups(n) \cup {Umount, Mount})
      /\ Len(net) = Len(Body(n)) + 2
      /\ net[1] = Umount /\ net[2] = Mount
      /\ \A j \in 3..Len(net) : net[j] = Body(n)[j - 2] /\ j - 2 \in 1..Len(Body(n))
  BY <1>1
<1>4. \A j \in 3..Len(net) : net[j] \in Setups(n)
  BY <1>1, <1>3
<1>5. \A j \in 1..Len(net) : net[j].do = "add" =>
         (j = 3 /\ net[j] = MakesPair) \/ (j = 5 /\ net[j] = MakesBridge)
  BY <1>1, <1>2, <1>3, BodyFacts
<1>6. add_network(n) = net
  BY NetworkIs
<1> HIDE DEF net
<1> QED BY <1>1, <1>3, <1>4, <1>5, <1>6

-----------------------------------------------------------------------------
(* What the commands do. *)

LEMMA SetupCases ==
    ASSUME NEW n \in Names, NEW c \in Setups(n)
    PROVE  \/ c = MakesPair \/ c = MakesBridge
           \/ c.do \in {"up", "master", "addrAdd", "throw"}
           \/ c = MoveUp(n) /\ Uplink[n] \in Names
           \/ c.do = "routeAdd" /\ c.at = None /\ c.to = "default"
           \/ /\ c.do = "routeAdd" /\ Address[n] # None
              /\ \E s \in Names : c = RouteAdd(Uplink[s], Address[n], Address[s])
<1>1. CASE c \in Makes(n)
  BY <1>1 DEF Makes, PairUp, BridgeUp, Cmd, SetTo, Throw
<1>2. CASE c \in Joins(n) /\ Uplink[n] # None
  BY <1>2, EntitydAssumption
     DEF Joins, LinkUp, AddrAbove, AddrBridge, AddrClient, Cmd, SetTo, Addr, RouteAdd
<1> QED BY <1>1, <1>2 DEF Setups, Joins

LEMMA UndoCases ==
    ASSUME NEW n \in Names, NEW c \in Undos(n)
    PROVE  \/ c.do = "del" /\ c.at = None /\ c.kind \in {"nu", "nb"}
           \/ c = MoveBack(n) /\ Uplink[n] \in Names
           \/ c.do = "addrDel"
           \/ c.do = "down" /\ Uplink[n] \in Names
           \/ c.do = "routeDel" /\ c = RouteDel(c.at, c.to) /\ c.to \in {"default", Address[n]}
<1>1. CASE Uplink[n] = None
  BY <1>1 DEF Undos, Cmd, Addr, RouteDel
<1>2. CASE Uplink[n] # None
  BY <1>2, EntitydAssumption DEF Undos, Cmd, Addr, RouteDel
<1> QED BY <1>1, <1>2

LEMMA EffectFacts ==
    ASSUME NEW p, NEW c, Possible(p, c), Effect(p, c)
    PROVE  /\ c.do # "throw"
           /\ c.do = "umount" =>
                 mnt' = [mnt EXCEPT ![p[1]] = None] /\ UNCHANGED <<loc, up, ports, addrs, routes>>
           /\ c.do = "mount" =>
                 mnt' = [mnt EXCEPT ![p[1]] = Netns(p)] /\ UNCHANGED <<loc, up, ports, addrs, routes>>
           /\ c.do = "add" =>
                 /\ loc' = [l \in Links |-> IF l[1] = p /\ l[2] \in c.kinds THEN Netns(p) ELSE loc[l]]
                 /\ UNCHANGED <<mnt, up, ports, addrs, routes>>
           /\ c.do = "del" => Delete(Link(p, c)) /\ UNCHANGED mnt
           /\ c.do = "up" =>
                 up' = up \cup Link(p, c) /\ UNCHANGED <<mnt, loc, ports, addrs, routes>>
           /\ c.do = "down" =>
                 /\ up' = up \ Link(p, c)
                 /\ routes' = {r \in routes : r.dev \notin Link(p, c)}
                 /\ UNCHANGED <<mnt, loc, ports, addrs>>
           /\ c.do = "master" =>
                 /\ ports' = ports \cup (Link(p, c) \X Named(Where(p, c), "nb", c.to))
                 /\ UNCHANGED <<mnt, loc, up, addrs, routes>>
           /\ c.do = "move" =>
                 /\ Named(mnt[c.to], c.kind, p[1]) = {} /\ mnt[c.to] # None
                 /\ \E l \in Link(p, c) : Move(l, mnt[c.to])
                 /\ UNCHANGED mnt
           /\ c.do = "addrAdd" =>
                 addrs' = addrs \cup (Link(p, c) \X {c.addr}) /\ UNCHANGED <<mnt, loc, up, ports, routes>>
           /\ c.do = "addrDel" =>
                 (\E l \in Link(p, c) : DropAddress(l, c.addr)) /\ UNCHANGED <<mnt, loc, up, ports>>
           /\ c.do = "routeAdd" =>
                 /\ \E l \in Gateways(Where(p, c), c.via) :
                       routes' = routes \cup {[in |-> Where(p, c), to |-> c.to, dev |-> l]}
                 /\ UNCHANGED <<mnt, loc, up, ports, addrs>>
           /\ c.do = "routeDel" =>
                 routes' = routes \ Routed(Where(p, c), c.to) /\ UNCHANGED <<mnt, loc, up, ports, addrs>>
<1>1. c.do # "throw"
  BY DEF Possible
<1>2. CASE c.do = "umount"
  BY <1>2 DEF Effect
<1>3. CASE c.do = "mount"
  BY <1>3 DEF Effect
<1>4. CASE c.do = "add"
  BY <1>4, Zenon DEF Effect
<1>5. CASE c.do = "del"
  BY <1>5, Zenon DEF Effect
<1>6. CASE c.do = "up"
  BY <1>6, Zenon DEF Effect
<1>7. CASE c.do = "down"
  BY <1>7, Zenon DEF Effect
<1>8. CASE c.do = "master"
  BY <1>8, Zenon DEF Effect
<1>9. CASE c.do = "move"
  BY <1>9, Zenon DEF Effect, Possible
<1>10. CASE c.do = "addrAdd"
  BY <1>10, Zenon DEF Effect
<1>11. CASE c.do = "addrDel"
  BY <1>11, Zenon DEF Effect
<1>12. CASE c.do = "routeAdd"
  BY <1>12, Zenon DEF Effect
<1>13. CASE c.do = "routeDel"
  BY <1>13, Zenon DEF Effect
<1> QED BY <1>1, <1>2, <1>3, <1>4, <1>5, <1>6, <1>7, <1>8, <1>9, <1>10, <1>11, <1>12, <1>13, Zenon

(* A namespace is something, and a name is not a process. *)
LEMMA NetnsType ==
    ASSUME NEW p \in Procs
    PROVE  Netns(p) \in Spaces /\ Netns(p) # None
<1>1. p[1] \in Names
  BY DEF Procs
<1>2. Space[p[1]] \in {"own", "default", "external"}
  BY <1>1, EntitydAssumption
<1>3. p[1] # None /\ p # None /\ Host # None
  BY <1>1, EntitydAssumption
<1> QED BY <1>1, <1>2, <1>3 DEF Netns, Spaces

(* Links that go take their addresses and routes with them. *)
LEMMA DeleteOK ==
    ASSUME NEW L, NetOK, Delete(L), UNCHANGED mnt
    PROVE  NetOK'
<1> DEFINE gone == WithPeers(L)
<1>1. /\ loc' = [l \in Links |-> IF l \in gone THEN None ELSE loc[l]]
      /\ up' = up \ gone
      /\ ports' = {e \in ports : e[1] \notin gone /\ e[2] \notin gone}
      /\ addrs' = {a \in addrs : a[1] \notin gone}
      /\ routes' = {r \in routes : r.dev \notin gone}
  BY DEF Delete
<1> HIDE DEF gone
<1> QED BY <1>1 DEF NetOK

LEMMA MoveOK ==
    ASSUME NEW l, NEW s \in Spaces, NetOK, Move(l, s), UNCHANGED mnt
    PROVE  NetOK'
<1>1. s # None
  BY EntitydAssumption DEF Spaces
<1> QED BY <1>1 DEF NetOK, Move

(* The links a command finds are links of its process's entity that are there. *)
LEMMA LinkIs ==
    ASSUME NEW p, NEW c
    PROVE  \A l \in Link(p, c) :
              l \in Links /\ loc[l] = Where(p, c) /\ loc[l] # None /\ l[1][1] = p[1] /\ l[2] = c.kind
BY DEF Link, Named

LEMMA EffectOK ==
    ASSUME NetOK, NEW p \in Procs, NEW c,
           c \in Setups(p[1]) \cup Undos(p[1]) \cup {Umount, Mount},
           Possible(p, c), Effect(p, c),
           c.do = "add" => \A k \in c.kinds : loc[<<p, k>>] = None
    PROVE  NetOK'
<1>1. p[1] \in Names
  BY DEF Procs
<1>2. \A l \in Link(p, c) : l \in Links /\ loc[l] # None
  BY LinkIs
<1>3. CASE c = Umount
  <2>1. mnt' = [mnt EXCEPT ![p[1]] = None] /\ UNCHANGED <<loc, up, ports, addrs, routes>>
    BY <1>3, EffectFacts DEF Umount, Mounts
  <2> QED BY <1>1, <2>1 DEF NetOK
<1>4. CASE c = Mount
  <2>1. mnt' = [mnt EXCEPT ![p[1]] = Netns(p)] /\ UNCHANGED <<loc, up, ports, addrs, routes>>
    BY <1>4, EffectFacts DEF Mount, Mounts
  <2> QED BY <1>1, <2>1, NetnsType DEF NetOK
<1>5. CASE c.do = "add"
  <2> DEFINE new == {l \in Links : l[1] = p /\ l[2] \in c.kinds}
  <2>1. /\ loc' = [l \in Links |-> IF l \in new THEN Netns(p) ELSE loc[l]]
        /\ UNCHANGED <<mnt, up, ports, addrs, routes>>
    BY <1>5, EffectFacts
  <2>2. \A l \in new : loc[l] = None
    BY <1>5 DEF Links
  <2>3. Netns(p) \in Spaces /\ Netns(p) # None
    BY NetnsType
  <2> HIDE DEF new
  <2> QED BY <2>1, <2>2, <2>3 DEF NetOK
<1>6. CASE c.do = "del"
  <2>1. Delete(Link(p, c)) /\ UNCHANGED mnt
    BY <1>6, EffectFacts
  <2> QED BY <2>1, DeleteOK
<1>7. CASE c.do = "up"
  <2>1. up' = up \cup Link(p, c) /\ UNCHANGED <<mnt, loc, ports, addrs, routes>>
    BY <1>7, EffectFacts
  <2> QED BY <1>2, <2>1 DEF NetOK
<1>8. CASE c.do = "down"
  <2>1. /\ up' = up \ Link(p, c)
        /\ routes' = {r \in routes : r.dev \notin Link(p, c)}
        /\ UNCHANGED <<mnt, loc, ports, addrs>>
    BY <1>8, EffectFacts
  <2> QED BY <2>1 DEF NetOK
<1>9. CASE c.do = "master"
  <2>1. /\ ports' = ports \cup (Link(p, c) \X Named(Where(p, c), "nb", c.to))
        /\ UNCHANGED <<mnt, loc, up, addrs, routes>>
    BY <1>9, EffectFacts
  <2>2. Named(Where(p, c), "nb", c.to) \subseteq Links
    BY DEF Named
  <2> QED BY <1>2, <2>1, <2>2 DEF NetOK
<1>10. CASE c.do = "move"
  <2>1. c.to \in Names
    <3>1. CASE c \in Setups(p[1])
      BY <1>1, <1>10, <3>1, SetupCases DEF MoveUp, SetTo, MakesPair, MakesBridge, LinkAdd
    <3>2. CASE c \in Undos(p[1])
      BY <1>1, <1>10, <3>2, UndoCases DEF MoveBack, SetTo
    <3> QED BY <1>10, <3>1, <3>2 DEF Umount, Mount, Mounts
  <2>2. /\ mnt[c.to] # None /\ UNCHANGED mnt
        /\ \E l \in Link(p, c) : Move(l, mnt[c.to])
    BY <1>10, EffectFacts
  <2>3. mnt[c.to] \in Spaces
    BY <2>1, <2>2 DEF NetOK
  <2> QED BY <2>2, <2>3, MoveOK
<1>11. CASE c.do = "addrAdd"
  <2>1. addrs' = addrs \cup (Link(p, c) \X {c.addr}) /\ UNCHANGED <<mnt, loc, up, ports, routes>>
    BY <1>11, EffectFacts
  <2> QED BY <1>2, <2>1 DEF NetOK
<1>12. CASE c.do = "addrDel"
  <2>1. /\ \E l \in Link(p, c) : DropAddress(l, c.addr)
        /\ UNCHANGED <<mnt, loc, up, ports>>
    BY <1>12, EffectFacts
  <2>2. addrs' \subseteq addrs /\ routes' \subseteq routes
    BY <2>1 DEF DropAddress
  <2> QED BY <2>1, <2>2 DEF NetOK
<1>13. CASE c.do = "routeAdd"
  <2>1. /\ \E l \in Gateways(Where(p, c), c.via) :
              routes' = routes \cup {[in |-> Where(p, c), to |-> c.to, dev |-> l]}
        /\ UNCHANGED <<mnt, loc, up, ports, addrs>>
    BY <1>13, EffectFacts
  <2> QED BY <2>1 DEF NetOK, Gateways
<1>14. CASE c.do = "routeDel"
  <2>1. routes' \subseteq routes /\ UNCHANGED <<mnt, loc, up, ports, addrs>>
    BY <1>14, EffectFacts
  <2> QED BY <2>1 DEF NetOK
<1>15. \/ c = Umount \/ c = Mount
       \/ c.do \in {"add", "del", "up", "down", "master", "move", "addrAdd", "addrDel",
                    "routeAdd", "routeDel"}
  <2>1. c.do # "throw"
    BY EffectFacts
  <2>2. CASE c \in Setups(p[1])
    BY <1>1, <2>1, <2>2, SetupCases DEF MoveUp, SetTo, MakesPair, MakesBridge, LinkAdd
  <2>3. CASE c \in Undos(p[1])
    BY <1>1, <2>3, UndoCases DEF MoveBack, SetTo
  <2> QED BY <2>2, <2>3
<1> QED BY <1>3, <1>4, <1>5, <1>6, <1>7, <1>8, <1>9, <1>10, <1>11, <1>12, <1>13, <1>14, <1>15

-----------------------------------------------------------------------------
(* The lists of the processes. *)

LEMMA UndoFacts ==
    ASSUME NEW p \in Procs, NEW c
    PROVE  /\ c = Umount => Undo(p, c) = <<>>
           /\ c = Mount => Undo(p, c) = <<Umount>>
           /\ c = MoveUp(p[1]) => Undo(p, c) = <<MoveBack(p[1])>>
           /\ c.do = "routeAdd" => Undo(p, c) = <<RouteDel(c.at, c.to)>>
           /\ c \in Setups(p[1]) => Undo(p, c) = <<>> \/ \E u \in Undos(p[1]) : Undo(p, c) = <<u>>
<1>1. p[1] \in Names
  BY DEF Procs
<1>2. c = Umount => Undo(p, c) = <<>>
  BY DEF Undo, Umount, Mounts
<1>3. c = Mount => Undo(p, c) = <<Umount>>
  BY DEF Undo, Mount, Umount, Mounts
<1>4. c = MoveUp(p[1]) => Undo(p, c) = <<MoveBack(p[1])>>
  BY DEF Undo, MoveUp, MoveBack, SetTo
<1>5. c.do = "routeAdd" => Undo(p, c) = <<RouteDel(c.at, c.to)>>
  BY DEF Undo
<1>6. ASSUME c \in Makes(p[1])
      PROVE  Undo(p, c) = <<>> \/ \E u \in Undos(p[1]) : Undo(p, c) = <<u>>
  <2>1. c = MakesPair => Undo(p, c) = <<Cmd("del", None, "nu")>>
    BY DEF Undo, MakesPair, LinkAdd
  <2>2. c = MakesBridge => Undo(p, c) = <<Cmd("del", None, "nb")>>
    BY DEF Undo, MakesBridge, LinkAdd
  <2>3. c.do = "up" /\ c.at = None => Undo(p, c) = <<>>
    BY DEF Undo
  <2>4. c.do \in {"master", "throw"} => Undo(p, c) = <<>>
    BY DEF Undo
  <2>5. \/ c = MakesPair \/ c = MakesBridge \/ (c.do = "up" /\ c.at = None)
        \/ c.do \in {"master", "throw"}
    BY <1>6 DEF Makes, PairUp, BridgeUp, Cmd, SetTo, Throw
  <2> QED BY <2>1, <2>2, <2>3, <2>4, <2>5 DEF Undos
<1>7. ASSUME c \in Joins(p[1])
      PROVE  Undo(p, c) = <<>> \/ \E u \in Undos(p[1]) : Undo(p, c) = <<u>>
  <2> DEFINE n == p[1]
  <2>1. Uplink[n] # None
    BY <1>7 DEF Joins
  <2>2. c = LinkUp(n) => Undo(p, c) = <<Cmd("down", Uplink[n], "nd")>>
    BY <2>1 DEF Undo, LinkUp, Cmd
  <2>3. /\ c = AddrAbove(n) => Undo(p, c) = <<Addr("addrDel", Uplink[n], "nd", Address[n], 1)>>
        /\ c = AddrBridge(n) => Undo(p, c) = <<Addr("addrDel", None, "nb", Address[n], 2)>>
        /\ c = AddrClient(n) => Undo(p, c) = <<Addr("addrDel", None, "nu", Address[Uplink[n]], 3)>>
    BY DEF Undo, AddrAbove, AddrBridge, AddrClient, Addr
  <2>4. c.do = "master" => Undo(p, c) = <<>>
    BY DEF Undo
  <2>5. \A at, to, via : c = RouteAdd(at, to, via) => Undo(p, c) = <<RouteDel(at, to)>>
    BY <1>5 DEF RouteAdd
  <2>6. /\ MoveBack(n) \in Undos(n) /\ Cmd("down", Uplink[n], "nd") \in Undos(n)
        /\ Addr("addrDel", Uplink[n], "nd", Address[n], 1) \in Undos(n)
        /\ Addr("addrDel", None, "nb", Address[n], 2) \in Undos(n)
        /\ Addr("addrDel", None, "nu", Address[Uplink[n]], 3) \in Undos(n)
        /\ RouteDel(None, "default") \in Undos(n)
        /\ \A s \in Names : RouteDel(Uplink[s], Address[n]) \in Undos(n)
    BY <2>1 DEF Undos
  <2>7. \/ c = MoveUp(n) \/ c = LinkUp(n) \/ c = AddrAbove(n) \/ c = AddrBridge(n)
        \/ c = AddrClient(n) \/ c = RouteAdd(None, "default", Address[Uplink[n]])
        \/ c = RouteAdd(None, "default", Address[n])
        \/ c.do = "master"
        \/ \E s \in Names : c = RouteAdd(Uplink[s], Address[n], Address[s])
    BY <1>7 DEF Joins, SetTo
  <2> HIDE DEF n
  <2> QED BY <1>4, <2>2, <2>3, <2>4, <2>5, <2>6, <2>7 DEF n
<1> QED BY <1>2, <1>3, <1>4, <1>5, <1>6, <1>7 DEF Setups

LEMMA CommandsOf ==
    ASSUME NEW n \in Names
    PROVE  Setups(n) \cup Undos(n) \cup {Umount, Mount} \subseteq Commands
BY DEF Commands

(* A process that is setting up executes the next command of its list. *)
LEMMA NextCommand ==
    ASSUME SwitchesEnd, Base, NEW p \in Procs, state[p] = "adding"
    PROVE  /\ Done(p) \in Nat /\ Done(p) <= Len(add_network(p[1]))
           /\ todo[p] # <<>> =>
                 /\ Done(p) + 1 <= Len(add_network(p[1]))
                 /\ Head(todo[p]) = add_network(p[1])[Done(p) + 1]
                 /\ Head(todo[p]) = IF Done(p) = 0 THEN Umount
                                    ELSE IF Done(p) = 1 THEN Mount ELSE Head(todo[p])
                 /\ Done(p) >= 2 => Head(todo[p]) \in Setups(p[1])
<1> DEFINE net == add_network(p[1])
<1>1. p[1] \in Names
  BY DEF Procs
<1>2. /\ Len(net) \in Nat /\ net[1] = Umount /\ net[2] = Mount
      /\ \A j \in 3..Len(net) : net[j] \in Setups(p[1])
  BY <1>1, NetworkFacts
<1>3. todo[p] \in Seq(Commands)
  BY DEF Base
<1>4. /\ Len(todo[p]) <= Len(net)
      /\ \A j \in 1..Len(todo[p]) : todo[p][j] = net[Done(p) + j]
  BY DEF Base, ListsOK
<1>5. Done(p) = Len(net) - Len(todo[p])
  BY DEF Done
<1> HIDE DEF net
<1>6. Done(p) \in Nat /\ Done(p) <= Len(net)
  BY <1>2, <1>3, <1>4, <1>5
<1>7. ASSUME todo[p] # <<>>
      PROVE  Done(p) + 1 <= Len(net) /\ Head(todo[p]) = net[Done(p) + 1]
  <2>1. Len(todo[p]) \in Nat /\ Len(todo[p]) >= 1 /\ Head(todo[p]) = todo[p][1]
    BY <1>3, <1>7
  <2>2. todo[p][1] = net[Done(p) + 1]
    BY <1>4, <2>1
  <2>3. Done(p) + 1 <= Len(net)
    BY <1>2, <1>5, <2>1
  <2> QED BY <2>1, <2>2, <2>3
<1>8. ASSUME todo[p] # <<>>, Done(p) >= 2
      PROVE  Head(todo[p]) \in Setups(p[1])
  BY <1>2, <1>6, <1>7, <1>8
<1> QED BY <1>2, <1>6, <1>7, <1>8 DEF net

(* Only "add" makes links. *)
LEMMA NoNewLinks ==
    ASSUME Base, NEW p \in Procs, NEW c, Possible(p, c), Effect(p, c),
           c \in Setups(p[1]) \cup Undos(p[1]) \cup {Umount, Mount}
    PROVE  \A l \in Links : loc'[l] # None =>
              loc[l] # None \/ (c.do = "add" /\ l[1] = p /\ l[2] \in c.kinds)
<1>1. p[1] \in Names /\ loc \in [Links -> Spaces \cup {None}]
  BY DEF Procs, Base, NetOK
<1>2. CASE c.do = "add"
  <2>1. loc' = [l \in Links |-> IF l[1] = p /\ l[2] \in c.kinds THEN Netns(p) ELSE loc[l]]
    BY <1>2, EffectFacts
  <2> QED BY <1>2, <2>1
<1>3. CASE c.do = "del"
  <2>1. Delete(Link(p, c))
    BY <1>3, EffectFacts
  <2>2. loc' = [l \in Links |-> IF l \in WithPeers(Link(p, c)) THEN None ELSE loc[l]]
    BY <2>1 DEF Delete
  <2> QED BY <2>2
<1>4. CASE c.do = "move"
  <2>1. \E l \in Link(p, c) : Move(l, mnt[c.to])
    BY <1>4, EffectFacts
  <2>2. \E l \in Links : loc[l] # None /\ loc' = [loc EXCEPT ![l] = mnt[c.to]]
    <3>1. PICK l \in Link(p, c) : Move(l, mnt[c.to])
      BY <2>1
    <3>2. loc' = [loc EXCEPT ![l] = mnt[c.to]]
      BY <3>1 DEF Move
    <3>3. l \in Links /\ loc[l] # None
      BY <3>1, LinkIs
    <3> QED BY <3>2, <3>3
  <2> QED BY <1>1, <2>2
<1>5. CASE c.do \notin {"add", "del", "move"}
  <2>1. c.do # "throw"
    BY EffectFacts
  <2>2. CASE c \in Setups(p[1])
    BY <1>1, <1>5, <2>1, <2>2, SetupCases, EffectFacts
       DEF MoveUp, SetTo, MakesPair, MakesBridge, LinkAdd
  <2>3. CASE c \in Undos(p[1])
    BY <1>1, <1>5, <2>3, UndoCases, EffectFacts DEF MoveBack, SetTo
  <2>4. CASE c \in {Umount, Mount}
    BY <2>4, EffectFacts DEF Umount, Mount, Mounts
  <2> QED BY <2>2, <2>3, <2>4
<1> QED BY <1>2, <1>3, <1>4, <1>5

-----------------------------------------------------------------------------
(* Base is inductive: one lemma per action. *)

LEMMA ListsFrame ==
    ASSUME NEW q, ListsOK(q), state'[q] = state[q], todo'[q] = todo[q], cleanups'[q] = cleanups[q]
    PROVE  ListsOK(q)'
BY DEF ListsOK, Done, Working

LEMMA AddedFrame ==
    ASSUME NEW q, AddedOK(q), state'[q] = state[q], todo'[q] = todo[q],
           \A k \in {"nu", "nd", "nb"} : loc'[<<q, k>>] # None => loc[<<q, k>>] # None
    PROVE  AddedOK(q)'
BY DEF AddedOK, Adds, Done, Working

(* What is left to show of a step of one process. *)
LEMMA BaseStep ==
    ASSUME Base, NEW p \in Procs,
           NetOK',
           daemon' \in {"up", "gone"},
           NEW s \in {"none", "idle", "adding", "up", "cleaning", "exited", "aborted"},
           state' = [state EXCEPT ![p] = s],
           answer' \in [Procs -> {"none", "pending", "ok"}],
           NEW t \in Seq(Commands), todo' = [todo EXCEPT ![p] = t],
           NEW u \in Seq(Commands), cleanups' = [cleanups EXCEPT ![p] = u],
           \A q \in Procs, k \in {"nu", "nd", "nb"} :
              q # p /\ loc'[<<q, k>>] # None => loc[<<q, k>>] # None,
           ListsOK(p)', AddedOK(p)'
    PROVE  Base'
<1>1. ASSUME NEW q \in Procs, q # p
      PROVE  ListsOK(q)' /\ AddedOK(q)'
  <2>1. state'[q] = state[q] /\ todo'[q] = todo[q] /\ cleanups'[q] = cleanups[q]
    BY <1>1 DEF Base
  <2>2. ListsOK(q) /\ AddedOK(q)
    BY DEF Base
  <2> QED BY <1>1, <2>1, <2>2, ListsFrame, AddedFrame
<1>2. todo' \in [Procs -> Seq(Commands)] /\ cleanups' \in [Procs -> Seq(Commands)]
  BY DEF Base
<1>3. state' \in [Procs -> {"none", "idle", "adding", "up", "cleaning", "exited", "aborted"}]
  BY DEF Base
<1> QED BY <1>1, <1>2, <1>3 DEF Base

LEMMA BaseInit ==
    ASSUME Init
    PROVE  Base
<1>1. NetOK
  BY DEF Init, NetnsInit, NetOK
<1>2. <<>> \in Seq(Commands)
  OBVIOUS
<1>3. \A p \in Procs : state[p] = "none" /\ todo[p] = <<>> /\ cleanups[p] = <<>>
  BY DEF Init
<1>4. \A p \in Procs, k \in {"nu", "nd", "nb"} : loc[<<p, k>>] = None
  BY DEF Init, NetnsInit, Links
<1>5. ASSUME NEW p \in Procs
      PROVE  ListsOK(p)
  BY <1>3 DEF ListsOK, Working
<1>6. ASSUME NEW p \in Procs
      PROVE  AddedOK(p)
  BY <1>4 DEF AddedOK
<1> QED BY <1>1, <1>2, <1>5, <1>6 DEF Init, Base

LEMMA SpawnBase ==
    ASSUME Base, NEW p \in Procs, Spawn(p)
    PROVE  Base'
<1>1. /\ state' = [state EXCEPT ![p] = "idle"] /\ UNCHANGED <<netns, daemon, todo, cleanups, answer>>
      /\ state[p] = "none"
  BY DEF Spawn, Goes
<1>2. NetOK'
  BY <1>1 DEF Base, NetOK, netns
<1>3. ListsOK(p) /\ AddedOK(p)
  BY DEF Base
<1>4. todo[p] \in Seq(Commands) /\ cleanups[p] \in Seq(Commands)
      /\ state'[p] = "idle" /\ todo' = [todo EXCEPT ![p] = todo[p]]
      /\ cleanups' = [cleanups EXCEPT ![p] = cleanups[p]]
  BY <1>1 DEF Base
<1>5. ListsOK(p)' /\ AddedOK(p)'
  BY <1>1, <1>3, <1>4 DEF ListsOK, AddedOK, Working, netns
<1> QED BY <1>1, <1>2, <1>4, <1>5, BaseStep DEF netns, Base

LEMMA AddComponentBase ==
    ASSUME SwitchesEnd, Base, NEW p \in Procs, AddComponent(p)
    PROVE  Base'
<1> DEFINE net == add_network(p[1])
<1>0. p[1] \in Names
  BY DEF Procs
<1>1. /\ state' = [state EXCEPT ![p] = "adding"] /\ UNCHANGED <<netns, daemon, cleanups>>
      /\ state[p] = "idle" /\ todo' = [todo EXCEPT ![p] = net]
      /\ answer' = [answer EXCEPT ![p] = "pending"]
  BY DEF AddComponent, Goes
<1>2. NetOK'
  BY <1>1 DEF Base, NetOK, netns
<1>3. ListsOK(p) /\ AddedOK(p)
  BY DEF Base
<1>4. net \in Seq(Commands) /\ Len(net) \in Nat
  <2>1. net \in Seq(Setups(p[1]) \cup {Umount, Mount})
    BY <1>0, NetworkFacts
  <2>2. Setups(p[1]) \cup {Umount, Mount} \subseteq Commands
    BY <1>0, CommandsOf
  <2> HIDE DEF net
  <2> QED BY <2>1, <2>2
<1>5. /\ cleanups[p] \in Seq(Commands) /\ cleanups' = [cleanups EXCEPT ![p] = cleanups[p]]
      /\ state'[p] = "adding" /\ todo'[p] = net /\ cleanups'[p] = cleanups[p]
      /\ cleanups[p] = <<>>
  BY <1>1, <1>3 DEF Base, ListsOK, Working
<1>6. Done(p)' = 0
  BY <1>4, <1>5 DEF Done
<1>7. ListsOK(p)'
  <2> HIDE DEF net
  <2>1. \A j \in 1..Len(net) : net[j] = net[0 + j]
    BY <1>4
  <2> QED BY <1>4, <1>5, <1>6, <2>1 DEF ListsOK, Working, net
<1>8. AddedOK(p)'
  BY <1>1, <1>3 DEF AddedOK, netns
<1> HIDE DEF net
<1>9. answer' \in [Procs -> {"none", "pending", "ok"}] /\ daemon' \in {"up", "gone"}
  BY <1>1 DEF Base
<1> QED BY <1>1, <1>2, <1>4, <1>5, <1>7, <1>8, <1>9, BaseStep DEF netns

(* What the step of a process that executes command c changes in its lists. *)
LEMMA ExecutesFacts ==
    ASSUME SwitchesEnd, Base, NEW p \in Procs, Executes(p)
    PROVE  LET c == Head(todo[p]) IN
           /\ state[p] = "adding" /\ UNCHANGED <<daemon, state, answer>>
           /\ Possible(p, c) /\ Effect(p, c)
           /\ c = add_network(p[1])[Done(p) + 1]
           /\ c \in Setups(p[1]) \cup {Umount, Mount}
           /\ Done(p) >= 2 => c \in Setups(p[1])
           /\ Done(p) = 0 => c = Umount
           /\ Done(p) = 1 => c = Mount
           /\ Done(p) \in Nat /\ Done(p) + 1 <= Len(add_network(p[1]))
           /\ Done(p)' = Done(p) + 1
           /\ Tail(todo[p]) \in Seq(Commands) /\ Undo(p, c) \in Seq(Commands)
           /\ todo' = [todo EXCEPT ![p] = Tail(todo[p])]
           /\ cleanups' = [cleanups EXCEPT ![p] = cleanups[p] \o Undo(p, c)]
<1> DEFINE c == Head(todo[p])
<1>1. /\ state[p] = "adding" /\ UNCHANGED <<daemon, state, answer>>
      /\ Possible(p, c) /\ Effect(p, c)
      /\ todo[p] # <<>>
      /\ todo' = [todo EXCEPT ![p] = Tail(todo[p])]
      /\ cleanups' = [cleanups EXCEPT ![p] = cleanups[p] \o Undo(p, c)]
  BY DEF Executes
<1>2. todo \in [Procs -> Seq(Commands)] /\ p[1] \in Names
  BY DEF Base, Procs
<1>3. /\ Done(p) \in Nat /\ Done(p) + 1 <= Len(add_network(p[1]))
      /\ c = add_network(p[1])[Done(p) + 1]
      /\ Done(p) = 0 => c = Umount
      /\ Done(p) = 1 => c = Mount
      /\ Done(p) >= 2 => c \in Setups(p[1])
  BY <1>1, NextCommand
<1>4. c \in Setups(p[1]) \cup {Umount, Mount}
  BY <1>3
<1>5. Tail(todo[p]) \in Seq(Commands) /\ Len(Tail(todo[p])) = Len(todo[p]) - 1 /\ Len(todo[p]) \in Nat
  BY <1>1, <1>2
<1>6. Done(p)' = Done(p) + 1
  <2>1. todo'[p] = Tail(todo[p])
    BY <1>1, <1>2
  <2>2. Len(add_network(p[1])) \in Nat
    BY <1>2, NetworkFacts
  <2>3. Done(p) = Len(add_network(p[1])) - Len(todo[p])
    BY DEF Done
  <2>4. Done(p)' = Len(add_network(p[1])) - Len(Tail(todo[p]))
    BY <2>1 DEF Done
  <2> DEFINE a == Len(add_network(p[1]))
             b == Len(todo[p])
  <2>5. Done(p)' = a - (b - 1) /\ Done(p) = a - b
    BY <1>5, <2>3, <2>4, Zenon
  <2>6. a \in Nat /\ b \in Nat
    BY <1>5, <2>2
  <2> HIDE DEF a, b
  <2> QED BY <2>5, <2>6
<1>7. Undo(p, c) \in Seq(Commands)
  <2>1. Undo(p, c) = <<>> \/ \E u \in Commands : Undo(p, c) = <<u>>
    BY <1>2, <1>4, UndoFacts, CommandsOf
  <2>2. \A u \in Commands : <<u>> \in Seq(Commands)
    OBVIOUS
  <2>3. <<>> \in Seq(Commands)
    OBVIOUS
  <2> QED BY <2>1, <2>2, <2>3, Zenon
<1> HIDE DEF c
<1> QED BY <1>1, <1>3, <1>4, <1>5, <1>6, <1>7, Zenon DEF c

LEMMA ExecutesBase ==
    ASSUME SwitchesEnd, Base, NEW p \in Procs, Executes(p)
    PROVE  Base'
<1> DEFINE c == Head(todo[p])
           net == add_network(p[1])
           t == Tail(todo[p])
           u == cleanups[p] \o Undo(p, c)
<1>1. p[1] \in Names
  BY DEF Procs
<1>2. /\ state[p] = "adding" /\ UNCHANGED <<daemon, state, answer>>
      /\ Possible(p, c) /\ Effect(p, c)
      /\ c = net[Done(p) + 1]
      /\ c \in Setups(p[1]) \cup {Umount, Mount}
      /\ Done(p) >= 2 => c \in Setups(p[1])
      /\ Done(p) = 0 => c = Umount
      /\ Done(p) = 1 => c = Mount
      /\ Done(p) \in Nat /\ Done(p) + 1 <= Len(net)
      /\ Done(p)' = Done(p) + 1
      /\ t \in Seq(Commands) /\ Undo(p, c) \in Seq(Commands)
      /\ todo' = [todo EXCEPT ![p] = t]
      /\ cleanups' = [cleanups EXCEPT ![p] = u]
  BY ExecutesFacts
<1>3. /\ todo[p] \in Seq(Commands) /\ cleanups[p] \in Seq(Commands) /\ u \in Seq(Commands)
      /\ todo \in [Procs -> Seq(Commands)] /\ cleanups \in [Procs -> Seq(Commands)]
      /\ todo[p] # <<>>
  BY <1>2 DEF Base, Executes
<1>4. ListsOK(p) /\ AddedOK(p) /\ NetOK /\ state'[p] = "adding"
  BY <1>2 DEF Base
<1>5. todo'[p] = t /\ cleanups'[p] = u
  BY <1>2, <1>3
<1>6. Len(t) = Len(todo[p]) - 1 /\ Len(t) \in Nat /\ \A j \in 1..Len(t) : t[j] = todo[p][j + 1]
  BY <1>3
<1>7. Len(net) \in Nat
  BY <1>1, NetworkFacts
<1>8. ListsOK(p)'
  <2> HIDE DEF c, net, t, u
  <2>1. Len(todo[p]) <= Len(net) /\ \A j \in 1..Len(todo[p]) : todo[p][j] = net[Done(p) + j]
    BY <1>2, <1>4 DEF ListsOK, net
  <2>2. Len(t) <= Len(net) /\ \A j \in 1..Len(t) : t[j] = net[Done(p)' + j]
    <3>1. Len(t) <= Len(net)
      BY <1>3, <1>6, <1>7, <2>1
    <3>2. ASSUME NEW j \in 1..Len(t)
          PROVE  t[j] = net[Done(p)' + j]
      <4>1. t[j] = todo[p][j + 1] /\ j + 1 \in 1..Len(todo[p])
        BY <1>3, <1>6
      <4>2. todo[p][j + 1] = net[Done(p) + (j + 1)]
        BY <2>1, <4>1
      <4>3. Done(p) + (j + 1) = Done(p)' + j
        BY <1>2
      <4> QED BY <4>1, <4>2, <4>3
    <3> QED BY <3>1, <3>2
  <2>3. /\ cleanups[p] # <<>> <=> Done(p) >= 2
        /\ \A j \in 1..Len(cleanups[p]) :
              cleanups[p][j] \in IF j = 1 THEN {Umount} ELSE Undos(p[1])
    BY <1>2, <1>4 DEF ListsOK, Working
  <2>4. /\ u # <<>> <=> Done(p)' >= 2
        /\ \A j \in 1..Len(u) : u[j] \in IF j = 1 THEN {Umount} ELSE Undos(p[1])
    <3>1. CASE Done(p) = 0
      <4>1. u = <<>>
        BY <1>2, <1>3, <2>3, <3>1, UndoFacts DEF u
      <4> QED BY <1>2, <3>1, <4>1
    <3>2. CASE Done(p) = 1
      <4>1. Undo(p, c) = <<Umount>> /\ cleanups[p] = <<>>
        BY <1>2, <2>3, <3>2, UndoFacts
      <4>2. u = <<Umount>>
        BY <4>1 DEF u
      <4> QED BY <1>2, <3>2, <4>2
    <3>3. CASE Done(p) >= 2
      <4>1. cleanups[p] # <<>> /\ Len(cleanups[p]) \in Nat /\ Len(cleanups[p]) >= 1
        BY <1>3, <2>3, <3>3
      <4>2. CASE Undo(p, c) = <<>>
        <5>1. u = cleanups[p]
          BY <1>3, <4>2 DEF u
        <5> QED BY <1>2, <2>3, <3>3, <4>1, <5>1
      <4>3. ASSUME NEW w \in Undos(p[1]), Undo(p, c) = <<w>>
            PROVE  /\ u # <<>> <=> Done(p)' >= 2
                   /\ \A j \in 1..Len(u) : u[j] \in IF j = 1 THEN {Umount} ELSE Undos(p[1])
        <5>1. /\ Len(u) = Len(cleanups[p]) + 1
              /\ \A j \in 1..Len(cleanups[p]) : u[j] = cleanups[p][j]
              /\ u[Len(cleanups[p]) + 1] = w
          BY <1>2, <1>3, <4>3 DEF u
        <5>2. u # <<>>
          BY <4>1, <5>1
        <5> QED BY <1>2, <2>3, <3>3, <4>1, <4>3, <5>1, <5>2
      <4> QED BY <1>2, <3>3, <4>2, <4>3, UndoFacts
    <3> QED BY <1>2, <3>1, <3>2, <3>3
  <2> QED BY <1>4, <1>5, <2>2, <2>4 DEF ListsOK, Working, net
<1>9. \A l \in Links : loc'[l] # None =>
         loc[l] # None \/ (c.do = "add" /\ l[1] = p /\ l[2] \in c.kinds)
  BY <1>2, NoNewLinks
<1>10. \A q \in Procs, k \in {"nu", "nd", "nb"} : <<q, k>> \in Links
  BY DEF Links
<1>11. AddedOK(p)'
  <2>1. SUFFICES ASSUME NEW k \in {"nu", "nd", "nb"}, loc'[<<p, k>>] # None
                 PROVE  \E j \in 1..Done(p)' : Adds(p[1], j, k)
    BY <1>4 DEF AddedOK, Working, Adds
  <2>2. loc[<<p, k>>] # None \/ (c.do = "add" /\ k \in c.kinds)
    BY <1>9, <1>10, <2>1
  <2>3. CASE loc[<<p, k>>] # None
    <3>1. \E j \in 1..Done(p) : Adds(p[1], j, k)
      BY <1>2, <1>4, <2>3 DEF AddedOK, Working
    <3> QED BY <1>2, <3>1
  <2>4. CASE c.do = "add" /\ k \in c.kinds
    <3>1. Adds(p[1], Done(p) + 1, k)
      BY <1>2, <2>4 DEF Adds
    <3> QED BY <1>2, <3>1
  <2> QED BY <2>2, <2>3, <2>4
<1>12. NetOK'
  <2>1. ASSUME c.do = "add", NEW k \in c.kinds
        PROVE  loc[<<p, k>>] = None
    <3>1. SUFFICES ASSUME loc[<<p, k>>] # None
                   PROVE  FALSE
      OBVIOUS
    <3>2. /\ \A j \in 1..Len(net) : net[j].do = "add" =>
                (j = 3 /\ net[j] = MakesPair) \/ (j = 5 /\ net[j] = MakesBridge)
      BY <1>1, NetworkFacts
    <3>3. /\ Done(p) + 1 \in {3, 5}
          /\ Done(p) + 1 = 3 => c = MakesPair
          /\ Done(p) + 1 = 5 => c = MakesBridge
      BY <1>2, <1>7, <2>1, <3>2, SMTT(30)
    <3>4. k \in {"nu", "nd", "nb"}
      BY <2>1, <3>3 DEF MakesPair, MakesBridge, LinkAdd
    <3>5. PICK j \in 1..Done(p) : Adds(p[1], j, k)
      BY <1>2, <1>4, <3>1, <3>4 DEF AddedOK, Working
    <3>6. net[j].do = "add" /\ k \in net[j].kinds /\ j \in 1..Len(net)
      BY <1>2, <1>7, <3>5 DEF Adds
    <3> HIDE DEF net, c
    <3>7. j = 3 /\ net[j] = MakesPair /\ c = MakesBridge
      BY <1>2, <3>2, <3>3, <3>5, <3>6
    <3> QED BY <2>1, <3>6, <3>7 DEF MakesPair, MakesBridge, LinkAdd
  <2> QED BY <1>2, <1>4, <2>1, EffectOK
<1>13. /\ \A q \in Procs, k \in {"nu", "nd", "nb"} :
             q # p /\ loc'[<<q, k>>] # None => loc[<<q, k>>] # None
  BY <1>9, <1>10
<1> HIDE DEF c, net, t, u
<1>14. /\ state' = [state EXCEPT ![p] = "adding"] /\ daemon' \in {"up", "gone"}
       /\ answer' \in [Procs -> {"none", "pending", "ok"}]
  BY <1>2 DEF Base
<1> QED BY <1>2, <1>3, <1>8, <1>11, <1>12, <1>13, <1>14, BaseStep

(* A step that leaves the lists and the namespaces, and goes on to state s. *)
LEMMA GoesBase ==
    ASSUME Base, NEW p \in Procs, UNCHANGED <<netns, daemon, todo, cleanups>>,
           NEW s \in {"idle", "up", "exited"}, Goes(p, s),
           answer' \in [Procs -> {"none", "pending", "ok"}],
           ListsOK(p)', AddedOK(p)'
    PROVE  Base'
<1>1. NetOK' /\ daemon' \in {"up", "gone"}
  BY DEF Base, NetOK, netns
<1>2. /\ todo[p] \in Seq(Commands) /\ cleanups[p] \in Seq(Commands)
      /\ todo' = [todo EXCEPT ![p] = todo[p]]
      /\ cleanups' = [cleanups EXCEPT ![p] = cleanups[p]]
      /\ state' = [state EXCEPT ![p] = s]
  BY DEF Base, Goes
<1>3. loc' = loc
  BY DEF netns
<1> QED BY <1>1, <1>2, <1>3, BaseStep

LEMMA AnswersBase ==
    ASSUME SwitchesEnd, Base, NEW p \in Procs, Answers(p)
    PROVE  Base'
<1>1. /\ state[p] = "adding" /\ todo[p] = <<>> /\ Goes(p, "up")
      /\ answer' = [answer EXCEPT ![p] = "ok"]
      /\ UNCHANGED <<netns, daemon, todo, cleanups>>
  BY DEF Answers
<1>2. ListsOK(p) /\ AddedOK(p) /\ state'[p] = "up" /\ answer' \in [Procs -> {"none", "pending", "ok"}]
  BY <1>1 DEF Base, Goes
<1>3. Done(p)' = Done(p)
  BY <1>1 DEF Done
<1>4. ListsOK(p)'
  BY <1>1, <1>2, <1>3 DEF ListsOK, Working
<1>5. AddedOK(p)'
  BY <1>1, <1>2, <1>3 DEF AddedOK, Working, Adds, netns
<1> QED BY <1>1, <1>2, <1>4, <1>5, GoesBase

LEMMA ExitsBase ==
    ASSUME Base, NEW p \in Procs, Exits(p)
    PROVE  Base'
<1>1. /\ state[p] = "cleaning" /\ todo[p] = <<>> /\ Goes(p, "exited")
      /\ UNCHANGED <<netns, daemon, todo, cleanups, answer>>
  BY DEF Exits
<1>2. ListsOK(p) /\ AddedOK(p) /\ state'[p] = "exited" /\ answer' \in [Procs -> {"none", "pending", "ok"}]
  BY <1>1 DEF Base, Goes
<1>3. ListsOK(p)'
  BY <1>1, <1>2 DEF ListsOK, Working
<1>4. AddedOK(p)'
  BY <1>1, <1>2 DEF AddedOK, Working, netns
<1> QED BY <1>1, <1>2, <1>3, <1>4, GoesBase

LEMMA AbortsBase ==
    ASSUME Base, NEW p \in Procs, Aborts(p)
    PROVE  Base'
<1>1. /\ state[p] = "adding" /\ state' = [state EXCEPT ![p] = "aborted"]
      /\ todo' = [todo EXCEPT ![p] = <<>>] /\ cleanups' = [cleanups EXCEPT ![p] = <<>>]
      /\ UNCHANGED <<netns, daemon, answer>>
  BY DEF Aborts, Goes
<1>2. <<>> \in Seq(Commands)
  OBVIOUS
<1>3. state'[p] = "aborted" /\ todo'[p] = <<>> /\ cleanups'[p] = <<>>
  BY <1>1 DEF Base
<1>4. ListsOK(p)' /\ AddedOK(p)'
  BY <1>3 DEF ListsOK, AddedOK, Working
<1>5. NetOK' /\ daemon' \in {"up", "gone"} /\ answer' \in [Procs -> {"none", "pending", "ok"}] /\ loc' = loc
  BY <1>1 DEF Base, NetOK, netns
<1> QED BY <1>1, <1>2, <1>4, <1>5, BaseStep

(* The cleanups run from the end of their list. *)
LEMMA RunsCleanupsFacts ==
    ASSUME Base, NEW p \in Procs, RunsCleanups(p), state[p] \in {"idle", "up"}
    PROVE  /\ state' = [state EXCEPT ![p] = "cleaning"]
           /\ todo' = [todo EXCEPT ![p] = Reverse(cleanups[p])]
           /\ cleanups' = [cleanups EXCEPT ![p] = <<>>]
           /\ UNCHANGED <<netns, daemon, answer>>
           /\ Reverse(cleanups[p]) \in Seq(Commands)
           /\ state'[p] = "cleaning" /\ todo'[p] = Reverse(cleanups[p]) /\ cleanups'[p] = <<>>
           /\ Len(cleanups[p]) \in Nat /\ Len(todo'[p]) = Len(cleanups[p])
           /\ \A j \in 1..Len(cleanups[p]) :
                 /\ todo'[p][j] = cleanups[p][Len(cleanups[p]) - j + 1]
                 /\ Len(cleanups[p]) - j + 1 \in 1..Len(cleanups[p])
<1>1. /\ state' = [state EXCEPT ![p] = "cleaning"]
      /\ todo' = [todo EXCEPT ![p] = Reverse(cleanups[p])]
      /\ cleanups' = [cleanups EXCEPT ![p] = <<>>]
      /\ UNCHANGED <<netns, daemon, answer>>
  BY DEF RunsCleanups, Goes
<1>2. PICK s \in Seq(Commands) : s = cleanups[p]
  BY DEF Base
<1>3. /\ Reverse(s) \in Seq(Commands) /\ Len(s) \in Nat /\ Len(Reverse(s)) = Len(s)
      /\ \A j \in 1..Len(s) : Reverse(s)[j] = s[Len(s) - j + 1] /\ Len(s) - j + 1 \in 1..Len(s)
  BY DEF Reverse
<1>4. state'[p] = "cleaning" /\ todo'[p] = Reverse(cleanups[p]) /\ cleanups'[p] = <<>>
  BY <1>1 DEF Base
<1> QED BY <1>1, <1>2, <1>3, <1>4

LEMMA RunsCleanupsBase ==
    ASSUME Base, NEW p \in Procs, RunsCleanups(p), state[p] \in {"idle", "up"}
    PROVE  Base'
<1> DEFINE s == cleanups[p]
           t == Reverse(cleanups[p])
<1>1. /\ state' = [state EXCEPT ![p] = "cleaning"]
      /\ todo' = [todo EXCEPT ![p] = t]
      /\ cleanups' = [cleanups EXCEPT ![p] = <<>>]
      /\ UNCHANGED <<netns, daemon, answer>>
      /\ t \in Seq(Commands)
      /\ state'[p] = "cleaning" /\ todo'[p] = t /\ cleanups'[p] = <<>>
      /\ Len(s) \in Nat /\ Len(t) = Len(s)
      /\ \A j \in 1..Len(s) : t[j] = s[Len(s) - j + 1] /\ Len(s) - j + 1 \in 1..Len(s)
  BY RunsCleanupsFacts
<1>2. ListsOK(p) /\ AddedOK(p)
  BY DEF Base
<1>3. \A j \in 1..Len(s) : s[j] \in IF j = 1 THEN {Umount} ELSE Undos(p[1])
  BY <1>2 DEF ListsOK
<1>4. ListsOK(p)'
  <2> HIDE DEF s, t
  <2>1. ASSUME NEW j \in 1..Len(t)
        PROVE  t[j] \in IF j = Len(t) THEN {Umount} ELSE Undos(p[1])
    <3>1. t[j] = s[Len(s) - j + 1] /\ Len(s) - j + 1 \in 1..Len(s)
      BY <1>1
    <3>2. Len(s) - j + 1 = 1 <=> j = Len(t)
      BY <1>1
    <3> QED BY <1>3, <3>1, <3>2
  <2> QED BY <1>1, <2>1 DEF ListsOK, Working
<1>5. AddedOK(p)'
  BY <1>1, <1>2 DEF AddedOK, Working, netns
<1>6. <<>> \in Seq(Commands)
  OBVIOUS
<1>7. NetOK' /\ daemon' \in {"up", "gone"} /\ answer' \in [Procs -> {"none", "pending", "ok"}] /\ loc' = loc
  BY <1>1 DEF Base, NetOK, netns
<1> HIDE DEF t, s
<1> QED BY <1>1, <1>4, <1>5, <1>6, <1>7, BaseStep

(* What the step of a process that executes a cleanup changes in its lists. *)
LEMMA CleansFacts ==
    ASSUME Base, NEW p \in Procs, Cleans(p)
    PROVE  LET c == Head(todo[p]) IN
           /\ state[p] = "cleaning" /\ UNCHANGED <<daemon, state, cleanups, answer>>
           /\ Possible(p, c) => Effect(p, c)
           /\ ~Possible(p, c) => UNCHANGED netns
           /\ c \in Undos(p[1]) \cup {Umount}
           /\ c = todo[p][1]
           /\ Len(todo[p]) \in Nat /\ Len(todo[p]) >= 1
           /\ Len(todo[p]) = 1 => c = Umount
           /\ Len(todo[p]) > 1 => c \in Undos(p[1])
           /\ Tail(todo[p]) \in Seq(Commands)
           /\ todo' = [todo EXCEPT ![p] = Tail(todo[p])]
           /\ todo'[p] = Tail(todo[p])
           /\ Len(Tail(todo[p])) = Len(todo[p]) - 1
           /\ \A j \in 1..(Len(todo[p]) - 1) : Tail(todo[p])[j] = todo[p][j + 1]
<1> DEFINE c == Head(todo[p])
<1>1. /\ state[p] = "cleaning" /\ UNCHANGED <<daemon, state, cleanups, answer>>
      /\ Possible(p, c) => Effect(p, c)
      /\ ~Possible(p, c) => UNCHANGED netns
      /\ todo[p] # <<>>
      /\ todo' = [todo EXCEPT ![p] = Tail(todo[p])]
  BY DEF Cleans
<1>2. todo \in [Procs -> Seq(Commands)] /\ ListsOK(p)
  BY DEF Base
<1>3. /\ Len(todo[p]) \in Nat /\ Len(todo[p]) >= 1 /\ c = todo[p][1]
      /\ Tail(todo[p]) \in Seq(Commands)
      /\ Len(Tail(todo[p])) = Len(todo[p]) - 1
      /\ \A j \in 1..(Len(todo[p]) - 1) : Tail(todo[p])[j] = todo[p][j + 1]
  BY <1>1, <1>2
<1>4. \A j \in 1..Len(todo[p]) : todo[p][j] \in IF j = Len(todo[p]) THEN {Umount} ELSE Undos(p[1])
  BY <1>1, <1>2 DEF ListsOK
<1>5. todo'[p] = Tail(todo[p])
  BY <1>1, <1>2
<1> HIDE DEF c
<1>6. /\ Len(todo[p]) = 1 => c = Umount
      /\ Len(todo[p]) > 1 => c \in Undos(p[1])
      /\ c \in Undos(p[1]) \cup {Umount}
  BY <1>3, <1>4
<1> QED BY <1>1, <1>3, <1>5, <1>6, Zenon DEF c

LEMMA CleansBase ==
    ASSUME Base, NEW p \in Procs, Cleans(p)
    PROVE  Base'
<1> DEFINE c == Head(todo[p])
           t == Tail(todo[p])
<1>1. p[1] \in Names
  BY DEF Procs
<1>2. /\ state[p] = "cleaning" /\ UNCHANGED <<daemon, state, cleanups, answer>>
      /\ Possible(p, c) => Effect(p, c)
      /\ ~Possible(p, c) => UNCHANGED netns
      /\ c \in Undos(p[1]) \cup {Umount}
      /\ Len(todo[p]) \in Nat /\ Len(todo[p]) >= 1
      /\ t \in Seq(Commands)
      /\ todo' = [todo EXCEPT ![p] = t] /\ todo'[p] = t
      /\ Len(t) = Len(todo[p]) - 1
      /\ \A j \in 1..(Len(todo[p]) - 1) : t[j] = todo[p][j + 1]
  BY CleansFacts
<1>3. ListsOK(p) /\ AddedOK(p) /\ NetOK
  BY DEF Base
<1>4. ListsOK(p)'
  <2>1. \A j \in 1..Len(todo[p]) :
           todo[p][j] \in IF j = Len(todo[p]) THEN {Umount} ELSE Undos(p[1])
    BY <1>2, <1>3 DEF ListsOK
  <2> HIDE DEF c, t
  <2>2. ASSUME NEW j \in 1..Len(t)
        PROVE  t[j] \in IF j = Len(t) THEN {Umount} ELSE Undos(p[1])
    BY <1>2, <2>1
  <2> QED BY <1>2, <1>3, <2>2 DEF ListsOK, Working
<1>5. c.do # "add"
  <2>1. c = Umount => c.do # "add"
    BY DEF Umount, Mounts
  <2>2. c \in Undos(p[1]) => c.do # "add"
    BY <1>1, UndoCases DEF MoveBack, SetTo
  <2> QED BY <1>2, <2>1, <2>2
<1>6. \A l \in Links : loc'[l] # None => loc[l] # None
  <2>1. CASE Possible(p, c)
    BY <1>2, <1>5, <2>1, NoNewLinks
  <2>2. CASE ~Possible(p, c)
    BY <1>2, <2>2 DEF netns
  <2> QED BY <2>1, <2>2
<1>7. \A q \in Procs, k \in {"nu", "nd", "nb"} : <<q, k>> \in Links
  BY DEF Links
<1>8. AddedOK(p)'
  BY <1>2, <1>3, <1>6, <1>7 DEF AddedOK, Working
<1>9. NetOK'
  <2>1. CASE Possible(p, c)
    BY <1>2, <1>3, <1>5, <2>1, EffectOK
  <2>2. CASE ~Possible(p, c)
    BY <1>2, <1>3, <2>2 DEF netns, NetOK
  <2> QED BY <2>1, <2>2
<1>10. /\ state' = [state EXCEPT ![p] = "cleaning"] /\ daemon' \in {"up", "gone"}
       /\ answer' \in [Procs -> {"none", "pending", "ok"}]
       /\ cleanups[p] \in Seq(Commands) /\ cleanups' = [cleanups EXCEPT ![p] = cleanups[p]]
  BY <1>2 DEF Base
<1> HIDE DEF c, t
<1> QED BY <1>2, <1>4, <1>6, <1>7, <1>8, <1>9, <1>10, BaseStep

LEMMA KernelReapsBase ==
    ASSUME Base, NEW s \in Procs, KernelReaps(s)
    PROVE  Base'
<1> DEFINE L == {l \in Links : loc[l] = s}
<1>1. Delete(L) /\ UNCHANGED mnt /\ UNCHANGED procs
  BY DEF KernelReaps, Reap
<1>2. NetOK'
  BY <1>1, DeleteOK DEF Base
<1>3. \A l \in Links : loc'[l] # None => loc[l] # None
  BY <1>1 DEF Delete
<1>4. ASSUME NEW q \in Procs
      PROVE  ListsOK(q)' /\ AddedOK(q)'
  <2>1. \A k \in {"nu", "nd", "nb"} : loc'[<<q, k>>] # None => loc[<<q, k>>] # None
    BY <1>3 DEF Links
  <2> QED BY <1>1, <2>1, ListsFrame, AddedFrame DEF Base, procs
<1> QED BY <1>1, <1>2, <1>4 DEF Base, procs

LEMMA DaemonDiesBase ==
    ASSUME Base, DaemonDies
    PROVE  Base'
<1>1. daemon' = "gone" /\ UNCHANGED <<netns, state, todo, cleanups, answer>>
  BY DEF DaemonDies
<1>2. NetOK'
  BY <1>1 DEF Base, NetOK, netns
<1>3. ASSUME NEW q \in Procs
      PROVE  ListsOK(q)' /\ AddedOK(q)'
  BY <1>1, ListsFrame, AddedFrame DEF Base, netns
<1> QED BY <1>1, <1>2, <1>3 DEF Base

LEMMA StutterBase ==
    ASSUME Base, UNCHANGED vars
    PROVE  Base'
<1>1. UNCHANGED <<netns, daemon, state, todo, cleanups, answer>>
  BY DEF vars, procs
<1>2. NetOK'
  BY <1>1 DEF Base, NetOK, netns
<1>3. ASSUME NEW q \in Procs
      PROVE  ListsOK(q)' /\ AddedOK(q)'
  BY <1>1, ListsFrame, AddedFrame DEF Base, netns
<1> QED BY <1>1, <1>2, <1>3 DEF Base

LEMMA NextBase ==
    ASSUME SwitchesEnd, Base, [Next]_vars
    PROVE  Base'
<1>1. ASSUME NEW p \in Procs, Shutdown(p)
      PROVE  Base'
  BY <1>1, RunsCleanupsBase DEF Shutdown
<1>2. ASSUME NEW p \in Procs, HangsUp(p)
      PROVE  Base'
  BY <1>2, RunsCleanupsBase DEF HangsUp
<1> QED BY <1>1, <1>2, SpawnBase, AddComponentBase, ExecutesBase, AbortsBase, AnswersBase,
           CleansBase, ExitsBase, KernelReapsBase, DaemonDiesBase, StutterBase
        DEF Next, EntitydStep

(***************************************************************************)
(* The values of the variables: a command never leaves an address or a     *)
(* route behind on a link that is gone or has moved on (main.cpp, the      *)
(* commands of add_network() and connect()), and only a process at work    *)
(* has commands or cleanups to execute.                                    *)
(***************************************************************************)
THEOREM EntitydTypeOK ==
    ASSUME SwitchesEnd
    PROVE  Spec => []TypeOK
<1>1. Base => TypeOK
  BY DEF Base, NetOK, TypeOK, ListsOK, Working
<1>2. Base /\ [Next]_vars => Base'
  BY NextBase
<1> QED BY <1>1, <1>2, BaseInit, PTL DEF Spec

-----------------------------------------------------------------------------
(* The namespaces, where every entity has one of its own. *)

LEMMA OwnNetns ==
    ASSUME AllOwn, NEW p \in Procs
    PROVE  /\ Netns(p) = p /\ p[1] \in Names /\ p # None /\ p[1] # None
           /\ nu(p) \in Links /\ nd(p) \in Links /\ nb(p) \in Links
BY EntitydAssumption DEF AllOwn, Netns, Procs, Links, nu, nd, nb

(* What is known of the process of an entity from its lists. *)
LEMMA ProcFacts ==
    ASSUME Base, NEW p \in Procs
    PROVE  /\ Holds(p) => Alive(p) /\ Visited(p)
           /\ \A c : Pending(p, c) => Holds(p)
           /\ Alive(p) => ~Finished(p) /\ state[p] # "none"
<1>1. ListsOK(p) /\ todo[p] \in Seq(Commands) /\ cleanups[p] \in Seq(Commands)
  BY DEF Base
<1>2. Holds(p) => Alive(p) /\ Visited(p)
  BY <1>1 DEF Holds, Alive, Visited, ListsOK, Working
<1>3. ASSUME NEW c, Pending(p, c)
      PROVE  Holds(p)
  BY <1>1, <1>3 DEF Pending, Holds
<1> QED BY <1>2, <1>3 DEF Alive, Finished

LEMMA OneAlive ==
    ASSUME Base, Serial, NEW p \in Procs, NEW q \in Procs, p[1] = q[1], Alive(p), Alive(q)
    PROVE  p = q
<1>1. ~Finished(p) /\ ~Finished(q) /\ state[p] # "none" /\ state[q] # "none"
  BY ProcFacts
<1>2. ~(p[2] < q[2]) /\ ~(q[2] < p[2])
  BY <1>1 DEF Serial
<1>3. p[2] \in Int /\ q[2] \in Int /\ p = <<p[1], p[2]>> /\ q = <<q[1], q[2]>>
  BY DEF Procs
<1>4. p[2] = q[2]
  BY <1>2, <1>3
<1> QED BY <1>3, <1>4

(* The process neither mounts nor unmounts, and does not register MoveBack. *)
Quiet(q) ==
    /\ Holds(q)' => Holds(q)
    /\ Holds(q) \/ state[q] = "aborted" => Holds(q)' \/ state'[q] = "aborted"
    /\ Visited(q) => Visited(q)'
    /\ Pending(q, MoveBack(q[1]))' => Pending(q, MoveBack(q[1]))

(* The process owes afterwards what it owed before. *)
OwesStill(q, c) == Owes(q, c) => Owes(q, c)'

OwesRoutesStill(q) == \A a, to : OwesStill(q, RouteDel(a, to))

(* Links go, or come to where they belong. *)
LinksQuiet == \A l \in Links : loc'[l] \in {None, loc[l], l[1]}

LEMMA QuietFrame ==
    ASSUME NEW q, state'[q] = state[q], todo'[q] = todo[q], cleanups'[q] = cleanups[q]
    PROVE  Quiet(q) /\ OwesStill(q, MoveBack(q[1])) /\ OwesRoutesStill(q)
BY DEF Quiet, OwesStill, OwesRoutesStill, Owes, Holds, Visited, Pending

LEMMA MountQuiet ==
    ASSUME MountOK, mnt' = mnt, \A q \in Procs : Quiet(q)
    PROVE  MountOK'
BY DEF MountOK, Quiet

LEMMA LinkQuiet ==
    ASSUME AllOwn, Base, NEW q \in Procs, LinkOK(q), mnt' = mnt, LinksQuiet,
           \A x \in Procs : Quiet(x),
           OwesStill(q, MoveBack(q[1]))
    PROVE  LinkOK(q)'
<1>1. /\ loc'[nu(q)] \in {None, loc[nu(q)], q}
      /\ loc'[nb(q)] \in {None, loc[nb(q)], q}
      /\ loc'[nd(q)] \in {None, loc[nd(q)], q}
  BY OwnNetns DEF LinksQuiet, nu, nd, nb
<1>2. loc'[nu(q)] \in {None, q} /\ loc'[nb(q)] \in {None, q}
  BY <1>1 DEF LinkOK
<1>3. ASSUME loc'[nd(q)] \notin {None, q}
      PROVE  /\ loc'[nd(q)] \in Procs
             /\ loc'[nd(q)][1] = Uplink[q[1]]
             /\ Visited(loc[nd(q)])'
             /\ loc'[nd(q)] = loc[nd(q)]
             /\ mnt'[Uplink[q[1]]] = loc'[nd(q)] => Owes(q, MoveBack(q[1]))'
  <2>1. loc'[nd(q)] = loc[nd(q)]
    BY <1>1, <1>3
  <2>2. PICK s : s = loc[nd(q)]
    OBVIOUS
  <2>3. /\ s \in Procs /\ s[1] = Uplink[q[1]] /\ Visited(s)
        /\ mnt[Uplink[q[1]]] = s => Owes(q, MoveBack(q[1]))
    BY <1>3, <2>1, <2>2 DEF LinkOK
  <2>4. Visited(s)'
    BY <2>3 DEF Quiet
  <2> QED BY <2>1, <2>2, <2>3, <2>4 DEF OwesStill, Visited
<1> QED BY <1>2, <1>3 DEF LinkOK, Visited, nd, nb, nu

(* A cleanup that is to come is one of the entity. *)
LEMMA PendingFacts ==
    ASSUME Base, NEW p \in Procs, NEW c, Pending(p, c)
    PROVE  /\ c \in Undos(p[1]) \cup {Umount}
           /\ c = MoveBack(p[1]) => Uplink[p[1]] \in Names
           /\ Alive(p) /\ state[p] # "none"
<1>1. ListsOK(p) /\ p[1] \in Names
  BY DEF Base, Procs
<1>2. c \in Undos(p[1]) \cup {Umount}
  BY <1>1 DEF Pending, ListsOK
<1>3. ASSUME c = MoveBack(p[1])
      PROVE  Uplink[p[1]] \in Names
  BY <1>1, <1>2, <1>3, UndoCases DEF MoveBack, SetTo, Umount, Mounts
<1> QED BY <1>2, <1>3, ProcFacts

LEMMA OneLinkQuiet ==
    ASSUME AllOwn, Base, NoSelf, MountOK, OneLink, mnt' = mnt, LinksQuiet,
           \A x \in Procs : Quiet(x)
    PROVE  OneLink'
<1> SUFFICES ASSUME NEW p \in Procs, NEW q \in Procs, p # q, p[1] = q[1],
                    Pending(p, MoveBack(p[1]))', loc'[nd(q)] # None,
                    loc'[nd(q)] = mnt'[Uplink[p[1]]]
             PROVE  FALSE
  BY DEF OneLink, nd
<1>1. Pending(p, MoveBack(p[1]))
  BY DEF Quiet
<1>2. state[p] # "none" /\ Uplink[p[1]] \in Names
  BY <1>1, PendingFacts
<1>3. loc'[nd(q)] \in {loc[nd(q)], q}
  BY OwnNetns DEF LinksQuiet, nd
<1>4. CASE loc'[nd(q)] = loc[nd(q)]
  BY <1>1, <1>4 DEF OneLink
<1>5. CASE loc'[nd(q)] = q
  <2>1. mnt[Uplink[p[1]]] = q /\ q # None
    BY <1>5, OwnNetns
  <2>2. q[1] = Uplink[p[1]]
    BY <1>2, <2>1 DEF MountOK
  <2> QED BY <1>2, <2>2 DEF NoSelf
<1> QED BY <1>3, <1>4, <1>5

LEMMA RouteQuiet ==
    ASSUME NEW r, RouteOK(r), mnt' = mnt, \A x \in Procs : Quiet(x) /\ OwesRoutesStill(x)
    PROVE  RouteOK(r)'
<1> SUFFICES ASSUME r.to # "default"
             PROVE  RouteOK(r)'
  BY DEF RouteOK
<1>1. /\ r.to # None /\ r.in \in Procs /\ Visited(r.in)
  BY DEF RouteOK
<1>2. PICK p \in Procs :
         /\ Address[p[1]] = r.to
         /\ r.in = p \/ (mnt[r.in[1]] = r.in => Owes(p, RouteDel(r.in[1], r.to)))
  BY DEF RouteOK
<1>3. Visited(r.in)'
  BY <1>1 DEF Quiet
<1>4. r.in = p \/ (mnt'[r.in[1]] = r.in => Owes(p, RouteDel(r.in[1], r.to))')
  BY <1>2 DEF OwesRoutesStill, OwesStill
<1> QED BY <1>1, <1>2, <1>3, <1>4 DEF RouteOK

(* A step that changes no process and at most makes links go. *)
LEMMA SerialFrame ==
    ASSUME Serial, NoSelf, state' = state
    PROVE  Serial' /\ NoSelf'
BY DEF Serial, NoSelf, Finished

LEMMA TidyQuiet ==
    ASSUME AllOwn, Base, Tidy, mnt' = mnt, LinksQuiet, routes' \subseteq routes,
           Serial', NoSelf',
           \A x \in Procs : Quiet(x) /\ OwesStill(x, MoveBack(x[1])) /\ OwesRoutesStill(x)
    PROVE  Tidy'
<1>1. MountOK'
  BY MountQuiet DEF Tidy
<1>2. \A q \in Procs : LinkOK(q)'
  BY LinkQuiet DEF Tidy
<1>3. OneLink'
  BY OneLinkQuiet DEF Tidy
<1>4. \A r \in routes' : RouteOK(r)'
  BY RouteQuiet DEF Tidy
<1> QED BY <1>1, <1>2, <1>3, <1>4 DEF Tidy

-----------------------------------------------------------------------------
(* Tidy is inductive: the steps that execute no command. *)

LEMMA TidyInit ==
    ASSUME Init
    PROVE  Tidy
<1>1. \A p \in Procs : /\ state[p] = "none" /\ cleanups[p] = <<>> /\ todo[p] = <<>>
                       /\ loc[nu(p)] = None /\ loc[nd(p)] = None /\ loc[nb(p)] = None
  BY DEF Init, NetnsInit, Links, nu, nd, nb
<1>2. routes = {} /\ \A n \in Names : mnt[n] = None
  BY DEF Init, NetnsInit
<1>3. Serial /\ NoSelf
  BY <1>1 DEF Serial, NoSelf
<1>4. MountOK
  BY <1>1, <1>2 DEF MountOK, Holds
<1>5. \A p \in Procs : LinkOK(p)
  BY <1>1 DEF LinkOK
<1>6. OneLink
  BY <1>1 DEF OneLink
<1> QED BY <1>2, <1>3, <1>4, <1>5, <1>6 DEF Tidy

LEMMA SpawnTidy ==
    ASSUME AllOwn, Base, Tidy, NEW p \in Procs, Spawn(p)
    PROVE  Tidy'
<1>1. /\ state[p] = "none" /\ state' = [state EXCEPT ![p] = "idle"]
      /\ UNCHANGED <<netns, todo, cleanups>>
      /\ \A k \in 1..(p[2] - 1) : Finished(<<p[1], k>>)
      /\ Uplink[p[1]] # None => \E q \in Procs : q[1] = Uplink[p[1]] /\ state[q] # "none"
  BY DEF Spawn, Goes
<1>2. state'[p] = "idle" /\ \A q \in Procs : q # p => state'[q] = state[q]
  BY <1>1 DEF Base
<1>3. Serial'
  <2> SUFFICES ASSUME NEW x \in Procs, NEW q \in Procs, x[1] = q[1], x[2] < q[2], state'[q] # "none"
               PROVE  Finished(x)'
    BY DEF Serial
  <2>1. CASE q = p
    <3>1. x = <<p[1], x[2]>> /\ x[2] \in 1..(p[2] - 1)
      BY <2>1 DEF Procs
    <3>2. Finished(x)
      BY <1>1, <3>1
    <3> QED BY <1>1, <1>2, <3>2 DEF Finished
  <2>2. CASE q # p
    <3>1. Finished(x)
      BY <1>2, <2>2 DEF Tidy, Serial
    <3> QED BY <1>1, <1>2, <3>1 DEF Finished
  <2> QED BY <2>1, <2>2
<1>4. NoSelf'
  <2>1. Uplink[p[1]] # p[1]
    <3>1. SUFFICES ASSUME Uplink[p[1]] = p[1]
                   PROVE  FALSE
      OBVIOUS
    <3>2. PICK q \in Procs : q[1] = p[1] /\ state[q] # "none"
      BY <1>1, <3>1, OwnNetns
    <3> QED BY <3>1, <3>2 DEF Tidy, NoSelf
  <2> QED BY <1>2, <2>1 DEF Tidy, NoSelf
<1>5. ASSUME NEW x \in Procs
      PROVE  Quiet(x) /\ OwesStill(x, MoveBack(x[1])) /\ OwesRoutesStill(x)
  <2>1. CASE x # p
    BY <1>1, <1>2, <2>1, QuietFrame
  <2>2. CASE x = p
    BY <1>1, <1>2, <2>2 DEF Quiet, OwesStill, OwesRoutesStill, Owes, Holds, Visited, Pending
  <2> QED BY <2>1, <2>2
<1>6. mnt' = mnt /\ LinksQuiet /\ routes' = routes
  BY <1>1 DEF netns, LinksQuiet
<1> QED BY <1>3, <1>4, <1>5, <1>6, TidyQuiet

(* Serial and NoSelf, when a process that is alive goes on. *)
LEMMA SerialGoes ==
    ASSUME Base, Serial, NoSelf, NEW p \in Procs, state[p] # "none", NEW s, s # "none",
           ~Finished(p), state' = [state EXCEPT ![p] = s]
    PROVE  Serial' /\ NoSelf'
<1>1. state'[p] = s /\ \A q \in Procs : q # p => state'[q] = state[q]
  BY DEF Base
<1>2. Serial'
  <2> SUFFICES ASSUME NEW x \in Procs, NEW q \in Procs, x[1] = q[1], x[2] < q[2], state'[q] # "none"
               PROVE  Finished(x)'
    BY DEF Serial
  <2>1. state[q] # "none"
    BY <1>1
  <2>2. Finished(x)
    BY <2>1 DEF Serial
  <2> QED BY <1>1, <2>2 DEF Finished
<1>3. NoSelf'
  BY <1>1 DEF NoSelf
<1> QED BY <1>2, <1>3

LEMMA QuietStepTidy ==
    ASSUME AllOwn, Base, Tidy, UNCHANGED netns,
           NEW p \in Procs, NEW s \in {"adding", "up", "cleaning", "exited", "aborted"},
           Alive(p), state' = [state EXCEPT ![p] = s],
           \A q \in Procs : q # p => todo'[q] = todo[q] /\ cleanups'[q] = cleanups[q],
           Quiet(p) /\ OwesStill(p, MoveBack(p[1])) /\ OwesRoutesStill(p)
    PROVE  Tidy'
<1>1. Serial' /\ NoSelf'
  BY SerialGoes, ProcFacts DEF Tidy
<1>2. \A q \in Procs : q # p => state'[q] = state[q]
  BY DEF Base
<1>3. ASSUME NEW x \in Procs
      PROVE  Quiet(x) /\ OwesStill(x, MoveBack(x[1])) /\ OwesRoutesStill(x)
  <2>1. CASE x # p
    BY <1>2, <2>1, QuietFrame
  <2> QED BY <2>1
<1>4. mnt' = mnt /\ LinksQuiet /\ routes' = routes
  BY DEF netns, LinksQuiet
<1> QED BY <1>1, <1>3, <1>4, TidyQuiet

LEMMA AddComponentTidy ==
    ASSUME AllOwn, Base, Tidy, NEW p \in Procs, AddComponent(p)
    PROVE  Tidy'
<1>1. /\ state[p] = "idle" /\ state' = [state EXCEPT ![p] = "adding"]
      /\ todo' = [todo EXCEPT ![p] = add_network(p[1])]
      /\ UNCHANGED <<netns, cleanups>>
  BY DEF AddComponent, Goes
<1>2. state'[p] = "adding" /\ cleanups[p] = <<>> /\ \A q \in Procs : q # p => todo'[q] = todo[q]
  BY <1>1 DEF Base, ListsOK, Working
<1>3. Quiet(p) /\ OwesStill(p, MoveBack(p[1])) /\ OwesRoutesStill(p)
  BY <1>1, <1>2 DEF Quiet, OwesStill, OwesRoutesStill, Owes, Holds, Visited, Pending
<1> QED BY <1>1, <1>2, <1>3, QuietStepTidy DEF Alive

LEMMA AnswersTidy ==
    ASSUME SwitchesEnd, AllOwn, Base, Tidy, NEW p \in Procs, Answers(p)
    PROVE  Tidy'
<1>1. /\ state[p] = "adding" /\ todo[p] = <<>> /\ state' = [state EXCEPT ![p] = "up"]
      /\ UNCHANGED <<netns, todo, cleanups>>
  BY DEF Answers, Goes
<1>2. state'[p] = "up"
  BY <1>1 DEF Base
<1>3. cleanups[p] # <<>>
  <2>1. Len(add_network(p[1])) >= 2 /\ Len(add_network(p[1])) \in Nat
    BY NetworkFacts DEF Procs
  <2>2. Done(p) >= 2
    BY <1>1, <2>1 DEF Done
  <2> QED BY <1>1, <2>2 DEF Base, ListsOK, Working
<1>4. Quiet(p) /\ OwesStill(p, MoveBack(p[1])) /\ OwesRoutesStill(p)
  BY <1>1, <1>2, <1>3 DEF Quiet, OwesStill, OwesRoutesStill, Owes, Holds, Visited, Pending
<1> QED BY <1>1, <1>4, QuietStepTidy DEF Alive

LEMMA AbortsTidy ==
    ASSUME AllOwn, Base, Tidy, NEW p \in Procs, Aborts(p)
    PROVE  Tidy'
<1>1. /\ state[p] = "adding" /\ state' = [state EXCEPT ![p] = "aborted"]
      /\ todo' = [todo EXCEPT ![p] = <<>>] /\ cleanups' = [cleanups EXCEPT ![p] = <<>>]
      /\ UNCHANGED netns
  BY DEF Aborts, Goes
<1>2. state'[p] = "aborted" /\ cleanups'[p] = <<>>
      /\ \A q \in Procs : q # p => todo'[q] = todo[q] /\ cleanups'[q] = cleanups[q]
  BY <1>1 DEF Base
<1>3. Quiet(p) /\ OwesStill(p, MoveBack(p[1])) /\ OwesRoutesStill(p)
  BY <1>1, <1>2 DEF Quiet, OwesStill, OwesRoutesStill, Owes, Holds, Visited, Pending
<1> QED BY <1>1, <1>2, <1>3, QuietStepTidy DEF Alive

LEMMA RunsCleanupsTidy ==
    ASSUME AllOwn, Base, Tidy, NEW p \in Procs, RunsCleanups(p), state[p] \in {"idle", "up"}
    PROVE  Tidy'
<1> DEFINE s == cleanups[p]
<1>1. /\ state' = [state EXCEPT ![p] = "cleaning"]
      /\ todo' = [todo EXCEPT ![p] = Reverse(s)] /\ cleanups' = [cleanups EXCEPT ![p] = <<>>]
      /\ UNCHANGED netns
      /\ state'[p] = "cleaning" /\ cleanups'[p] = <<>>
      /\ Len(s) \in Nat /\ Len(todo'[p]) = Len(s)
      /\ \A j \in 1..Len(s) : todo'[p][j] = s[Len(s) - j + 1] /\ Len(s) - j + 1 \in 1..Len(s)
      /\ todo'[p] = Reverse(s) /\ Reverse(s) \in Seq(Commands)
  BY RunsCleanupsFacts
<1>2. /\ s \in Seq(Commands)
      /\ \A q \in Procs : q # p => todo'[q] = todo[q] /\ cleanups'[q] = cleanups[q]
  BY <1>1 DEF Base
<1>3. s = <<>> <=> todo'[p] = <<>>
  <2> HIDE DEF s
  <2> QED BY <1>1, <1>2
<1>4. \A c : Pending(p, c)' <=> Pending(p, c)
  <2> SUFFICES ASSUME NEW c
               PROVE  Pending(p, c)' <=> Pending(p, c)
    OBVIOUS
  <2>1. Pending(p, c) <=> \E j \in 1..Len(s) : s[j] = c
    BY DEF Pending
  <2>2. Pending(p, c)' <=> \E j \in 1..Len(s) : todo'[p][j] = c
    BY <1>1 DEF Pending
  <2> HIDE DEF s
  <2>3. (\E j \in 1..Len(s) : todo'[p][j] = c) => \E j \in 1..Len(s) : s[j] = c
    BY <1>1
  <2>4. ASSUME NEW j \in 1..Len(s), s[j] = c
        PROVE  \E i \in 1..Len(s) : todo'[p][i] = c
    <3>1. Len(s) - j + 1 \in 1..Len(s) /\ Len(s) - (Len(s) - j + 1) + 1 = j
      BY <1>1, <2>4
    <3>2. todo'[p][Len(s) - j + 1] = s[Len(s) - (Len(s) - j + 1) + 1]
      BY <1>1, <3>1
    <3> QED BY <2>4, <3>1, <3>2
  <2> QED BY <2>1, <2>2, <2>3, <2>4
<1>5. Quiet(p)
  BY <1>1, <1>3, <1>4 DEF Quiet, Holds, Visited
<1>6. OwesStill(p, MoveBack(p[1])) /\ OwesRoutesStill(p)
  BY <1>4 DEF OwesStill, OwesRoutesStill, Owes
<1> QED BY <1>1, <1>2, <1>5, <1>6, QuietStepTidy DEF Alive

LEMMA ExitsTidy ==
    ASSUME AllOwn, Base, Tidy, NEW p \in Procs, Exits(p)
    PROVE  Tidy'
<1>1. /\ state[p] = "cleaning" /\ todo[p] = <<>> /\ state' = [state EXCEPT ![p] = "exited"]
      /\ UNCHANGED <<netns, todo, cleanups>>
  BY DEF Exits, Goes
<1>2. state'[p] = "exited" /\ cleanups[p] = <<>>
  BY <1>1 DEF Base, ListsOK, Working
<1>3. Quiet(p) /\ OwesStill(p, MoveBack(p[1])) /\ OwesRoutesStill(p)
  BY <1>1, <1>2 DEF Quiet, OwesStill, OwesRoutesStill, Owes, Holds, Visited, Pending
<1> QED BY <1>1, <1>3, QuietStepTidy DEF Alive

LEMMA KernelReapsTidy ==
    ASSUME AllOwn, Base, Tidy, NEW s \in Procs, KernelReaps(s)
    PROVE  Tidy'
<1> DEFINE L == {l \in Links : loc[l] = s}
<1>1. Delete(L) /\ mnt' = mnt /\ UNCHANGED procs
  BY DEF KernelReaps, Reap
<1>2. LinksQuiet /\ routes' \subseteq routes
  BY <1>1 DEF Delete, LinksQuiet
<1>3. Serial' /\ NoSelf'
  BY <1>1, SerialFrame DEF Tidy, procs
<1>4. \A x \in Procs : Quiet(x) /\ OwesStill(x, MoveBack(x[1])) /\ OwesRoutesStill(x)
  BY <1>1, QuietFrame DEF procs
<1> QED BY <1>1, <1>2, <1>3, <1>4, TidyQuiet

LEMMA NoProcTidy ==
    ASSUME AllOwn, Base, Tidy, UNCHANGED <<netns, state, todo, cleanups>>
    PROVE  Tidy'
<1>1. mnt' = mnt /\ LinksQuiet /\ routes' = routes
  BY DEF netns, LinksQuiet
<1>2. Serial' /\ NoSelf'
  BY SerialFrame DEF Tidy
<1>3. \A x \in Procs : Quiet(x) /\ OwesStill(x, MoveBack(x[1])) /\ OwesRoutesStill(x)
  BY QuietFrame
<1> QED BY <1>1, <1>2, <1>3, TidyQuiet

-----------------------------------------------------------------------------
(* Tidy is inductive: the commands of a process that sets up. *)

LEMMA ExecutesProc ==
    ASSUME SwitchesEnd, Base, NEW p \in Procs, Executes(p)
    PROVE  LET c == Head(todo[p]) IN
           /\ state' = state
           /\ \A q \in Procs : q # p => todo'[q] = todo[q] /\ cleanups'[q] = cleanups[q]
           /\ Done(p) >= 2 => cleanups[p] # <<>>
           /\ Done(p) < 2 => cleanups[p] = <<>>
           /\ cleanups'[p] # <<>> <=> Done(p) >= 1
           /\ \A d : Pending(p, d) => Pending(p, d)'
           /\ \A d : Pending(p, d)' => Pending(p, d) \/ \E j \in 1..Len(Undo(p, c)) : Undo(p, c)[j] = d
           /\ \A d : Undo(p, c) = <<d>> => Pending(p, d)'
<1> DEFINE c == Head(todo[p])
           s == cleanups[p]
           u == Undo(p, c)
<1>1. /\ state[p] = "adding" /\ state' = state
      /\ todo' = [todo EXCEPT ![p] = Tail(todo[p])]
      /\ cleanups' = [cleanups EXCEPT ![p] = s \o u]
      /\ u \in Seq(Commands) /\ Done(p) \in Nat /\ Done(p)' = Done(p) + 1
  BY ExecutesFacts
<1>2. Base'
  BY ExecutesBase
<1>3. /\ cleanups'[p] = s \o u /\ s \in Seq(Commands)
      /\ \A q \in Procs : q # p => todo'[q] = todo[q] /\ cleanups'[q] = cleanups[q]
  BY <1>1 DEF Base
<1>4. s # <<>> <=> Done(p) >= 2
  BY <1>1 DEF Base, ListsOK, Working
<1>5. cleanups'[p] # <<>> <=> Done(p)' >= 2
  <2>1. ListsOK(p)'
    BY <1>2 DEF Base
  <2> QED BY <1>1, <2>1 DEF ListsOK, Working
<1>6. \A d : Pending(p, d) <=> \E j \in 1..Len(s) : s[j] = d
  BY <1>1 DEF Pending
<1>7. \A d : Pending(p, d)' <=> \E j \in 1..Len(s \o u) : (s \o u)[j] = d
  BY <1>1, <1>3 DEF Pending
<1> HIDE DEF s, u, c
<1>8. /\ Len(s \o u) = Len(s) + Len(u) /\ Len(s) \in Nat /\ Len(u) \in Nat
      /\ \A j \in 1..Len(s) : (s \o u)[j] = s[j]
      /\ \A j \in 1..Len(u) : (s \o u)[Len(s) + j] = u[j]
      /\ \A j \in 1..Len(s \o u) : j \in 1..Len(s) \/ j - Len(s) \in 1..Len(u)
  BY <1>1, <1>3
<1>9. \A d : Pending(p, d) => Pending(p, d)'
  BY <1>6, <1>7, <1>8
<1>10. ASSUME NEW d, Pending(p, d)'
       PROVE  Pending(p, d) \/ \E j \in 1..Len(u) : u[j] = d
  <2>1. PICK j \in 1..Len(s \o u) : (s \o u)[j] = d
    BY <1>7, <1>10
  <2>2. CASE j \in 1..Len(s)
    BY <1>6, <1>8, <2>1, <2>2
  <2>3. CASE j - Len(s) \in 1..Len(u)
    <3>1. Len(s) + (j - Len(s)) = j
      BY <1>8
    <3>2. u[j - Len(s)] = d
      BY <1>8, <2>1, <2>3, <3>1
    <3> QED BY <2>3, <3>2
  <2> QED BY <1>8, <2>2, <2>3
<1>11. ASSUME NEW d, u = <<d>>
       PROVE  Pending(p, d)'
  <2>1. Len(u) = 1 /\ u[1] = d
    BY <1>11
  <2>2. Len(s) + 1 \in 1..Len(s \o u) /\ (s \o u)[Len(s) + 1] = d
    BY <1>8, <2>1
  <2> QED BY <1>7, <2>2
<1>12. /\ Done(p) >= 2 => s # <<>>
       /\ Done(p) < 2 => s = <<>>
       /\ cleanups'[p] # <<>> <=> Done(p) >= 1
  BY <1>1, <1>4, <1>5
<1> QED BY <1>1, <1>3, <1>9, <1>10, <1>11, <1>12 DEF s, u, c

(* A step of p that executes a command other than the first two. *)
LEMMA ExecutesQuiet ==
    ASSUME SwitchesEnd, Base, NEW p \in Procs, Executes(p), NEW q \in Procs, Done(p) >= 2
    PROVE  /\ OwesStill(q, MoveBack(q[1])) /\ OwesRoutesStill(q)
           /\ Visited(q) => Visited(q)'
           /\ q # p \/ Head(todo[p]) # MoveUp(p[1]) => Quiet(q)
           /\ Holds(p) /\ Visited(p) /\ Alive(p)
<1> DEFINE c == Head(todo[p])
<1>1. /\ state' = state /\ state[p] = "adding" /\ c \in Setups(p[1])
      /\ \A x \in Procs : x # p => todo'[x] = todo[x] /\ cleanups'[x] = cleanups[x]
      /\ cleanups[p] # <<>> /\ cleanups'[p] # <<>>
      /\ \A d : Pending(p, d) => Pending(p, d)'
      /\ \A d : Pending(p, d)' => Pending(p, d) \/ \E j \in 1..Len(Undo(p, c)) : Undo(p, c)[j] = d
  <2>1. Done(p) \in Nat
    BY ExecutesFacts
  <2>2. Done(p) >= 1
    BY <2>1
  <2> QED BY <2>2, ExecutesProc, ExecutesFacts, Zenon
<1>2. CASE q # p
  BY <1>1, <1>2, QuietFrame DEF Quiet, Holds, Visited, Alive
<1>3. CASE q = p
  <2>1. OwesStill(p, MoveBack(p[1])) /\ OwesRoutesStill(p)
    BY <1>1 DEF OwesStill, OwesRoutesStill, Owes
  <2>2. Visited(p) /\ Visited(p)' /\ Holds(p) /\ Holds(p)' /\ Alive(p)
    BY <1>1 DEF Visited, Holds, Alive
  <2>3. ASSUME c # MoveUp(p[1]), Pending(p, MoveBack(p[1]))'
        PROVE  Pending(p, MoveBack(p[1]))
    <3>1. SUFFICES ASSUME NEW j \in 1..Len(Undo(p, c)), Undo(p, c)[j] = MoveBack(p[1])
                   PROVE  FALSE
      BY <1>1, <2>3
    <3>2. c.do # "move"
      BY <1>1, <2>3, SetupCases DEF MakesPair, MakesBridge, LinkAdd, Procs
    <3>3. Undo(p, c) = <<>> \/ \E u : Undo(p, c) = <<u>> /\ u.do # "move"
      <4>1. \/ c.do = "mount" /\ Undo(p, c) = <<Umount>>
            \/ c.do = "add" /\ Undo(p, c) = <<Cmd("del", None, IF "nb" \in c.kinds THEN "nb" ELSE "nu")>>
            \/ c.do = "addrAdd" /\ Undo(p, c) = <<[c EXCEPT !.do = "addrDel"]>>
            \/ c.do = "routeAdd" /\ Undo(p, c) = <<RouteDel(c.at, c.to)>>
            \/ c.do = "up" /\ Undo(p, c) = <<Cmd("down", c.at, c.kind)>>
            \/ Undo(p, c) = <<>>
        BY <3>2 DEF Undo, Umount
      <4>2. c.do = "addrAdd" => [c EXCEPT !.do = "addrDel"].do # "move"
        <5>1. c.do = "addrAdd" => \E a, k, net, i : c = Addr("addrAdd", a, k, net, i)
          <6>1. c \in Makes(p[1]) => c.do # "addrAdd"
            BY DEF Makes, PairUp, BridgeUp, Cmd, SetTo, Throw, MakesPair, MakesBridge, LinkAdd
          <6>2. c \in Joins(p[1]) =>
                   c.do # "addrAdd" \/ c \in {AddrAbove(p[1]), AddrBridge(p[1]), AddrClient(p[1])}
            BY DEF Joins, LinkUp, Cmd, SetTo, RouteAdd, MoveUp
          <6>3. ASSUME c \in {AddrAbove(p[1]), AddrBridge(p[1]), AddrClient(p[1])}
                PROVE  \E a, k, net, i : c = Addr("addrAdd", a, k, net, i)
            BY <6>3 DEF AddrAbove, AddrBridge, AddrClient
          <6> QED BY <1>1, <6>1, <6>2, <6>3 DEF Setups
        <5> QED BY <5>1 DEF Addr
      <4> QED BY <4>1, <4>2 DEF Umount, Mounts, Cmd, RouteDel
    <3> QED BY <3>1, <3>3 DEF MoveBack, SetTo
  <2>4. c # MoveUp(p[1]) => Quiet(p)
    BY <2>2, <2>3 DEF Quiet
  <2> QED BY <1>1, <1>3, <2>1, <2>2, <2>4
<1> QED BY <1>2, <1>3

(* The namespace of an entity is unmounted by its only process. *)
LEMMA UnmountTidy ==
    ASSUME AllOwn, Base, Tidy, NEW p \in Procs, Alive(p),
           mnt' = [mnt EXCEPT ![p[1]] = None], UNCHANGED <<loc, routes>>,
           state' = state, ~Holds(p)',
           \A q \in Procs : q # p => Quiet(q),
           \A q \in Procs : /\ Visited(q) => Visited(q)'
                            /\ OwesStill(q, MoveBack(q[1])) /\ OwesRoutesStill(q)
                            /\ Pending(q, MoveBack(q[1]))' => Pending(q, MoveBack(q[1]))
    PROVE  Tidy'
<1>1. Serial' /\ NoSelf'
  BY SerialFrame DEF Tidy
<1>2. \A n \in Names : mnt'[n] = IF n = p[1] THEN None ELSE mnt[n]
  BY DEF Base, NetOK
<1>3. MountOK'
  <2>1. ASSUME NEW q \in Procs, Holds(q)'
        PROVE  mnt'[q[1]] = q
    <3>1. q # p /\ Holds(q)
      BY <2>1 DEF Quiet
    <3>2. q[1] # p[1]
      BY <3>1, ProcFacts, OneAlive DEF Tidy
    <3> QED BY <1>2, <3>1, <3>2, OwnNetns DEF Tidy, MountOK
  <2>2. ASSUME NEW n \in Names, mnt'[n] # None
        PROVE  mnt'[n] \in Procs /\ mnt'[n][1] = n /\ (Holds(mnt[n])' \/ state'[mnt[n]] = "aborted")
               /\ mnt'[n] = mnt[n]
    <3>1. n # p[1] /\ mnt'[n] = mnt[n]
      BY <1>2, <2>2
    <3>2. PICK q : q = mnt[n]
      OBVIOUS
    <3>3. q \in Procs /\ q[1] = n /\ (Holds(q) \/ state[q] = "aborted")
      BY <2>2, <3>1, <3>2 DEF Tidy, MountOK
    <3>4. Holds(q)' \/ state'[q] = "aborted"
      BY <3>1, <3>3 DEF Quiet
    <3> QED BY <3>1, <3>2, <3>3, <3>4 DEF Holds
  <2> QED BY <2>1, <2>2 DEF MountOK, Holds
<1>4. ASSUME NEW q \in Procs
      PROVE  LinkOK(q)'
  <2>1. LinkOK(q)
    BY DEF Tidy
  <2>2. SUFFICES ASSUME loc[nd(q)] \notin {None, q}
                 PROVE  /\ loc[nd(q)] \in Procs
                        /\ loc[nd(q)][1] = Uplink[q[1]]
                        /\ Visited(loc[nd(q)])'
                        /\ mnt'[Uplink[q[1]]] = loc[nd(q)] => Owes(q, MoveBack(q[1]))'
    BY <2>1 DEF LinkOK, nu, nd, nb, Visited
  <2>3. PICK s : s = loc[nd(q)]
    OBVIOUS
  <2>4. /\ s \in Procs /\ s[1] = Uplink[q[1]] /\ Visited(s)
        /\ mnt[Uplink[q[1]]] = s => Owes(q, MoveBack(q[1]))
    BY <2>1, <2>2, <2>3 DEF LinkOK
  <2>5. Visited(s)'
    BY <2>4
  <2>6. mnt'[Uplink[q[1]]] = s => mnt[Uplink[q[1]]] = s
    BY <1>2, <2>4, OwnNetns
  <2> QED BY <2>3, <2>4, <2>5, <2>6 DEF OwesStill, Visited
<1>5. OneLink'
  <2> SUFFICES ASSUME NEW x \in Procs, NEW q \in Procs, x # q, x[1] = q[1],
                      Pending(x, MoveBack(x[1]))', loc[nd(q)] # None,
                      loc[nd(q)] = mnt'[Uplink[x[1]]]
               PROVE  FALSE
    BY DEF OneLink, nd
  <2>1. Pending(x, MoveBack(x[1])) /\ Uplink[x[1]] \in Names
    BY PendingFacts
  <2>2. mnt[Uplink[x[1]]] = loc[nd(q)]
    BY <1>2, <2>1
  <2> QED BY <2>1, <2>2 DEF Tidy, OneLink
<1>6. ASSUME NEW r \in routes
      PROVE  RouteOK(r)'
  <2>1. SUFFICES ASSUME r.to # "default"
                 PROVE  RouteOK(r)'
    BY DEF RouteOK
  <2>2. /\ r.to # None /\ r.in \in Procs /\ Visited(r.in)
    BY <2>1 DEF Tidy, RouteOK
  <2>3. PICK x \in Procs :
           /\ Address[x[1]] = r.to
           /\ r.in = x \/ (mnt[r.in[1]] = r.in => Owes(x, RouteDel(r.in[1], r.to)))
    BY <2>1 DEF Tidy, RouteOK
  <2>4. mnt'[r.in[1]] = r.in => mnt[r.in[1]] = r.in
    BY <1>2, <2>2, OwnNetns
  <2>5. r.in = x \/ (mnt'[r.in[1]] = r.in => Owes(x, RouteDel(r.in[1], r.to))')
    BY <2>3, <2>4 DEF OwesRoutesStill, OwesStill
  <2>6. Visited(r.in)'
    BY <2>2
  <2> QED BY <2>2, <2>3, <2>5, <2>6 DEF RouteOK
<1> QED BY <1>1, <1>3, <1>4, <1>5, <1>6 DEF Tidy

LEMMA ExecutesUmountTidy ==
    ASSUME SwitchesEnd, AllOwn, Base, Tidy, NEW p \in Procs, Executes(p), Done(p) = 0
    PROVE  Tidy'
<1> DEFINE c == Head(todo[p])
<1>1. c = Umount /\ Possible(p, c) /\ Effect(p, c) /\ state[p] = "adding"
  BY ExecutesFacts
<1>2. mnt' = [mnt EXCEPT ![p[1]] = None] /\ UNCHANGED <<loc, routes>>
  BY <1>1, EffectFacts DEF Umount, Mounts
<1>3. /\ state' = state /\ cleanups[p] = <<>> /\ cleanups'[p] = <<>>
      /\ \A q \in Procs : q # p => todo'[q] = todo[q] /\ cleanups'[q] = cleanups[q]
  BY ExecutesProc
<1>4. ~Holds(p)' /\ ~Visited(p) /\ ~Pending(p, MoveBack(p[1]))'
      /\ OwesStill(p, MoveBack(p[1])) /\ OwesRoutesStill(p)
  BY <1>1, <1>3 DEF Holds, Visited, Pending, OwesStill, OwesRoutesStill, Owes
<1>5. \A q \in Procs : q # p => Quiet(q) /\ OwesStill(q, MoveBack(q[1])) /\ OwesRoutesStill(q)
  BY <1>3, QuietFrame
<1> QED BY <1>1, <1>2, <1>3, <1>4, <1>5, UnmountTidy DEF Alive, Quiet

LEMMA ExecutesMountTidy ==
    ASSUME SwitchesEnd, AllOwn, Base, Tidy, NEW p \in Procs, Executes(p), Done(p) = 1
    PROVE  Tidy'
<1> DEFINE c == Head(todo[p])
<1>1. c = Mount /\ Possible(p, c) /\ Effect(p, c) /\ state[p] = "adding"
  BY ExecutesFacts
<1>2. mnt' = [mnt EXCEPT ![p[1]] = p] /\ UNCHANGED <<loc, routes>>
  BY <1>1, EffectFacts, OwnNetns DEF Mount, Mounts
<1>3. /\ state' = state /\ cleanups[p] = <<>> /\ cleanups'[p] # <<>>
      /\ \A q \in Procs : q # p => todo'[q] = todo[q] /\ cleanups'[q] = cleanups[q]
      /\ \A d : Pending(p, d)' => Pending(p, d) \/ \E j \in 1..Len(Undo(p, c)) : Undo(p, c)[j] = d
  BY ExecutesProc
<1>4. Holds(p)' /\ ~Visited(p)
  BY <1>1, <1>3 DEF Holds, Visited
<1>5. ~Pending(p, MoveBack(p[1]))'
  <2>1. \A d : Pending(p, d)' => d = Umount
    BY <1>1, <1>3, UndoFacts, SMTT(30) DEF Pending
  <2> QED BY <2>1 DEF Umount, Mounts, MoveBack, SetTo
<1>6. OwesStill(p, MoveBack(p[1])) /\ OwesRoutesStill(p)
  BY <1>1, <1>3 DEF Pending, OwesStill, OwesRoutesStill, Owes
<1>7. \A q \in Procs : q # p => Quiet(q)
  BY <1>3, QuietFrame
<1>8. \A q \in Procs : /\ Visited(q) => Visited(q)'
                       /\ OwesStill(q, MoveBack(q[1])) /\ OwesRoutesStill(q)
                       /\ Pending(q, MoveBack(q[1]))' => Pending(q, MoveBack(q[1]))
  BY <1>3, <1>4, <1>5, <1>6, QuietFrame DEF Quiet
<1>9. Serial' /\ NoSelf'
  BY <1>3, SerialFrame DEF Tidy
<1>10. \A n \in Names : mnt'[n] = IF n = p[1] THEN p ELSE mnt[n]
  BY <1>2 DEF Base, NetOK
<1>11. Uplink[p[1]] # p[1]
  BY <1>1 DEF Tidy, NoSelf
<1>12. MountOK'
  <2>1. ASSUME NEW q \in Procs, Holds(q)'
        PROVE  mnt'[q[1]] = q
    <3>1. CASE q = p
      BY <1>10, <3>1, OwnNetns
    <3>2. CASE q # p
      <4>1. Holds(q)
        BY <1>7, <2>1, <3>2 DEF Quiet
      <4>2. q[1] # p[1]
        BY <1>1, <3>2, <4>1, ProcFacts, OneAlive DEF Tidy, Alive
      <4> QED BY <1>10, <4>1, <4>2, OwnNetns DEF Tidy, MountOK
    <3> QED BY <3>1, <3>2
  <2>2. ASSUME NEW n \in Names, mnt'[n] # None, NEW q, q = mnt'[n]
        PROVE  q \in Procs /\ q[1] = n /\ (Holds(q)' \/ state'[q] = "aborted")
    <3>1. CASE n = p[1]
      BY <1>4, <1>10, <2>2, <3>1
    <3>2. CASE n # p[1]
      <4>1. q = mnt[n] /\ q # None
        BY <1>10, <2>2, <3>2
      <4>2. q \in Procs /\ q[1] = n /\ (Holds(q) \/ state[q] = "aborted")
        BY <4>1 DEF Tidy, MountOK
      <4> QED BY <1>7, <3>2, <4>2 DEF Quiet
    <3> QED BY <3>1, <3>2
  <2> QED BY <2>1, <2>2 DEF MountOK, Holds
<1>13. ASSUME NEW q \in Procs
       PROVE  LinkOK(q)'
  <2>1. LinkOK(q)
    BY DEF Tidy
  <2>2. SUFFICES ASSUME loc[nd(q)] \notin {None, q}
                 PROVE  /\ loc[nd(q)] \in Procs
                        /\ loc[nd(q)][1] = Uplink[q[1]]
                        /\ Visited(loc[nd(q)])'
                        /\ mnt'[Uplink[q[1]]] = loc[nd(q)] => Owes(q, MoveBack(q[1]))'
    BY <1>2, <2>1 DEF LinkOK, nu, nd, nb, Visited
  <2>3. PICK s : s = loc[nd(q)]
    OBVIOUS
  <2>4. /\ s \in Procs /\ s[1] = Uplink[q[1]] /\ Visited(s)
        /\ mnt[Uplink[q[1]]] = s => Owes(q, MoveBack(q[1]))
    BY <2>1, <2>2, <2>3 DEF LinkOK
  <2>5. Visited(s)' /\ s # p
    BY <1>4, <1>8, <2>4
  <2>6. mnt'[Uplink[q[1]]] = s => mnt[Uplink[q[1]]] = s
    BY <1>10, <2>4, <2>5, OwnNetns
  <2> QED BY <1>2, <1>8, <2>3, <2>4, <2>5, <2>6 DEF OwesStill, Visited
<1>14. OneLink'
  <2> SUFFICES ASSUME NEW x \in Procs, NEW q \in Procs, x # q, x[1] = q[1],
                      Pending(x, MoveBack(x[1]))', loc[nd(q)] # None,
                      loc[nd(q)] = mnt'[Uplink[x[1]]]
               PROVE  FALSE
    BY <1>2 DEF OneLink, nd
  <2>1. Pending(x, MoveBack(x[1])) /\ Uplink[x[1]] \in Names
    BY <1>8, PendingFacts
  <2>2. CASE Uplink[x[1]] # p[1]
    <3>1. mnt[Uplink[x[1]]] = loc[nd(q)]
      BY <1>10, <2>1, <2>2
    <3> QED BY <2>1, <3>1 DEF Tidy, OneLink
  <2>3. CASE Uplink[x[1]] = p[1]
    <3>1. loc[nd(q)] = p
      BY <1>10, <2>1, <2>3
    <3>2. LinkOK(q)
      BY DEF Tidy
    <3>3. q = p \/ Visited(p)
      BY <3>1, <3>2, OwnNetns DEF LinkOK
    <3> QED BY <1>4, <1>11, <2>3, <3>3
  <2> QED BY <2>2, <2>3
<1>15. ASSUME NEW r \in routes
       PROVE  RouteOK(r)'
  <2>1. SUFFICES ASSUME r.to # "default"
                 PROVE  RouteOK(r)'
    BY DEF RouteOK
  <2>2. /\ r.to # None /\ r.in \in Procs /\ Visited(r.in)
    BY <2>1 DEF Tidy, RouteOK
  <2>3. PICK x \in Procs :
           /\ Address[x[1]] = r.to
           /\ r.in = x \/ (mnt[r.in[1]] = r.in => Owes(x, RouteDel(r.in[1], r.to)))
    BY <2>1 DEF Tidy, RouteOK
  <2>4. mnt'[r.in[1]] = r.in => mnt[r.in[1]] = r.in
    BY <1>4, <1>10, <2>2, OwnNetns
  <2>5. r.in = x \/ (mnt'[r.in[1]] = r.in => Owes(x, RouteDel(r.in[1], r.to))')
    BY <1>8, <2>3, <2>4 DEF OwesRoutesStill, OwesStill
  <2>6. Visited(r.in)'
    BY <1>8, <2>2
  <2> QED BY <2>2, <2>3, <2>5, <2>6 DEF RouteOK
<1>16. routes' = routes
  BY <1>2
<1> QED BY <1>9, <1>12, <1>13, <1>14, <1>15, <1>16 DEF Tidy

(* connect() moves the link of its own process, and no other. *)
LEMMA MoveUpMoves ==
    ASSUME SwitchesEnd, AllOwn, Base, Tidy, NEW p \in Procs, Executes(p), Done(p) >= 2,
           Head(todo[p]) = MoveUp(p[1]), Uplink[p[1]] \in Names
    PROVE  /\ Move(nd(p), mnt[Uplink[p[1]]]) /\ mnt' = mnt
           /\ loc[nd(p)] = p
           /\ mnt[Uplink[p[1]]] \in Procs /\ mnt[Uplink[p[1]]][1] = Uplink[p[1]]
           /\ Visited(mnt[Uplink[p[1]]])
           /\ \A q \in Procs : q[1] = p[1] => loc[nd(q)] # mnt[Uplink[p[1]]]
<1> DEFINE c == Head(todo[p])
           u == Uplink[p[1]]
<1>1. Possible(p, c) /\ Effect(p, c) /\ state[p] = "adding"
  BY ExecutesFacts
<1>2. c.do = "move" /\ c.at = None /\ c.kind = "nd" /\ c.to = u
  BY DEF MoveUp, SetTo
<1>3. /\ Named(mnt[u], "nd", p[1]) = {} /\ mnt[u] # None
      /\ \E l \in Link(p, c) : Move(l, mnt[u])
      /\ mnt' = mnt
  BY <1>1, <1>2, EffectFacts
<1>4. PICK l \in Link(p, c) : Move(l, mnt[u])
  BY <1>3
<1>5. Where(p, c) = p
  BY <1>2, OwnNetns DEF Where
<1>6. l \in Links /\ loc[l] = p /\ l[1][1] = p[1] /\ l[2] = "nd"
  BY <1>2, <1>4, <1>5, LinkIs
<1>7. PICK q \in Procs : l = nd(q) /\ q[1] = p[1]
  BY <1>6 DEF Links, nd
<1>8. q = p
  <2>1. SUFFICES ASSUME q # p
                 PROVE  FALSE
    OBVIOUS
  <2>2. LinkOK(q)
    BY DEF Tidy
  <2>3. p[1] = Uplink[p[1]]
    BY <1>6, <1>7, <2>1, <2>2, OwnNetns DEF LinkOK
  <2> QED BY <1>1, <2>3 DEF Tidy, NoSelf
<1>9. /\ mnt[u] \in Procs /\ mnt[u][1] = u
      /\ Holds(mnt[u]) \/ state[mnt[u]] = "aborted"
  BY <1>3 DEF Tidy, MountOK
<1>10. Visited(mnt[u])
  <2>1. PICK s \in Procs : s = mnt[u]
    BY <1>9
  <2>2. Holds(s) \/ state[s] = "aborted"
    BY <1>9, <2>1
  <2>3. Visited(s)
    BY <2>2, ProcFacts DEF Visited
  <2> QED BY <2>1, <2>3
<1>11. ASSUME NEW x \in Procs, x[1] = p[1], loc[nd(x)] = mnt[u]
       PROVE  FALSE
  <2>1. nd(x) \in Named(mnt[u], "nd", p[1])
    BY <1>3, <1>11, OwnNetns DEF Named, nd
  <2> QED BY <1>3, <2>1
<1> QED BY <1>3, <1>4, <1>6, <1>7, <1>8, <1>9, <1>10, <1>11

LEMMA ExecutesMoveTidy ==
    ASSUME SwitchesEnd, AllOwn, Base, Tidy, NEW p \in Procs, Executes(p), Done(p) >= 2,
           Head(todo[p]) = MoveUp(p[1]), Uplink[p[1]] \in Names
    PROVE  Tidy'
<1> DEFINE u == Uplink[p[1]]
           back == MoveBack(p[1])
<1>1. PICK s \in Procs : s = mnt[u]
  BY MoveUpMoves
<1>2. /\ Move(nd(p), s) /\ mnt' = mnt /\ loc[nd(p)] = p
      /\ s[1] = u /\ Visited(s)
      /\ \A q \in Procs : q[1] = p[1] => loc[nd(q)] # s
  BY <1>1, MoveUpMoves
<1>3. \A q \in Procs : /\ OwesStill(q, MoveBack(q[1])) /\ OwesRoutesStill(q)
                       /\ Visited(q) => Visited(q)'
                       /\ q # p => Quiet(q)
  BY ExecutesQuiet
<1>4. Pending(p, back)' /\ Holds(p) /\ state' = state /\ cleanups'[p] # <<>> /\ state[p] = "adding"
  <2>1. Undo(p, Head(todo[p])) = <<back>>
    BY UndoFacts
  <2>2. Done(p) >= 1
    <3>1. Done(p) \in Nat
      BY ExecutesFacts
    <3> QED BY <3>1
  <2> QED BY <2>1, <2>2, ExecutesProc, ExecutesFacts DEF Holds
<1>5. Serial' /\ NoSelf'
  BY <1>4, SerialFrame DEF Tidy
<1>6. /\ loc'[nd(p)] = s
      /\ \A l \in Links : l # nd(p) => loc'[l] = loc[l]
      /\ routes' \subseteq routes
  BY <1>2, OwnNetns DEF Move, Base, NetOK
<1>7. MountOK'
  <2>1. Holds(p)'
    BY <1>4 DEF Holds
  <2>2. \A q \in Procs : /\ Holds(q)' => Holds(q)
                         /\ Holds(q) \/ state[q] = "aborted" => Holds(q)' \/ state'[q] = "aborted"
    BY <1>3, <1>4, <2>1 DEF Quiet
  <2> QED BY <1>2, <2>2 DEF Tidy, MountOK
<1>8. ASSUME NEW q \in Procs
      PROVE  LinkOK(q)'
  <2>1. LinkOK(q)
    BY DEF Tidy
  <2>2. loc'[nu(q)] = loc[nu(q)] /\ loc'[nb(q)] = loc[nb(q)]
    BY <1>6, OwnNetns DEF nu, nb, nd
  <2>3. CASE q = p
    <3>1. Visited(s)' /\ Owes(p, back)'
      BY <1>2, <1>3, <1>4 DEF Owes
    <3> QED BY <1>2, <1>6, <2>1, <2>2, <2>3, <3>1 DEF LinkOK, nu, nd, nb, Visited
  <2>4. CASE q # p
    <3>1. loc'[nd(q)] = loc[nd(q)]
      BY <1>6, <2>4, OwnNetns DEF nd
    <3>2. SUFFICES ASSUME loc[nd(q)] \notin {None, q}
                   PROVE  /\ loc[nd(q)] \in Procs
                          /\ loc[nd(q)][1] = Uplink[q[1]]
                          /\ Visited(loc[nd(q)])'
                          /\ mnt'[Uplink[q[1]]] = loc[nd(q)] => Owes(q, MoveBack(q[1]))'
      BY <2>1, <2>2, <3>1 DEF LinkOK, nu, nd, nb, Visited
    <3>3. PICK t : t = loc[nd(q)]
      OBVIOUS
    <3>4. /\ t \in Procs /\ t[1] = Uplink[q[1]] /\ Visited(t)
          /\ mnt[Uplink[q[1]]] = t => Owes(q, MoveBack(q[1]))
      BY <2>1, <3>2, <3>3 DEF LinkOK
    <3>5. Visited(t)'
      BY <1>3, <3>4
    <3> QED BY <1>2, <1>3, <3>1, <3>3, <3>4, <3>5 DEF OwesStill, Visited
  <2> QED BY <2>3, <2>4
<1>9. OneLink'
  <2> SUFFICES ASSUME NEW x \in Procs, NEW q \in Procs, x # q, x[1] = q[1],
                      Pending(x, MoveBack(x[1]))', loc'[nd(q)] # None,
                      loc'[nd(q)] = mnt'[Uplink[x[1]]]
               PROVE  FALSE
    BY DEF OneLink, nd
  <2>1. CASE x = p
    <3>1. loc'[nd(q)] = loc[nd(q)]
      BY <1>6, <2>1, OwnNetns DEF nd
    <3> QED BY <1>1, <1>2, <2>1, <3>1
  <2>2. CASE x # p
    <3>1. Pending(x, MoveBack(x[1]))
      BY <1>3, <2>2 DEF Quiet
    <3>2. q # p
      BY <1>4, <2>2, <3>1, PendingFacts, OneAlive DEF Alive, Tidy
    <3>3. loc'[nd(q)] = loc[nd(q)]
      BY <1>6, <3>2, OwnNetns DEF nd
    <3> QED BY <1>2, <3>1, <3>3 DEF Tidy, OneLink
  <2> QED BY <2>1, <2>2
<1>10. ASSUME NEW r \in routes'
       PROVE  RouteOK(r)'
  <2>1. SUFFICES ASSUME r.to # "default"
                 PROVE  RouteOK(r)'
    BY DEF RouteOK
  <2>2. RouteOK(r)
    BY <1>6, <1>10 DEF Tidy
  <2>3. /\ r.to # None /\ r.in \in Procs /\ Visited(r.in)
    BY <2>1, <2>2 DEF RouteOK
  <2>4. PICK x \in Procs :
           /\ Address[x[1]] = r.to
           /\ r.in = x \/ (mnt[r.in[1]] = r.in => Owes(x, RouteDel(r.in[1], r.to)))
    BY <2>1, <2>2 DEF RouteOK
  <2>5. r.in = x \/ (mnt'[r.in[1]] = r.in => Owes(x, RouteDel(r.in[1], r.to))')
    BY <1>2, <1>3, <2>4 DEF OwesRoutesStill, OwesStill
  <2>6. Visited(r.in)'
    BY <1>3, <2>3
  <2> QED BY <2>3, <2>4, <2>5, <2>6 DEF RouteOK
<1> QED BY <1>5, <1>7, <1>8, <1>9, <1>10 DEF Tidy

LEMMA ExecutesRouteTidy ==
    ASSUME SwitchesEnd, AllOwn, Base, Tidy, NEW p \in Procs, Executes(p), Done(p) >= 2,
           Head(todo[p]).do = "routeAdd"
    PROVE  Tidy'
<1> DEFINE c == Head(todo[p])
<1>1. Possible(p, c) /\ Effect(p, c) /\ c \in Setups(p[1]) /\ p[1] \in Names
  BY ExecutesFacts DEF Procs
<1>2. /\ \E l \in Gateways(Where(p, c), c.via) :
            routes' = routes \cup {[in |-> Where(p, c), to |-> c.to, dev |-> l]}
      /\ UNCHANGED <<mnt, loc>>
  BY <1>1, EffectFacts
<1>3. PICK l \in Gateways(Where(p, c), c.via) :
         routes' = routes \cup {[in |-> Where(p, c), to |-> c.to, dev |-> l]}
  BY <1>2
<1>4. c # MoveUp(p[1])
  BY DEF MoveUp, SetTo
<1>5. \A q \in Procs : Quiet(q) /\ OwesStill(q, MoveBack(q[1])) /\ OwesRoutesStill(q)
  BY <1>4, ExecutesQuiet
<1>6. Visited(p) /\ state' = state
  BY ExecutesQuiet, ExecutesProc
<1>7. LinksQuiet /\ mnt' = mnt
  BY <1>2 DEF LinksQuiet
<1>8. MountOK' /\ OneLink' /\ \A q \in Procs : LinkOK(q)'
  BY <1>5, <1>7, MountQuiet, LinkQuiet, OneLinkQuiet DEF Tidy
<1>9. Serial' /\ NoSelf'
  BY <1>6, SerialFrame DEF Tidy
<1>10. \A r \in routes : RouteOK(r)'
  BY <1>5, <1>7, RouteQuiet DEF Tidy
<1>11. Where(p, c) # None
  BY <1>3 DEF Gateways, Base, NetOK
<1>12. ASSUME NEW r, r = [in |-> Where(p, c), to |-> c.to, dev |-> l]
       PROVE  RouteOK(r)'
  <2>1. SUFFICES ASSUME c.to # "default"
                 PROVE  RouteOK(r)'
    BY <1>12 DEF RouteOK
  <2>2. PICK s \in Names : Address[p[1]] # None /\ c = RouteAdd(Uplink[s], Address[p[1]], Address[s])
    BY <1>1, <1>4, <2>1, SetupCases DEF MakesPair, MakesBridge, LinkAdd
  <2>3. c.at = Uplink[s] /\ c.to = Address[p[1]]
    BY <2>2 DEF RouteAdd
  <2>4. r.in = Where(p, c) /\ r.to = Address[p[1]] /\ Address[p[1]] # None
    BY <1>12, <2>2, <2>3
  <2>5. Visited(p)'
    BY <1>5, <1>6 DEF Quiet
  <2>6. CASE c.at = None
    <3>1. r.in = p
      BY <2>4, <2>6, OwnNetns DEF Where
    <3> QED BY <2>4, <2>5, <3>1 DEF RouteOK
  <2>7. CASE c.at # None
    <3>1. c.at \in Names
      BY <2>3, <2>7, EntitydAssumption
    <3>2. r.in = mnt[c.at] /\ r.in # None
      BY <1>11, <2>4, <2>7 DEF Where
    <3>3. r.in \in Procs /\ r.in[1] = c.at /\ (Holds(r.in) \/ state[r.in] = "aborted")
      BY <3>1, <3>2 DEF Tidy, MountOK
    <3>4. Visited(r.in)
      BY <3>3, ProcFacts DEF Visited
    <3>5. Visited(r.in)'
      BY <1>5, <3>3, <3>4 DEF Quiet
    <3>6. Undo(p, c) = <<RouteDel(r.in[1], r.to)>>
      BY <2>3, <2>4, <3>3, UndoFacts
    <3>7. Owes(p, RouteDel(r.in[1], r.to))'
      BY <3>6, ExecutesProc DEF Owes
    <3> QED BY <2>4, <3>3, <3>5, <3>7 DEF RouteOK
  <2> QED BY <2>6, <2>7
<1> QED BY <1>3, <1>8, <1>9, <1>10, <1>12 DEF Tidy

LEMMA ExecutesTidy ==
    ASSUME SwitchesEnd, AllOwn, Base, Tidy, NEW p \in Procs, Executes(p)
    PROVE  Tidy'
<1> DEFINE c == Head(todo[p])
<1>1. Done(p) \in Nat
  BY ExecutesFacts
<1>2. CASE Done(p) >= 2 /\ c = MoveUp(p[1]) /\ Uplink[p[1]] \in Names
  BY <1>2, ExecutesMoveTidy
<1>3. CASE Done(p) >= 2 /\ c.do = "routeAdd"
  BY <1>3, ExecutesRouteTidy
<1>4. CASE Done(p) >= 2 /\ c.do # "routeAdd" /\ ~(c = MoveUp(p[1]) /\ Uplink[p[1]] \in Names)
  <2>1. Possible(p, c) /\ Effect(p, c) /\ c \in Setups(p[1]) /\ p[1] \in Names
    BY <1>4, ExecutesFacts DEF Procs
  <2>2. c.do \in {"add", "up", "master", "addrAdd"} /\ c # MoveUp(p[1])
    BY <1>4, <2>1, SetupCases, EffectFacts DEF MakesPair, MakesBridge, LinkAdd, MoveUp, SetTo
  <2>3. \A q \in Procs : Quiet(q) /\ OwesStill(q, MoveBack(q[1])) /\ OwesRoutesStill(q)
    BY <1>4, <2>2, ExecutesQuiet
  <2>4. state' = state
    BY ExecutesProc
  <2>5. mnt' = mnt /\ routes' = routes
    BY <2>1, <2>2, EffectFacts
  <2>6. LinksQuiet
    <3>1. CASE c.do = "add"
      <4>1. loc' = [k \in Links |-> IF k[1] = p /\ k[2] \in c.kinds THEN p ELSE loc[k]]
        BY <2>1, <3>1, EffectFacts, OwnNetns
      <4> QED BY <4>1 DEF LinksQuiet
    <3>2. CASE c.do # "add"
      BY <2>1, <2>2, <3>2, EffectFacts DEF LinksQuiet
    <3> QED BY <3>1, <3>2
  <2>7. Serial' /\ NoSelf'
    BY <2>4, SerialFrame DEF Tidy
  <2> QED BY <2>3, <2>5, <2>6, <2>7, TidyQuiet
<1> QED BY <1>1, <1>2, <1>3, <1>4, ExecutesUmountTidy, ExecutesMountTidy

-----------------------------------------------------------------------------
(* Tidy is inductive: the cleanups. *)

LEMMA CleansProc ==
    ASSUME Base, NEW p \in Procs, Cleans(p)
    PROVE  LET c == Head(todo[p]) IN
           /\ state' = state /\ cleanups[p] = <<>> /\ cleanups'[p] = <<>>
           /\ \A q \in Procs : q # p => todo'[q] = todo[q] /\ cleanups'[q] = cleanups[q]
           /\ Pending(p, c) /\ Holds(p) /\ Visited(p) /\ Visited(p)' /\ Alive(p)
           /\ \A d : Pending(p, d)' => Pending(p, d)
           /\ \A d : d # c /\ Pending(p, d) => Pending(p, d)'
           /\ Holds(p)' <=> Len(todo[p]) > 1
<1> DEFINE c == Head(todo[p])
           s == todo[p]
           t == Tail(todo[p])
<1>1. /\ state[p] = "cleaning" /\ UNCHANGED <<state, cleanups>>
      /\ c = s[1] /\ Len(s) \in Nat /\ Len(s) >= 1
      /\ t \in Seq(Commands)
      /\ todo' = [todo EXCEPT ![p] = t] /\ todo'[p] = t
      /\ Len(t) = Len(s) - 1
      /\ \A j \in 1..(Len(s) - 1) : t[j] = s[j + 1]
  BY CleansFacts
<1>2. /\ todo \in [Procs -> Seq(Commands)] /\ ListsOK(p)
  BY DEF Base
<1>3. cleanups[p] = <<>>
  <2>1. ~Working(p)
    BY <1>1 DEF Working
  <2> QED BY <1>2, <2>1, Zenon DEF ListsOK
<1>4. \A d : Pending(p, d) <=> \E j \in 1..Len(s) : s[j] = d
  BY <1>1, <1>3 DEF Pending
<1>5. \A d : Pending(p, d)' <=> \E j \in 1..Len(t) : t[j] = d
  <2>1. state'[p] = "cleaning" /\ cleanups'[p] = <<>> /\ todo'[p] = t
    BY <1>1, <1>3
  <2> HIDE DEF t
  <2> QED BY <2>1 DEF Pending
<1>6. \A q \in Procs : q # p => todo'[q] = todo[q] /\ cleanups'[q] = cleanups[q]
  BY <1>1, <1>2
<1>7. s \in Seq(Commands)
  BY <1>2
<1> HIDE DEF c, s, t
<1>8. ASSUME NEW d, Pending(p, d)'
      PROVE  Pending(p, d)
  <2>1. PICK j \in 1..Len(t) : t[j] = d
    BY <1>5, <1>8
  <2>2. j + 1 \in 1..Len(s) /\ s[j + 1] = d
    BY <1>1, <2>1
  <2> QED BY <1>4, <2>2
<1>9. ASSUME NEW d, d # c, Pending(p, d)
      PROVE  Pending(p, d)'
  <2>1. PICK j \in 1..Len(s) : s[j] = d
    BY <1>4, <1>9
  <2>2. j - 1 \in 1..Len(t) /\ j - 1 \in 1..(Len(s) - 1) /\ (j - 1) + 1 = j
    BY <1>1, <1>9, <2>1
  <2>3. t[j - 1] = d
    BY <1>1, <2>1, <2>2
  <2> QED BY <1>5, <2>2, <2>3
<1>10. Pending(p, c)
  BY <1>1, <1>4
<1>11. t # <<>> <=> Len(s) > 1
  BY <1>1
<1>12. Holds(p)' <=> t # <<>>
  BY <1>1, <1>3 DEF Holds
<1>13. s # <<>>
  BY <1>1
<1>14. Holds(p) /\ Visited(p) /\ Visited(p)' /\ Alive(p)
  BY <1>1, <1>13 DEF Holds, Visited, Alive, s
<1> QED BY <1>1, <1>3, <1>6, <1>8, <1>9, <1>10, <1>11, <1>12, <1>14 DEF c, s

LEMMA CleansQuiet ==
    ASSUME Base, NEW p \in Procs, Cleans(p), Len(todo[p]) > 1
    PROVE  /\ \A q \in Procs : Quiet(q)
           /\ \A q \in Procs : \A d : q # p \/ d # Head(todo[p]) => OwesStill(q, d)
<1> DEFINE c == Head(todo[p])
<1>1. /\ state' = state
      /\ \A q \in Procs : q # p => todo'[q] = todo[q] /\ cleanups'[q] = cleanups[q]
      /\ Holds(p) /\ Visited(p) /\ Visited(p)' /\ Holds(p)'
      /\ \A d : Pending(p, d)' => Pending(p, d)
      /\ \A d : d # c /\ Pending(p, d) => Pending(p, d)'
  BY CleansProc
<1> HIDE DEF c
<1>2. Quiet(p) /\ \A d : d # c => OwesStill(p, d)
  BY <1>1 DEF Quiet, OwesStill, Owes
<1>3. ASSUME NEW q \in Procs, q # p
      PROVE  Quiet(q) /\ \A d : OwesStill(q, d)
  <2>1. state'[q] = state[q] /\ todo'[q] = todo[q] /\ cleanups'[q] = cleanups[q]
    BY <1>1, <1>3
  <2> QED BY <2>1, QuietFrame DEF OwesStill, Owes, Pending
<1> QED BY <1>2, <1>3 DEF c

LEMMA CleansUmountTidy ==
    ASSUME AllOwn, Base, Tidy, NEW p \in Procs, Cleans(p), Len(todo[p]) = 1
    PROVE  Tidy'
<1> DEFINE c == Head(todo[p])
<1>1. c = Umount /\ state[p] = "cleaning" /\ c = todo[p][1] /\ (Possible(p, c) => Effect(p, c))
  BY CleansFacts
<1>2. Possible(p, c)
  <2>1. c.do \in {"umount", "mount"}
    BY <1>1 DEF Umount, Mounts
  <2> QED BY <2>1, Zenon DEF Possible
<1>3. mnt' = [mnt EXCEPT ![p[1]] = None] /\ UNCHANGED <<loc, routes>>
  BY <1>1, <1>2, EffectFacts DEF Umount, Mounts
<1>4. /\ state' = state /\ cleanups[p] = <<>> /\ ~Holds(p)' /\ Alive(p) /\ Visited(p)'
      /\ \A q \in Procs : q # p => todo'[q] = todo[q] /\ cleanups'[q] = cleanups[q]
      /\ \A d : Pending(p, d)' => Pending(p, d)
  <2>1. ~(Len(todo[p]) > 1)
    OBVIOUS
  <2> QED BY <2>1, CleansProc
<1>5. \A d : Pending(p, d) => d = Umount
  BY <1>1, <1>4 DEF Pending
<1>6. ~Pending(p, MoveBack(p[1])) /\ \A a, to : ~Pending(p, RouteDel(a, to))
  BY <1>5 DEF MoveBack, SetTo, RouteDel, Umount, Mounts
<1>7. OwesStill(p, MoveBack(p[1])) /\ OwesRoutesStill(p)
  BY <1>1, <1>6 DEF OwesStill, OwesRoutesStill, Owes
<1>8. \A q \in Procs : q # p => Quiet(q) /\ OwesStill(q, MoveBack(q[1])) /\ OwesRoutesStill(q)
  BY <1>4, QuietFrame
<1> QED BY <1>3, <1>4, <1>7, <1>8, UnmountTidy DEF Quiet

(* The link comes back: nobody else has moved it, or left one of its name in the way. *)
LEMMA CleansMoveTidy ==
    ASSUME AllOwn, Base, Tidy, NEW p \in Procs, Cleans(p), Len(todo[p]) > 1,
           Head(todo[p]) = MoveBack(p[1]), Uplink[p[1]] \in Names
    PROVE  Tidy'
<1> DEFINE c == Head(todo[p])
           u == Uplink[p[1]]
<1>1. /\ Possible(p, c) => Effect(p, c)
      /\ ~Possible(p, c) => UNCHANGED netns
  BY CleansFacts
<1>2. c.do = "move" /\ c.at = u /\ c.kind = "nd" /\ c.to = p[1] /\ u # None
  BY EntitydAssumption DEF MoveBack, SetTo
<1>3. state' = state /\ Pending(p, MoveBack(p[1])) /\ Holds(p) /\ Alive(p)
  BY CleansProc
<1>4. mnt[p[1]] = p /\ Where(p, c) = mnt[u]
  BY <1>2, <1>3 DEF Where, Tidy, MountOK
<1>5. u # p[1] /\ state[p] # "none"
  BY <1>3, ProcFacts DEF Tidy, NoSelf
<1>6. \A q \in Procs : /\ Quiet(q) /\ OwesRoutesStill(q)
                       /\ q # p => OwesStill(q, MoveBack(q[1]))
  <2>1. \A a, to : RouteDel(a, to) # c
    BY <1>2 DEF RouteDel
  <2> QED BY <2>1, CleansQuiet DEF OwesRoutesStill
<1>7. CASE Possible(p, c)
  <2>1. PICK l \in Link(p, c) : Move(l, p) /\ mnt' = mnt
    BY <1>1, <1>2, <1>4, <1>7, EffectFacts
  <2>2. l \in Links /\ loc[l] = mnt[u] /\ loc[l] # None /\ l[1][1] = p[1] /\ l[2] = "nd"
    BY <1>2, <1>4, <2>1, LinkIs
  <2>3. PICK q \in Procs : l = nd(q) /\ q[1] = p[1]
    BY <2>2 DEF Links, nd
  <2>4. q = p
    BY <1>3, <2>2, <2>3 DEF Tidy, OneLink
  <2>5. /\ loc'[nd(p)] = p
        /\ \A k \in Links : k # nd(p) => loc'[k] = loc[k]
        /\ routes' \subseteq routes
    BY <2>1, <2>3, <2>4, OwnNetns DEF Move, Base, NetOK
  <2>6. LinksQuiet
    BY <2>5 DEF LinksQuiet, nd
  <2>7. LinkOK(p)'
    <3>1. LinkOK(p)
      BY DEF Tidy
    <3>2. loc'[nu(p)] = loc[nu(p)] /\ loc'[nb(p)] = loc[nb(p)]
      BY <2>5, OwnNetns DEF nu, nb, nd
    <3> QED BY <2>5, <3>1, <3>2 DEF LinkOK, nu, nb, nd
  <2>8. \A x \in Procs : x # p => LinkOK(x)'
    BY <1>6, <2>1, <2>6, LinkQuiet DEF Tidy
  <2>9. MountOK' /\ OneLink'
    BY <1>6, <2>1, <2>6, MountQuiet, OneLinkQuiet DEF Tidy
  <2>10. \A r \in routes' : RouteOK(r)'
    BY <1>6, <2>1, <2>5, RouteQuiet DEF Tidy
  <2>11. Serial' /\ NoSelf'
    BY <1>3, SerialFrame DEF Tidy
  <2> QED BY <2>7, <2>8, <2>9, <2>10, <2>11 DEF Tidy
<1>8. CASE ~Possible(p, c)
  <2>1. UNCHANGED <<mnt, loc, routes>> /\ LinksQuiet
    BY <1>1, <1>8 DEF netns, LinksQuiet
  <2>2. LinkOK(p)
    BY DEF Tidy
  <2>3. ASSUME loc[nd(p)] \notin {None, p}, mnt[u] = loc[nd(p)]
        PROVE  FALSE
    <3>1. nd(p) \in Link(p, c)
      BY <1>2, <1>4, <2>3, OwnNetns DEF Link, Named, nd
    <3>2. Named(mnt[p[1]], "nd", p[1]) # {}
      BY <1>2, <1>4, <1>8, <3>1, OwnNetns DEF Possible
    <3>3. PICK x \in Procs : x[1] = p[1] /\ loc[nd(x)] = p
      <4>1. PICK k \in Named(mnt[p[1]], "nd", p[1]) : TRUE
        BY <3>2
      <4>2. k \in Links /\ k[1][1] = p[1] /\ k[2] = "nd" /\ loc[k] = p
        BY <1>4, <4>1 DEF Named
      <4>3. k[1] \in Procs /\ k = nd(k[1])
        BY <4>2 DEF Links, nd
      <4> QED BY <4>2, <4>3
    <3>4. x # p
      BY <2>3, <3>3
    <3>5. LinkOK(x)
      BY DEF Tidy
    <3>6. p[1] = u
      BY <3>3, <3>4, <3>5, OwnNetns DEF LinkOK
    <3> QED BY <1>5, <3>6
  <2>4. LinkOK(p)'
    <3>1. PICK s : s = loc[nd(p)]
      OBVIOUS
    <3>2. s \notin {None, p} => s \in Procs /\ s[1] = u /\ Visited(s) /\ mnt[u] # s
      BY <2>2, <2>3, <3>1 DEF LinkOK
    <3>3. s \notin {None, p} => Visited(s)'
      BY <1>6, <3>2 DEF Quiet
    <3> QED BY <2>1, <2>2, <3>1, <3>2, <3>3 DEF LinkOK, Visited, nu, nb, nd
  <2>5. \A x \in Procs : x # p => LinkOK(x)'
    BY <1>6, <2>1, LinkQuiet DEF Tidy
  <2>6. MountOK' /\ OneLink'
    BY <1>6, <2>1, MountQuiet, OneLinkQuiet DEF Tidy
  <2>7. \A r \in routes' : RouteOK(r)'
    BY <1>6, <2>1, RouteQuiet DEF Tidy
  <2>8. Serial' /\ NoSelf'
    BY <1>3, SerialFrame DEF Tidy
  <2> QED BY <2>4, <2>5, <2>6, <2>7, <2>8 DEF Tidy
<1> QED BY <1>7, <1>8

(* Of the routes p has entered above, those that are left are still to be deleted. *)
LEMMA CleansRouteTidy ==
    ASSUME AllOwn, Base, Tidy, NEW p \in Procs, Cleans(p), Len(todo[p]) > 1,
           Head(todo[p]).do = "routeDel"
    PROVE  Tidy'
<1> DEFINE c == Head(todo[p])
<1>1. /\ Possible(p, c) => Effect(p, c)
      /\ ~Possible(p, c) => UNCHANGED netns
  BY CleansFacts
<1>2. /\ UNCHANGED <<mnt, loc>> /\ routes' \subseteq routes
      /\ Possible(p, c) => routes' = routes \ Routed(Where(p, c), c.to)
  <2>1. CASE Possible(p, c)
    BY <1>1, <2>1, EffectFacts
  <2>2. CASE ~Possible(p, c)
    BY <1>1, <2>2 DEF netns
  <2> QED BY <2>1, <2>2
<1>3. state' = state
  BY CleansProc
<1>4. \A q \in Procs : /\ Quiet(q) /\ OwesStill(q, MoveBack(q[1]))
                       /\ \A d : q # p \/ d # c => OwesStill(q, d)
  <2>1. \A q \in Procs : MoveBack(q[1]) # c
    BY DEF MoveBack, SetTo
  <2> QED BY <2>1, CleansQuiet
<1>5. LinksQuiet
  BY <1>2 DEF LinksQuiet
<1>6. Serial' /\ NoSelf'
  BY <1>3, SerialFrame DEF Tidy
<1>7. MountOK' /\ OneLink' /\ \A q \in Procs : LinkOK(q)'
  BY <1>2, <1>4, <1>5, MountQuiet, LinkQuiet, OneLinkQuiet DEF Tidy
<1>8. ASSUME NEW r \in routes'
      PROVE  RouteOK(r)'
  <2>1. SUFFICES ASSUME r.to # "default"
                 PROVE  RouteOK(r)'
    BY DEF RouteOK
  <2>2. RouteOK(r) /\ r \in routes
    BY <1>2, <1>8 DEF Tidy
  <2>3. /\ r.to # None /\ r.in \in Procs /\ Visited(r.in)
    BY <2>1, <2>2 DEF RouteOK
  <2>4. PICK x \in Procs :
           /\ Address[x[1]] = r.to
           /\ r.in = x \/ (mnt[r.in[1]] = r.in => Owes(x, RouteDel(r.in[1], r.to)))
    BY <2>1, <2>2 DEF RouteOK
  <2>5. Visited(r.in)'
    BY <1>4, <2>3 DEF Quiet
  <2>6. ASSUME r.in # x, mnt[r.in[1]] = r.in
        PROVE  Owes(x, RouteDel(r.in[1], r.to))'
    <3>1. Owes(x, RouteDel(r.in[1], r.to))
      BY <2>4, <2>6
    <3>2. CASE x = p /\ c = RouteDel(r.in[1], r.to)
      <4>1. c.at = r.in[1] /\ c.to = r.to /\ r.in[1] # None /\ r.in # None
        BY <2>3, <3>2, OwnNetns DEF RouteDel
      <4>2. Where(p, c) = r.in
        BY <2>6, <4>1 DEF Where
      <4>3. r \in Routed(Where(p, c), c.to)
        BY <2>2, <4>1, <4>2 DEF Routed
      <4>4. Possible(p, c)
        BY <4>1, <4>2, <4>3 DEF Possible
      <4> QED BY <1>2, <1>8, <4>3, <4>4
    <3>3. CASE ~(x = p /\ c = RouteDel(r.in[1], r.to))
      BY <1>4, <3>1, <3>3 DEF OwesStill
    <3> QED BY <3>2, <3>3
  <2>7. r.in = x \/ (mnt'[r.in[1]] = r.in => Owes(x, RouteDel(r.in[1], r.to))')
    BY <1>2, <2>6
  <2> QED BY <2>3, <2>4, <2>5, <2>7 DEF RouteOK
<1> QED BY <1>6, <1>7, <1>8 DEF Tidy

LEMMA CleansTidy ==
    ASSUME AllOwn, Base, Tidy, NEW p \in Procs, Cleans(p)
    PROVE  Tidy'
<1> DEFINE c == Head(todo[p])
<1>1. /\ Possible(p, c) => Effect(p, c)
      /\ ~Possible(p, c) => UNCHANGED netns
      /\ Len(todo[p]) \in Nat /\ Len(todo[p]) >= 1
      /\ Len(todo[p]) > 1 => c \in Undos(p[1])
      /\ p[1] \in Names
  BY CleansFacts DEF Procs
<1>2. CASE Len(todo[p]) = 1
  BY <1>2, CleansUmountTidy
<1>3. CASE Len(todo[p]) > 1 /\ c = MoveBack(p[1]) /\ Uplink[p[1]] \in Names
  BY <1>3, CleansMoveTidy
<1>4. CASE Len(todo[p]) > 1 /\ c.do = "routeDel"
  BY <1>4, CleansRouteTidy
<1>5. CASE Len(todo[p]) > 1 /\ c.do \in {"del", "addrDel", "down"}
  <2>1. UNCHANGED mnt /\ LinksQuiet /\ routes' \subseteq routes
    <3>1. CASE ~Possible(p, c)
      BY <1>1, <3>1 DEF netns, LinksQuiet
    <3>2. CASE Possible(p, c) /\ c.do = "del"
      <4>1. Delete(Link(p, c)) /\ UNCHANGED mnt
        BY <1>1, <3>2, EffectFacts
      <4> QED BY <4>1 DEF Delete, LinksQuiet
    <3>3. CASE Possible(p, c) /\ c.do = "addrDel"
      <4>1. (\E l \in Link(p, c) : DropAddress(l, c.addr)) /\ UNCHANGED <<mnt, loc>>
        BY <1>1, <3>3, EffectFacts
      <4> QED BY <4>1 DEF DropAddress, LinksQuiet
    <3>4. CASE Possible(p, c) /\ c.do = "down"
      <4>1. /\ routes' = {r \in routes : r.dev \notin Link(p, c)}
            /\ UNCHANGED <<mnt, loc>>
        BY <1>1, <3>4, EffectFacts
      <4> QED BY <4>1 DEF LinksQuiet
    <3> QED BY <1>5, <3>1, <3>2, <3>3, <3>4
  <2>2. \A q \in Procs : Quiet(q) /\ OwesStill(q, MoveBack(q[1])) /\ OwesRoutesStill(q)
    <3>1. (\A q \in Procs : MoveBack(q[1]) # c) /\ \A a, to : RouteDel(a, to) # c
      BY <1>5 DEF MoveBack, SetTo, RouteDel
    <3> QED BY <1>5, <3>1, CleansQuiet DEF OwesRoutesStill
  <2>3. Serial' /\ NoSelf'
    BY CleansProc, SerialFrame DEF Tidy
  <2> QED BY <2>1, <2>2, <2>3, TidyQuiet
<1>6. Len(todo[p]) > 1 =>
         \/ c.do \in {"del", "addrDel", "down", "routeDel"}
         \/ c = MoveBack(p[1]) /\ Uplink[p[1]] \in Names
  BY <1>1, UndoCases
<1>7. Len(todo[p]) = 1 \/ Len(todo[p]) > 1
  <2> DEFINE N == Len(todo[p])
  <2>1. N \in Nat /\ N >= 1
    BY <1>1, Zenon
  <2> HIDE DEF N
  <2>2. N = 1 \/ N > 1
    BY <2>1
  <2> QED BY <2>2 DEF N
<1> QED BY <1>2, <1>3, <1>4, <1>5, <1>6, <1>7, Zenon

LEMMA NextTidy ==
    ASSUME SwitchesEnd, AllOwn, Base, Tidy, [Next]_vars
    PROVE  Tidy'
<1>1. ASSUME NEW p \in Procs, Shutdown(p)
      PROVE  Tidy'
  BY <1>1, RunsCleanupsTidy DEF Shutdown
<1>2. ASSUME NEW p \in Procs, HangsUp(p)
      PROVE  Tidy'
  BY <1>2, RunsCleanupsTidy DEF HangsUp
<1>3. DaemonDies \/ UNCHANGED vars => Tidy'
  BY NoProcTidy DEF DaemonDies, vars, procs
<1> QED BY <1>1, <1>2, <1>3, SpawnTidy, AddComponentTidy, ExecutesTidy, AbortsTidy, AnswersTidy,
           CleansTidy, ExitsTidy, KernelReapsTidy
        DEF Next, EntitydStep

-----------------------------------------------------------------------------
(* NoTrace. *)

(* A namespace that stays, and was set up, is the one that is mounted. *)
LEMMA StaysMounted ==
    ASSUME SwitchesEnd, Base, Tidy, NEW s \in Procs, Visited(s), Stays(s)
    PROVE  mnt[s[1]] = s
<1>1. ListsOK(s) /\ Len(add_network(s[1])) \in Nat /\ Len(add_network(s[1])) >= 2
  BY NetworkFacts DEF Base, Procs
<1>2. state[s] = "up" => cleanups[s] # <<>>
  <2> SUFFICES ASSUME state[s] = "up"
               PROVE  cleanups[s] # <<>>
    OBVIOUS
  <2>1. todo[s] = <<>>
    BY <1>1 DEF ListsOK
  <2>2. Done(s) >= 2
    BY <1>1, <2>1 DEF Done
  <2> QED BY <1>1, <2>2 DEF ListsOK, Working
<1>3. Alive(s) => mnt[s[1]] = s
  <2>1. state[s] \in {"adding", "up"} => Holds(s)
    BY <1>2 DEF Visited, Holds
  <2> QED BY <2>1 DEF Alive, Visited, Stays, Tidy, MountOK
<1>4. ASSUME NEW m \in Names, mnt[m] = s
      PROVE  mnt[s[1]] = s
  <2>1. s # None
    BY EntitydAssumption
  <2> QED BY <1>4, <2>1 DEF Tidy, MountOK
<1> QED BY <1>3, <1>4 DEF Stays, Kept

LEMMA TidyNoTrace ==
    ASSUME SwitchesEnd, AllOwn, SubnetsDistinct, Base, Tidy
    PROVE  NoTrace
<1> SUFFICES ASSUME NEW n \in Names,
                    \A k \in 1..MaxStarts : state[<<n, k>>] \in {"none", "exited"}
             PROVE  /\ mnt[n] = None
                    /\ \A l \in Links : (l[1][1] = n /\ loc[l] # None) => ~Stays(loc[l])
                    /\ \A r \in routes : r.to = Address[n] => ~Stays(r.in)
  BY DEF NoTrace
<1>1. \A p \in Procs : p[1] = n => /\ state[p] \in {"none", "exited"} /\ ~Alive(p)
                                   /\ ~Holds(p) /\ \A c : ~Owes(p, c)
  <2> SUFFICES ASSUME NEW p \in Procs, p[1] = n
               PROVE  /\ state[p] \in {"none", "exited"} /\ ~Alive(p)
                      /\ ~Holds(p) /\ \A c : ~Owes(p, c)
    OBVIOUS
  <2>1. p = <<n, p[2]>> /\ p[2] \in 1..MaxStarts
    BY DEF Procs
  <2>2. state[p] \in {"none", "exited"}
    BY <2>1
  <2>3. ~Alive(p)
    BY <2>2 DEF Alive
  <2> QED BY <2>2, <2>3, ProcFacts DEF Owes
<1>2. mnt[n] = None
  <2> SUFFICES ASSUME mnt[n] # None
               PROVE  FALSE
    OBVIOUS
  <2>1. PICK q \in Procs : q = mnt[n] /\ q[1] = n
    BY DEF Tidy, MountOK
  <2>2. Holds(q) \/ state[q] = "aborted"
    BY <2>1 DEF Tidy, MountOK
  <2> QED BY <1>1, <2>1, <2>2
<1>3. \A p \in Procs : p[1] = n => ~Stays(p)
  <2> SUFFICES ASSUME NEW p \in Procs, p[1] = n, Stays(p)
               PROVE  FALSE
    OBVIOUS
  <2>1. PICK m \in Names : mnt[m] = p
    BY <1>1 DEF Stays, Kept
  <2>2. p # None
    BY EntitydAssumption
  <2>3. m = n
    BY <2>1, <2>2 DEF Tidy, MountOK
  <2> QED BY <1>2, <2>1, <2>2, <2>3
<1>4. ASSUME NEW l \in Links, l[1][1] = n, loc[l] # None, Stays(loc[l])
      PROVE  FALSE
  <2>1. PICK p \in Procs : p = l[1] /\ l \in {nu(p), nd(p), nb(p)}
    BY DEF Links, nu, nd, nb
  <2>2. PICK s : s = loc[l]
    OBVIOUS
  <2>3. s # p
    BY <1>3, <1>4, <2>1, <2>2
  <2>4. LinkOK(p)
    BY DEF Tidy
  <2>5. /\ s \in Procs /\ s[1] = Uplink[n] /\ Visited(s)
        /\ mnt[Uplink[n]] = s => Owes(p, MoveBack(n))
    BY <1>4, <2>1, <2>2, <2>3, <2>4 DEF LinkOK
  <2>6. mnt[Uplink[n]] = s
    BY <1>4, <2>2, <2>5, StaysMounted
  <2> QED BY <1>1, <1>4, <2>1, <2>5, <2>6
<1>5. ASSUME NEW r \in routes, r.to = Address[n], Stays(r.in)
      PROVE  FALSE
  <2>1. r.to # "default"
    BY <1>5 DEF SubnetsDistinct
  <2>2. r.to # None /\ r.in \in Procs /\ Visited(r.in)
    BY <2>1 DEF Tidy, RouteOK
  <2>3. PICK p \in Procs :
           /\ Address[p[1]] = r.to
           /\ r.in = p \/ (mnt[r.in[1]] = r.in => Owes(p, RouteDel(r.in[1], r.to)))
    BY <2>1 DEF Tidy, RouteOK
  <2>4. p[1] = n
    BY <1>5, <2>2, <2>3 DEF SubnetsDistinct, Procs
  <2>5. r.in # p
    BY <1>3, <1>5, <2>4
  <2>6. mnt[r.in[1]] = r.in
    BY <1>5, <2>2, StaysMounted
  <2> QED BY <1>1, <2>3, <2>4, <2>5, <2>6
<1> QED BY <1>2, <1>4, <1>5

(***************************************************************************)
(* Once the entityds of an entity have exited, nothing is left of it: its  *)
(* own mount, links and routes are gone, and so is all that connect() put  *)
(* into the namespaces above, unless such a namespace goes away itself.    *)
(* For any tree of entities with namespaces of their own, any number of    *)
(* starts, and any command that fails on the way up.                       *)
(***************************************************************************)
THEOREM EntitydNoTrace ==
    ASSUME SwitchesEnd, AllOwn, SubnetsDistinct
    PROVE  Spec => []NoTrace
<1>1. Init => Base /\ Tidy
  BY BaseInit, TidyInit
<1>2. Base /\ Tidy /\ [Next]_vars => Base' /\ Tidy'
  BY NextBase, NextTidy
<1>3. Base /\ Tidy => NoTrace
  BY TidyNoTrace
<1> QED BY <1>1, <1>2, <1>3, PTL DEF Spec

-----------------------------------------------------------------------------
(* The commands of a switch, by their place in the list. *)

Connected(n) == Role[n] = "switch" /\ Uplink[n] # None /\ Address[n] # None

LEMMA SwitchList ==
    ASSUME SwitchesEnd, NEW n \in Names, Connected(n)
    PROVE  LET net == add_network(n)
               k   == Len(Switches(n))
           IN  /\ k \in Nat /\ Len(net) = k + 12
               /\ net[1] = Umount /\ net[2] = Mount /\ net[3] = MakesPair /\ net[4] = PairUp
               /\ net[5] = MakesBridge /\ net[6] = BridgeUp
               /\ net[7] = SetTo("master", None, "nu", n)
               /\ net[8] = MoveUp(n) /\ net[9] = AddrAbove(n)
               /\ \A j \in 1..k : LET s == Switches(n)[j] IN
                     s \in Names /\ net[9 + j] = RouteAdd(Uplink[s], Address[n], Address[s])
               /\ net[10 + k] = LinkUp(n) /\ net[11 + k] = AddrBridge(n)
               /\ net[12 + k] = RouteAdd(None, "default", Address[n])
<1> DEFINE k == Len(Switches(n))
           R == Routes(n)
           first == <<Umount, Mount, MakesPair, PairUp, MakesBridge, BridgeUp,
                      SetTo("master", None, "nu", n), MoveUp(n), AddrAbove(n)>>
           last == <<LinkUp(n), AddrBridge(n), RouteAdd(None, "default", Address[n])>>
           net == first \o R \o last
<1>1. /\ setup_interfaces = <<MakesPair, PairUp>>
      /\ setup_bridge(n) = <<MakesBridge, BridgeUp, SetTo("master", None, "nu", n)>>
  BY DEF setup_interfaces, setup_bridge, MakesPair, PairUp, MakesBridge, BridgeUp
<1>2. connect(n) = <<MoveUp(n)>> \o (<<AddrAbove(n)>> \o Routes(n) \o last)
  BY Zenon DEF Connected, connect, MoveUp, AddrAbove, LinkUp, AddrBridge
<1>3. Body(n) = setup_interfaces \o setup_bridge(n) \o connect(n)
  BY DEF Connected, Body
<1>4. /\ Switches(n) \in Seq(Names) /\ k \in Nat
      /\ \A j \in 1..k : Switches(n)[j] \in Names
  <2>1. Switches(n) \in Seq(Names)
    BY DEF SwitchesEnd
  <2> QED BY <2>1
<1>5. /\ R \in Seq({R[j] : j \in 1..k}) /\ Len(R) = k
      /\ \A j \in 1..k : R[j] = RouteAdd(Uplink[Switches(n)[j]], Address[n], Address[Switches(n)[j]])
  BY <1>4 DEF Routes
<1> HIDE DEF R, k
<1>6. add_network(n) = <<Umount, Mount>> \o (<<MakesPair, PairUp>> \o
          <<MakesBridge, BridgeUp, SetTo("master", None, "nu", n)>> \o
          (<<MoveUp(n)>> \o (<<AddrAbove(n)>> \o R \o last)))
  BY <1>1, <1>2, <1>3, NetworkIs DEF R
<1> DEFINE c1 == Umount  c2 == Mount  c3 == MakesPair  c4 == PairUp  c5 == MakesBridge
           c6 == BridgeUp  c7 == SetTo("master", None, "nu", n)  c8 == MoveUp(n)
           c9 == AddrAbove(n)  d1 == LinkUp(n)  d2 == AddrBridge(n)
           d3 == RouteAdd(None, "default", Address[n])
<1>7. add_network(n) = <<c1, c2>> \o (<<c3, c4>> \o <<c5, c6, c7>> \o
                          (<<c8>> \o (<<c9>> \o R \o <<d1, d2, d3>>)))
  BY <1>6
<1> HIDE DEF c1, c2, c3, c4, c5, c6, c7, c8, c9, d1, d2, d3
<1> DEFINE all == <<c1, c2>> \o (<<c3, c4>> \o <<c5, c6, c7>> \o
                          (<<c8>> \o (<<c9>> \o R \o <<d1, d2, d3>>)))
           tail == <<c9>> \o R \o <<d1, d2, d3>>
<1>8. /\ Len(tail) = k + 4 /\ tail[1] = c9 /\ tail[k + 2] = d1 /\ tail[k + 3] = d2 /\ tail[k + 4] = d3
      /\ \A j \in 1..k : tail[1 + j] = R[j]
      /\ tail \in Seq({c9, d1, d2, d3} \cup {R[j] : j \in 1..k})
  BY <1>4, <1>5
<1>9. all = <<c1, c2>> \o (<<c3, c4>> \o <<c5, c6, c7>> \o (<<c8>> \o tail))
  OBVIOUS
<1> HIDE DEF tail, all
<1>10. /\ Len(all) = k + 12
       /\ all[1] = c1 /\ all[2] = c2 /\ all[3] = c3 /\ all[4] = c4 /\ all[5] = c5 /\ all[6] = c6
       /\ all[7] = c7 /\ all[8] = c8
       /\ \A j \in 1..(k + 4) : all[8 + j] = tail[j]
  BY <1>4, <1>8, <1>9
<1>11. /\ all[9] = c9 /\ all[10 + k] = d1 /\ all[11 + k] = d2 /\ all[12 + k] = d3
       /\ \A j \in 1..k : all[9 + j] = R[j]
  <2>1. all[8 + 1] = c9
    BY <1>4, <1>8, <1>10
  <2>2. all[8 + (k + 2)] = d1 /\ all[8 + (k + 3)] = d2 /\ all[8 + (k + 4)] = d3
    BY <1>4, <1>8, <1>10
  <2>3. \A j \in 1..k : all[8 + (1 + j)] = R[j]
    BY <1>4, <1>8, <1>10
  <2>4. 8 + (k + 2) = 10 + k /\ 8 + (k + 3) = 11 + k /\ 8 + (k + 4) = 12 + k
        /\ \A j \in 1..k : 8 + (1 + j) = 9 + j
    BY <1>4
  <2> QED BY <2>1, <2>2, <2>3, <2>4
<1>12. add_network(n) = all
  BY <1>7 DEF all
<1> QED BY <1>4, <1>5, <1>10, <1>11, <1>12 DEF k, c1, c2, c3, c4, c5, c6, c7, c8, c9, d1, d2, d3

LEMMA SwitchOrder ==
    ASSUME SwitchesEnd, SubnetsDistinct, NEW n \in Names, Connected(n),
           NEW j \in 1..Len(add_network(n)), NEW c, c = add_network(n)[j]
    PROVE  LET k == Len(Switches(n)) IN
           /\ c.do = "routeAdd" =>
                 \/ j = k + 12 /\ c = RouteAdd(None, "default", Address[n])
                 \/ j \in 10..(k + 9) /\ c.to = Address[n] /\ c.to # "default"
           /\ c.do = "addrAdd" => (j = 9 /\ c = AddrAbove(n)) \/ (j = k + 11 /\ c = AddrBridge(n))
           /\ c.do = "up" /\ c.kind = "nd" => j = k + 10 /\ c = LinkUp(n)
           /\ c.do = "move" => j = 8 /\ c = MoveUp(n)
           /\ c.do = "add" => j \in {3, 5}
<1> DEFINE k == Len(Switches(n))
           net == add_network(n)
<1>1. /\ k \in Nat /\ Len(net) = k + 12
      /\ net[1] = Umount /\ net[2] = Mount /\ net[3] = MakesPair /\ net[4] = PairUp
      /\ net[5] = MakesBridge /\ net[6] = BridgeUp
      /\ net[7] = SetTo("master", None, "nu", n)
      /\ net[8] = MoveUp(n) /\ net[9] = AddrAbove(n)
      /\ \A i \in 1..k : net[9 + i] = RouteAdd(Uplink[Switches(n)[i]], Address[n], Address[Switches(n)[i]])
      /\ net[10 + k] = LinkUp(n) /\ net[11 + k] = AddrBridge(n)
      /\ net[12 + k] = RouteAdd(None, "default", Address[n])
  BY SwitchList
<1> HIDE DEF k
<1>2. j \in Nat /\ j >= 1 /\ j <= k + 12
  BY <1>1
<1> HIDE DEF net
<1>3. \/ j \in 1..9 \/ j \in 10..(k + 9) \/ j = k + 10 \/ j = k + 11 \/ j = k + 12
  BY <1>1, <1>2
<1>4. CASE j \in {1, 2, 3, 4}
  BY <1>1, <1>4 DEF net, Umount, Mount, Mounts, MakesPair, LinkAdd, PairUp, Cmd
<1>5. CASE j \in {5, 6, 7}
  BY <1>1, <1>5 DEF net, MakesBridge, LinkAdd, BridgeUp, Cmd, SetTo
<1>6. CASE j \in {8, 9}
  BY <1>1, <1>6 DEF net, MoveUp, SetTo, AddrAbove, Addr
<1>7. CASE j \in 10..(k + 9)
  <2>1. j - 9 \in 1..k /\ 9 + (j - 9) = j
    BY <1>1, <1>2, <1>7
  <2>2. c = RouteAdd(Uplink[Switches(n)[j - 9]], Address[n], Address[Switches(n)[j - 9]])
    BY <1>1, <2>1 DEF net
  <2>3. c.do = "routeAdd" /\ c.to = Address[n] /\ c.to # "default"
    BY <2>2 DEF RouteAdd, SubnetsDistinct
  <2> QED BY <1>7, <2>3 DEF k
<1>8. CASE j = k + 10
  <2>1. c = LinkUp(n)
    BY <1>1, <1>8 DEF net
  <2>2. c.do = "up"
    BY <2>1 DEF LinkUp, Cmd
  <2> QED BY <1>8, <2>1, <2>2 DEF k
<1>9. CASE j = k + 11
  <2>1. c = AddrBridge(n)
    BY <1>1, <1>9 DEF net
  <2>2. c.do = "addrAdd"
    BY <2>1 DEF AddrBridge, Addr
  <2> QED BY <1>9, <2>1, <2>2 DEF k
<1>10. CASE j = k + 12
  <2>1. c = RouteAdd(None, "default", Address[n])
    BY <1>1, <1>10 DEF net
  <2>2. c.do = "routeAdd"
    BY <2>1 DEF RouteAdd
  <2> QED BY <1>10, <2>1, <2>2 DEF k
<1>11. j \in 1..9 => j \in {1, 2, 3, 4} \cup {5, 6, 7} \cup {8, 9}
  OBVIOUS
<1> QED BY <1>3, <1>4, <1>5, <1>6, <1>7, <1>8, <1>9, <1>10, <1>11 DEF k

(* A switch whose uplink or subnet is missing throws before it gets to them. *)
LEMMA UnconnectedSwitch ==
    ASSUME NEW n \in Names, Role[n] = "switch", ~Connected(n)
    PROVE  \A j \in 1..Len(add_network(n)) : LET c == add_network(n)[j] IN
              c.do \notin {"routeAdd", "addrAdd"} /\ ~(c.do = "up" /\ c.kind = "nd")
<1> DEFINE S == {Umount, Mount, MakesPair, PairUp, MakesBridge, BridgeUp,
                 SetTo("master", None, "nu", n), MoveUp(n), Throw[1]}
<1>1. \A c \in S : c.do \notin {"routeAdd", "addrAdd"} /\ ~(c.do = "up" /\ c.kind = "nd")
  BY DEF Umount, Mount, Mounts, MakesPair, MakesBridge, LinkAdd, PairUp, BridgeUp, Cmd, SetTo,
         MoveUp, Throw
<1>2. /\ setup_interfaces = <<MakesPair, PairUp>>
      /\ setup_bridge(n) = <<MakesBridge, BridgeUp, SetTo("master", None, "nu", n)>>
      /\ Throw = <<Throw[1]>>
  BY DEF setup_interfaces, setup_bridge, MakesPair, PairUp, MakesBridge, BridgeUp, Throw
<1>3. Body(n) = setup_interfaces \o setup_bridge(n) \o connect(n)
  BY DEF Body
<1>4. connect(n) = Throw \/ connect(n) = <<MoveUp(n)>> \o Throw
  BY DEF Connected, connect, MoveUp
<1>5. add_network(n) = <<Umount, Mount>> \o (setup_interfaces \o setup_bridge(n) \o connect(n))
  BY <1>3, NetworkIs
<1>6. /\ Umount \in S /\ Mount \in S /\ MakesPair \in S /\ PairUp \in S /\ MakesBridge \in S
      /\ BridgeUp \in S /\ SetTo("master", None, "nu", n) \in S /\ MoveUp(n) \in S /\ Throw[1] \in S
  OBVIOUS
<1> HIDE DEF S
<1>7. connect(n) \in Seq(S)
  <2>1. Throw \in Seq(S)
    <3> DEFINE t == Throw[1]
    <3>1. t \in S /\ Throw = <<t>>
      BY <1>2, <1>6
    <3> HIDE DEF t
    <3>2. <<t>> \in Seq(S)
      BY <3>1
    <3> QED BY <3>1, <3>2
  <2>2. <<MoveUp(n)>> \in Seq(S)
    BY <1>6
  <2>3. <<MoveUp(n)>> \o Throw \in Seq(S)
    BY <2>1, <2>2
  <2> QED BY <1>4, <2>1, <2>3, Zenon
<1>8. <<Umount, Mount>> \in Seq(S) /\ setup_interfaces \in Seq(S) /\ setup_bridge(n) \in Seq(S)
  BY <1>2, <1>6
<1>9. add_network(n) \in Seq(S)
  BY <1>5, <1>7, <1>8
<1> QED BY <1>1, <1>9

(* A switch without a subnet throws. *)
LEMMA NoSubnet ==
    ASSUME SwitchesEnd, NEW n \in Names, Role[n] = "switch", Uplink[n] # None, Address[n] = None
    PROVE  \E j \in 1..Len(add_network(n)) : add_network(n)[j] = Throw[1]
<1> DEFINE B == Body(n)  pre == <<MakesPair, PairUp>> \o <<MakesBridge, BridgeUp, SetTo("master", None, "nu", n)>>
           m == MoveUp(n)  t == Throw[1]  con == connect(n)  S == Setups(n)
<1>1. con = <<m>> \o <<t>>
  BY DEF connect, MoveUp, Throw
<1>2. B = pre \o con
  BY DEF Body, setup_interfaces, setup_bridge, MakesPair, PairUp, MakesBridge, BridgeUp
<1>3. pre \in Seq({MakesPair, PairUp, MakesBridge, BridgeUp, SetTo("master", None, "nu", n)}) /\ Len(pre) = 5
  OBVIOUS
<1> DEFINE P == {MakesPair, PairUp, MakesBridge, BridgeUp, SetTo("master", None, "nu", n)}
<1>4. pre \in Seq(P) /\ Len(pre) = 5
  BY <1>3
<1> HIDE DEF P, pre, m, t, con, B, S
<1>5. con \in Seq({m, t}) /\ Len(con) = 2 /\ con[2] = t
  BY <1>1
<1>6. Len(pre \o con) = 7 /\ (pre \o con)[7] = t
  <2> DEFINE Q == P \cup {m, t}
  <2>1. pre \in Seq(Q) /\ con \in Seq(Q)
    BY <1>4, <1>5
  <2> HIDE DEF Q
  <2>2. Len(pre) = 5 /\ Len(con) = 2
    BY <1>4, <1>5
  <2>3. \A i \in 1..Len(con) : (pre \o con)[Len(pre) + i] = con[i]
    BY <2>1
  <2>4. Len(pre \o con) = Len(pre) + Len(con)
    BY <2>1
  <2>5. (pre \o con)[5 + 2] = con[2]
    <3> DEFINE all == pre \o con
    <3> HIDE DEF all
    <3>1. \A i \in 1..2 : all[5 + i] = con[i]
      BY <2>2, <2>3 DEF all
    <3>2. all[5 + 2] = con[2]
      BY <3>1
    <3> QED BY <3>2 DEF all
  <2> QED BY <1>5, <2>2, <2>4, <2>5
<1>7. B \in Seq(S)
  BY BodyFacts DEF B, S
<1> DEFINE u == Umount  w == Mount
<1>8. add_network(n) = <<u, w>> \o B
  BY NetworkIs DEF B
<1> HIDE DEF u, w
<1>9. Len(<<u, w>> \o B) = 9 /\ (<<u, w>> \o B)[9] = t
  BY <1>2, <1>6, <1>7
<1> QED BY <1>8, <1>9 DEF t

(* What is no switch and no client does no more than add a pair. *)
LEMMA OtherRoles ==
    ASSUME SwitchesEnd, NEW n \in Names, Role[n] \notin {"switch", "client"}
    PROVE  LET net == add_network(n) IN
           \/ Len(net) = 2
           \/ Len(net) = 3 /\ net[3] = Throw[1]
           \/ Len(net) >= 5 /\ net[3] = MakesPair /\ net[4] = PairUp /\ net[5] = Throw[1]
<1> DEFINE B == Body(n)  con == connect(n)
<1>1. Role[n] \in {"root", "interface", "router"}
  BY EntitydAssumption DEF Roles
<1>2. /\ setup_interfaces = <<MakesPair, PairUp>> /\ setup_nft = <<Throw[1]>> /\ Throw = <<Throw[1]>>
  BY DEF setup_interfaces, setup_nft, MakesPair, PairUp, Throw
<1>3. B = <<>> \/ B = <<Throw[1]>> \/ B = <<MakesPair, PairUp>> \o <<Throw[1]>> \o con
  BY <1>1, <1>2 DEF Body
<1>4. con \in Seq(Joins(n) \cup {Throw[1]})
  BY ConnectFacts
<1>5. B \in Seq(Setups(n))
  BY BodyFacts
<1> DEFINE a == MakesPair  b == PairUp  t == Throw[1]  J == Joins(n) \cup {Throw[1]}  S == Setups(n)
           u == Umount  m == Mount
<1>6. B = <<>> \/ B = <<t>> \/ B = <<a, b>> \o <<t>> \o con
  BY <1>3
<1> HIDE DEF a, b, t, J, S, B, con, u, m
<1>7. \/ Len(B) = 0 \/ (Len(B) = 1 /\ B[1] = t) \/ (Len(B) >= 3 /\ B[1] = a /\ B[2] = b /\ B[3] = t)
  <2>1. con \in Seq(J)
    BY <1>4 DEF J
  <2> DEFINE all == <<a, b>> \o <<t>> \o con
  <2>2. Len(all) >= 3 /\ all[1] = a /\ all[2] = b /\ all[3] = t
    BY <2>1
  <2> HIDE DEF all
  <2> QED BY <1>6, <2>2 DEF all
<1>8. B \in Seq(S)
  BY <1>5 DEF S, B
<1> DEFINE net == <<u, m>> \o B
<1>9. Len(net) = Len(B) + 2 /\ \A j \in 1..Len(B) : net[j + 2] = B[j]
  BY <1>8
<1>10. add_network(n) = net
  BY NetworkIs DEF u, m, B
<1> HIDE DEF net
<1>11. \/ Len(net) = 2 \/ (Len(net) = 3 /\ net[3] = t)
       \/ (Len(net) >= 5 /\ net[3] = a /\ net[4] = b /\ net[5] = t)
  <2>1. CASE Len(B) = 0
    BY <1>9, <2>1
  <2>2. CASE Len(B) = 1 /\ B[1] = t
    <3>1. net[1 + 2] = B[1]
      BY <1>9, <2>2
    <3> QED BY <1>9, <2>2, <3>1
  <2>3. CASE Len(B) >= 3 /\ B[1] = a /\ B[2] = b /\ B[3] = t
    <3>1. Len(B) \in Nat
      BY <1>8
    <3>2. net[1 + 2] = B[1] /\ net[2 + 2] = B[2] /\ net[3 + 2] = B[3]
      BY <1>9, <2>3, <3>1
    <3> QED BY <1>9, <2>3, <3>1, <3>2
  <2> QED BY <1>7, <2>1, <2>2, <2>3
<1> QED BY <1>10, <1>11 DEF a, b, t

(* Who has not thrown has its addresses from its subnet, or from that of its switch. *)
LEMMA AddressList ==
    ASSUME SwitchesEnd, SubnetsDistinct, NEW n \in Names, NEW j \in 1..Len(add_network(n)),
           add_network(n)[j].do = "addrAdd",
           \A i \in 1..j : add_network(n)[i] # Throw[1]
    PROVE  LET c == add_network(n)[j] IN
           \/ c \in {AddrAbove(n), AddrBridge(n)}
           \/ Role[n] = "client" /\ c = AddrClient(n)
<1> DEFINE net == add_network(n)  c == add_network(n)[j]
<1>1. /\ Umount.do # "addrAdd" /\ Mount.do # "addrAdd" /\ MakesPair.do # "addrAdd"
      /\ PairUp.do # "addrAdd" /\ Throw[1].do # "addrAdd"
  BY DEF Umount, Mount, Mounts, MakesPair, LinkAdd, PairUp, Cmd, Throw
<1>2. /\ Len(net) \in Nat /\ net[1] = Umount /\ net[2] = Mount
      /\ \A i \in 3..Len(net) : net[i] \in Setups(n)
  BY NetworkFacts
<1>3. j \in Nat /\ j >= 3 /\ c \in Setups(n)
  BY <1>1, <1>2
<1>4. c \in {AddrAbove(n), AddrBridge(n), AddrClient(n)} /\ (c = AddrAbove(n) \/ c = AddrBridge(n) \/ c = AddrClient(n))
  <2>1. c \in Makes(n) => c.do # "addrAdd"
    BY DEF Makes, PairUp, BridgeUp, Cmd, SetTo, Throw, MakesPair, MakesBridge, LinkAdd
  <2>2. c \in Joins(n) => c.do # "addrAdd" \/ c \in {AddrAbove(n), AddrBridge(n), AddrClient(n)}
    BY DEF Joins, LinkUp, Cmd, SetTo, RouteAdd, MoveUp
  <2> QED BY <1>3, <2>1, <2>2 DEF Setups
<1>5. CASE Role[n] = "client"
  BY <1>4, <1>5
<1>6. CASE Role[n] = "switch"
  <2>1. Connected(n)
    BY <1>6, UnconnectedSwitch
  <2>2. c = AddrAbove(n) \/ c = AddrBridge(n)
    BY <2>1, SwitchOrder
  <2> QED BY <2>2
<1>7. CASE Role[n] \notin {"switch", "client"}
  <2> HIDE DEF net
  <2>1. \/ Len(net) = 2 \/ (Len(net) = 3 /\ net[3] = Throw[1])
        \/ (Len(net) >= 5 /\ net[3] = MakesPair /\ net[4] = PairUp /\ net[5] = Throw[1])
    BY <1>7, OtherRoles DEF net
  <2>2. j <= Len(net) /\ net[j].do = "addrAdd" /\ \A i \in 1..j : net[i] # Throw[1]
    BY <1>2 DEF net
  <2>3. Len(net) = 2 => FALSE
    BY <1>3, <2>2
  <2>4. ASSUME Len(net) = 3, net[3] = Throw[1] PROVE FALSE
    <3>1. j = 3
      BY <1>3, <2>2, <2>4
    <3> QED BY <1>1, <2>2, <2>4, <3>1
  <2>5. ASSUME net[3] = MakesPair, net[4] = PairUp, net[5] = Throw[1] PROVE FALSE
    <3>1. j # 3 /\ j # 4
      BY <1>1, <2>2, <2>5
    <3>2. 5 \in 1..j
      BY <1>3, <3>1
    <3> QED BY <2>2, <2>5, <3>2
  <2> QED BY <2>1, <2>3, <2>4, <2>5
<1> QED BY <1>5, <1>6, <1>7

-----------------------------------------------------------------------------
(* The links and routes of the processes at work. *)

(* The bridge of a switch is as far as its process has got. *)
BridgeOK(p) ==
    Working(p) =>
        /\ Past(p, MakesBridge) => loc[nb(p)] = p
        /\ Past(p, BridgeUp) => nb(p) \in up
        /\ Past(p, AddrBridge(p[1])) => <<nb(p), <<Address[p[1]], 2>>>> \in addrs

(* Who moved its link away is going to take it back. *)
MovedOwes(p) ==
    Working(p) /\ Past(p, MoveUp(p[1])) => Pending(p, MoveBack(p[1]))

NoThrow(p) == Working(p) => ~Past(p, Throw[1])

(* Every address is one that the process of its link has assigned. *)
AddrOK(a) ==
    \E p \in Procs :
        LET n == p[1] IN
        \/ a = <<nd(p), <<Address[n], 1>>>>
        \/ a = <<nb(p), <<Address[n], 2>>>> /\ (Working(p) => Past(p, AddrBridge(n)))
        \/ Role[n] = "client" /\ a = <<nu(p), <<Address[Uplink[n]], 3>>>>

(* The default route of a switch is the last thing it sets up. *)
DefaultOK(r) ==
    r.to = "default" =>
        \A p \in Procs : r.in = p /\ Role[p[1]] = "switch" =>
            /\ state[p] \notin {"none", "idle"}
            /\ state[p] = "adding" => todo[p] = <<>>

(* The link of a switch to its uplink is up only as long as its process is, or has been. *)
NdUp(p) ==
    Role[p[1]] = "switch" /\ nd(p) \in up =>
        /\ state[p] \notin {"none", "idle"}
        /\ state[p] = "aborted" => "command" \in Faults
        /\ Working(p) => Past(p, LinkUp(p[1]))

(* The route to p over its uplink q is there, as long as q is connected. *)
RouteIn(p) ==
    \A q \in Procs :
        /\ Connected(p[1]) /\ Connected(q[1]) /\ q[1] = Uplink[p[1]]
        /\ Working(p) /\ Working(q) /\ loc[nd(p)] = q
        /\ Past(p, RouteAdd(Uplink[q[1]], Address[p[1]], Address[q[1]]))
        =>
        /\ Past(q, LinkUp(q[1]))
        /\ loc[nd(q)] # None =>
              [in |-> loc[nd(q)], to |-> Address[p[1]], dev |-> nd(q)] \in routes

Sound ==
    /\ \A p \in Procs : BridgeOK(p) /\ MovedOwes(p) /\ NoThrow(p) /\ NdUp(p) /\ RouteIn(p)
    /\ \A a \in addrs : AddrOK(a)
    /\ \A r \in routes : DefaultOK(r)

(* The process has done what it had done before, or is about to begin. *)
Steady(p) ==
    /\ Working(p)' => \/ Working(p) /\ todo'[p] = todo[p] /\ cleanups'[p] = cleanups[p]
                      \/ state[p] = "idle" /\ Done(p)' = 0
    /\ state[p] \notin {"none", "idle"} => state'[p] \notin {"none", "idle"}

(* Links, addresses and routes go, but not those of a process at work. *)
Spares ==
    /\ up' \subseteq up /\ addrs' \subseteq addrs /\ routes' \subseteq routes
    /\ \A p \in Procs : Working(p) =>
          /\ loc'[nd(p)] \in {None, loc[nd(p)]}
          /\ loc[nb(p)] = p => loc'[nb(p)] = p
          /\ nb(p) \in up => nb(p) \in up'
          /\ \A v : <<nb(p), v>> \in addrs => <<nb(p), v>> \in addrs'
          /\ \A r \in routes, q \in Procs :
                Working(q) /\ Connected(q[1]) /\ r.dev = nd(p) /\ r.to = Address[q[1]]
                    /\ loc'[nd(p)] # None => r \in routes'

LEMMA PastFrame ==
    ASSUME NEW p, todo'[p] = todo[p]
    PROVE  \A c : Past(p, c)' <=> Past(p, c)
BY DEF Past, Done

LEMMA SteadyPast ==
    ASSUME NEW p, Steady(p), Working(p)', NEW c, Past(p, c)'
    PROVE  Working(p) /\ Past(p, c) /\ todo'[p] = todo[p] /\ cleanups'[p] = cleanups[p]
<1>1. Done(p)' # 0
  BY DEF Past
<1> QED BY <1>1, PastFrame DEF Steady

LEMMA SoundSpared ==
    ASSUME AllOwn, Base, Tidy, Sound, Spares,
           \A p \in Procs : Steady(p),
           \A p \in Procs : Role[p[1]] = "switch" /\ nd(p) \in up /\ state'[p] = "aborted" =>
                               state[p] = "aborted" \/ "command" \in Faults
    PROVE  Sound'
<1>1. ASSUME NEW p \in Procs PROVE BridgeOK(p)'
  <2>1. BridgeOK(p)
    BY DEF Sound
  <2>2. SUFFICES ASSUME Working(p)'
                 PROVE  /\ Past(p, MakesBridge)' => loc'[nb(p)] = p
                        /\ Past(p, BridgeUp)' => nb(p) \in up'
                        /\ Past(p, AddrBridge(p[1]))' => <<nb(p), <<Address[p[1]], 2>>>> \in addrs'
    BY DEF BridgeOK, Working, nb, MakesBridge, BridgeUp, AddrBridge, LinkAdd, Cmd, Addr
  <2>3. \A c : Past(p, c)' => Working(p) /\ Past(p, c)
    BY <2>2, SteadyPast
  <2> QED BY <2>1, <2>3 DEF BridgeOK, Spares
<1>2. ASSUME NEW p \in Procs PROVE MovedOwes(p)' /\ NoThrow(p)'
  <2>1. MovedOwes(p) /\ NoThrow(p)
    BY DEF Sound
  <2>2. ASSUME NEW c, Working(p)', Past(p, c)'
        PROVE  Working(p) /\ Past(p, c) /\ cleanups'[p] = cleanups[p]
    BY <2>2, SteadyPast
  <2>3. ASSUME Working(p)', Past(p, MoveUp(p[1]))' PROVE Pending(p, MoveBack(p[1]))'
    <3>1. Working(p) /\ Past(p, MoveUp(p[1])) /\ cleanups'[p] = cleanups[p]
      BY <2>2, <2>3
    <3>2. Pending(p, MoveBack(p[1]))
      BY <2>1, <3>1 DEF MovedOwes
    <3>3. state[p] # "cleaning"
      BY <3>1 DEF Working
    <3> QED BY <3>1, <3>2, <3>3 DEF Pending
  <2>4. Working(p)' => ~Past(p, Throw[1])'
    BY <2>1, <2>2 DEF NoThrow
  <2> QED BY <2>3, <2>4 DEF MovedOwes, NoThrow, MoveUp, MoveBack, SetTo, Throw
<1>3. ASSUME NEW p \in Procs PROVE NdUp(p)'
  <2>1. NdUp(p) /\ Steady(p)
    BY DEF Sound
  <2>2. SUFFICES ASSUME Role[p[1]] = "switch", nd(p) \in up'
                 PROVE  /\ state'[p] \notin {"none", "idle"}
                        /\ state'[p] = "aborted" => "command" \in Faults
                        /\ Working(p)' => Past(p, LinkUp(p[1]))'
    BY DEF NdUp, nd
  <2>3. nd(p) \in up
    BY <2>2 DEF Spares
  <2>4. /\ state[p] \notin {"none", "idle"}
        /\ state[p] = "aborted" => "command" \in Faults
        /\ Working(p) => Past(p, LinkUp(p[1]))
    BY <2>1, <2>2, <2>3 DEF NdUp
  <2>5. Working(p)' => Working(p) /\ todo'[p] = todo[p]
    BY <2>1, <2>4 DEF Steady
  <2>6. Working(p)' => Past(p, LinkUp(p[1]))'
    BY <2>4, <2>5, PastFrame
  <2> QED BY <2>1, <2>2, <2>3, <2>4, <2>6 DEF Steady
<1>4. ASSUME NEW p \in Procs PROVE RouteIn(p)'
  <2>1. SUFFICES ASSUME NEW q \in Procs,
                        Connected(p[1]), Connected(q[1]), q[1] = Uplink[p[1]],
                        Working(p)', Working(q)', loc'[nd(p)] = q,
                        Past(p, RouteAdd(Uplink[q[1]], Address[p[1]], Address[q[1]]))'
                 PROVE  /\ Past(q, LinkUp(q[1]))'
                        /\ loc'[nd(q)] # None =>
                              [in |-> loc'[nd(q)], to |-> Address[p[1]], dev |-> nd(q)] \in routes'
    BY DEF RouteIn, Connected, nd, RouteAdd, LinkUp, Cmd
  <2>2. /\ Working(p)
        /\ Past(p, RouteAdd(Uplink[q[1]], Address[p[1]], Address[q[1]]))
    BY <2>1, SteadyPast
  <2>3. loc[nd(p)] = q
    <3>1. q # None
      BY OwnNetns
    <3> QED BY <2>1, <2>2, <3>1 DEF Spares
  <2>4. state[q] \notin {"none", "idle"}
    <3>1. state[p] # "none"
      BY <2>2 DEF Working
    <3>2. q # p /\ q # None
      BY <2>1, <3>1, OwnNetns DEF Tidy, NoSelf
    <3>3. Visited(loc[nd(p)])
      BY <2>3, <3>2 DEF Tidy, LinkOK
    <3> QED BY <2>3, <3>3 DEF Visited
  <2>5. Working(q) /\ todo'[q] = todo[q]
    BY <2>1, <2>4 DEF Steady
  <2>6. /\ Past(q, LinkUp(q[1]))
        /\ loc[nd(q)] # None =>
              [in |-> loc[nd(q)], to |-> Address[p[1]], dev |-> nd(q)] \in routes
    BY <2>1, <2>2, <2>3, <2>5 DEF Sound, RouteIn
  <2>7. Past(q, LinkUp(q[1]))'
    BY <2>5, <2>6, PastFrame
  <2>8. ASSUME loc'[nd(q)] # None
        PROVE  [in |-> loc'[nd(q)], to |-> Address[p[1]], dev |-> nd(q)] \in routes'
    <3>1. loc'[nd(q)] = loc[nd(q)]
      BY <2>5, <2>8 DEF Spares
    <3> DEFINE r == [in |-> loc[nd(q)], to |-> Address[p[1]], dev |-> nd(q)]
    <3>2. r \in routes /\ r.dev = nd(q) /\ r.to = Address[p[1]]
      BY <2>6, <2>8, <3>1
    <3> HIDE DEF r
    <3>3. r \in routes'
      BY <2>1, <2>2, <2>5, <2>8, <3>2 DEF Spares
    <3> QED BY <3>1, <3>3 DEF r
  <2> QED BY <2>7, <2>8
<1>5. ASSUME NEW a \in addrs' PROVE AddrOK(a)'
  <2>1. AddrOK(a)
    BY DEF Sound, Spares
  <2>2. PICK p \in Procs :
           \/ a = <<nd(p), <<Address[p[1]], 1>>>>
           \/ a = <<nb(p), <<Address[p[1]], 2>>>> /\ (Working(p) => Past(p, AddrBridge(p[1])))
           \/ Role[p[1]] = "client" /\ a = <<nu(p), <<Address[Uplink[p[1]]], 3>>>>
    BY <2>1 DEF AddrOK
  <2>3. CASE a = <<nd(p), <<Address[p[1]], 1>>>> \/ (Role[p[1]] = "client" /\ a = <<nu(p), <<Address[Uplink[p[1]]], 3>>>>)
    BY <2>3 DEF AddrOK, nd, nu
  <2>4. CASE a = <<nb(p), <<Address[p[1]], 2>>>> /\ (Working(p) => Past(p, AddrBridge(p[1])))
    <3>1. ASSUME Working(p)' PROVE Past(p, AddrBridge(p[1]))'
      <4>1. a[1] = <<p, "nb">> /\ a \in addrs
        BY <2>4 DEF nb, Spares
      <4>2. loc[<<p, "nb">>] # None
        BY <4>1 DEF Base, NetOK
      <4>3. state[p] # "idle"
        BY <4>2 DEF Base, AddedOK
      <4>4. Working(p) /\ todo'[p] = todo[p]
        BY <3>1, <4>3 DEF Steady
      <4> QED BY <2>4, <4>4, PastFrame
    <3>2. a = <<nb(p), <<Address[p[1]], 2>>>>
      BY <2>4
    <3> QED BY <3>1, <3>2 DEF AddrOK, nb, AddrBridge, Addr
  <2> QED BY <2>2, <2>3, <2>4
<1>6. ASSUME NEW r \in routes' PROVE DefaultOK(r)'
  <2>1. DefaultOK(r)
    BY DEF Sound, Spares
  <2>2. SUFFICES ASSUME r.to = "default", NEW p \in Procs, r.in = p, Role[p[1]] = "switch"
                 PROVE  /\ state'[p] \notin {"none", "idle"}
                        /\ state'[p] = "adding" => todo'[p] = <<>>
    BY DEF DefaultOK
  <2>3. /\ state[p] \notin {"none", "idle"}
        /\ state[p] = "adding" => todo[p] = <<>>
    BY <2>1, <2>2 DEF DefaultOK
  <2>4. state[p] \notin {"adding", "cleaning"} => todo[p] = <<>>
    BY DEF Base, ListsOK
  <2> QED BY <2>3, <2>4 DEF Steady, Working
<1> QED BY <1>1, <1>2, <1>3, <1>4, <1>5, <1>6 DEF Sound

LEMMA SparesAll ==
    ASSUME UNCHANGED netns
    PROVE  Spares
BY DEF Spares, netns

LEMMA SteadyFrame ==
    ASSUME NEW q, state'[q] = state[q], todo'[q] = todo[q], cleanups'[q] = cleanups[q]
    PROVE  Steady(q)
BY DEF Steady, Working

LEMMA SoundQuiet ==
    ASSUME AllOwn, Base, Tidy, Sound, UNCHANGED netns, NEW p \in Procs,
           \A q \in Procs : q # p =>
               state'[q] = state[q] /\ todo'[q] = todo[q] /\ cleanups'[q] = cleanups[q],
           Steady(p),
           Role[p[1]] = "switch" /\ nd(p) \in up /\ state'[p] = "aborted" =>
               state[p] = "aborted" \/ "command" \in Faults
    PROVE  Sound'
<1>1. \A q \in Procs : Steady(q)
  BY SteadyFrame
<1>2. \A q \in Procs : Role[q[1]] = "switch" /\ nd(q) \in up /\ state'[q] = "aborted" =>
                           state[q] = "aborted" \/ "command" \in Faults
  OBVIOUS
<1> QED BY <1>1, <1>2, SparesAll, SoundSpared

LEMMA SpawnSound ==
    ASSUME AllOwn, Base, Tidy, Sound, NEW p \in Procs, Spawn(p)
    PROVE  Sound'
<1>1. /\ UNCHANGED <<netns, todo, cleanups>> /\ state[p] = "none"
      /\ state' = [state EXCEPT ![p] = "idle"] /\ DOMAIN state = Procs
  BY DEF Spawn, Goes, Base
<1>2. state'[p] = "idle" /\ \A q \in Procs : q # p => state'[q] = state[q]
  BY <1>1
<1>3. Steady(p)
  BY <1>1, <1>2 DEF Steady, Working
<1> QED BY <1>1, <1>2, <1>3, SoundQuiet

LEMMA AddComponentSound ==
    ASSUME SwitchesEnd, AllOwn, Base, Tidy, Sound, NEW p \in Procs, AddComponent(p)
    PROVE  Sound'
<1>1. /\ UNCHANGED <<netns, cleanups>> /\ state[p] = "idle"
      /\ state' = [state EXCEPT ![p] = "adding"] /\ DOMAIN state = Procs
      /\ todo' = [todo EXCEPT ![p] = add_network(p[1])] /\ todo \in [Procs -> Seq(Commands)]
  BY DEF AddComponent, Goes, Base
<1>2. /\ state'[p] = "adding" /\ todo'[p] = add_network(p[1])
      /\ \A q \in Procs : q # p => state'[q] = state[q] /\ todo'[q] = todo[q]
  BY <1>1
<1>3. Len(add_network(p[1])) \in Nat
  BY NetworkFacts DEF Procs
<1>4. Done(p)' = 0
  <2>1. Done(p)' = Len(add_network(p[1])) - Len(todo'[p])
    BY DEF Done
  <2> QED BY <1>2, <1>3, <2>1
<1>5. Steady(p)
  BY <1>1, <1>2, <1>4 DEF Steady
<1> QED BY <1>1, <1>2, <1>5, SoundQuiet

LEMMA AnswersSound ==
    ASSUME AllOwn, Base, Tidy, Sound, NEW p \in Procs, Answers(p)
    PROVE  Sound'
<1>1. /\ UNCHANGED <<netns, todo, cleanups>> /\ state[p] = "adding"
      /\ state' = [state EXCEPT ![p] = "up"] /\ DOMAIN state = Procs
  BY DEF Answers, Goes, Base
<1>2. state'[p] = "up" /\ \A q \in Procs : q # p => state'[q] = state[q]
  BY <1>1
<1>3. Steady(p)
  BY <1>1, <1>2 DEF Steady, Working
<1> QED BY <1>1, <1>2, <1>3, SoundQuiet

LEMMA ExitsSound ==
    ASSUME AllOwn, Base, Tidy, Sound, NEW p \in Procs, Exits(p)
    PROVE  Sound'
<1>1. /\ UNCHANGED <<netns, todo, cleanups>>
      /\ state' = [state EXCEPT ![p] = "exited"] /\ DOMAIN state = Procs
  BY DEF Exits, Goes, Base
<1>2. state'[p] = "exited" /\ \A q \in Procs : q # p => state'[q] = state[q]
  BY <1>1
<1>3. Steady(p)
  BY <1>1, <1>2 DEF Steady, Working
<1> QED BY <1>1, <1>2, <1>3, SoundQuiet

LEMMA RunsCleanupsSound ==
    ASSUME AllOwn, Base, Tidy, Sound, NEW p \in Procs, RunsCleanups(p), state[p] \in {"idle", "up"}
    PROVE  Sound'
<1>1. /\ UNCHANGED netns
      /\ state' = [state EXCEPT ![p] = "cleaning"] /\ DOMAIN state = Procs
      /\ todo' = [todo EXCEPT ![p] = Reverse(cleanups[p])] /\ todo \in [Procs -> Seq(Commands)]
      /\ cleanups' = [cleanups EXCEPT ![p] = <<>>] /\ cleanups \in [Procs -> Seq(Commands)]
  BY RunsCleanupsFacts DEF Base
<1>2. /\ state'[p] = "cleaning"
      /\ \A q \in Procs : q # p =>
            state'[q] = state[q] /\ todo'[q] = todo[q] /\ cleanups'[q] = cleanups[q]
  BY <1>1
<1>3. Steady(p)
  BY <1>1, <1>2 DEF Steady, Working
<1> QED BY <1>1, <1>2, <1>3, SoundQuiet

LEMMA NoProcSound ==
    ASSUME AllOwn, Base, Tidy, Sound, UNCHANGED <<netns, state, todo, cleanups>>
    PROVE  Sound'
<1>1. \A q \in Procs : Steady(q)
  BY SteadyFrame
<1> QED BY <1>1, SparesAll, SoundSpared

LEMMA KernelReapsSound ==
    ASSUME AllOwn, Base, Tidy, Sound, NEW s \in Procs, KernelReaps(s)
    PROVE  Sound'
<1> DEFINE gone == WithPeers({l \in Links : loc[l] = s})
<1>1. /\ UNCHANGED <<daemon, state, todo, cleanups, answer>> /\ ~Kept(s)
      /\ loc' = [l \in Links |-> IF l \in gone THEN None ELSE loc[l]]
      /\ up' = up \ gone
      /\ addrs' = {a \in addrs : a[1] \notin gone}
      /\ routes' = {r \in routes : r.dev \notin gone}
  BY DEF KernelReaps, Reap, Delete, procs
<1>2. \A q \in Procs : Steady(q)
  BY <1>1, SteadyFrame
<1>3. ASSUME NEW p \in Procs, Working(p)
      PROVE  nb(p) \notin gone
  <2>1. p # s /\ p # None
    BY <1>1, <1>3, OwnNetns DEF Kept, Working, Alive
  <2>2. loc[nb(p)] # s
    <3>1. s # None
      BY OwnNetns
    <3> QED BY <2>1, <3>1 DEF Tidy, LinkOK
  <2> QED BY <2>2 DEF WithPeers, nb
<1>4. ASSUME NEW p \in Procs PROVE nd(p) \in Links /\ nb(p) \in Links
  BY OwnNetns
<1> HIDE DEF gone
<1>5. Spares
  BY <1>1, <1>3, <1>4 DEF Spares
<1> QED BY <1>1, <1>2, <1>5, SoundSpared

(* A cleanup takes away, of the links of other entities, only the routes to its own subnet. *)
LEMMA CleansNet ==
    ASSUME AllOwn, Base, NEW x \in Procs, NEW c \in Undos(x[1]) \cup {Umount},
           Possible(x, c), Effect(x, c)
    PROVE  /\ up' \subseteq up /\ addrs' \subseteq addrs /\ routes' \subseteq routes
           /\ \A l \in Links : l[1][1] # x[1] =>
                 /\ loc'[l] = loc[l]
                 /\ l \in up => l \in up'
                 /\ \A v : <<l, v>> \in addrs => <<l, v>> \in addrs'
                 /\ \A r \in routes : r.dev = l /\ r.to \notin {"default", Address[x[1]]} => r \in routes'
<1>1. x[1] \in Names
  BY DEF Procs
<1>2. \A l \in Link(x, c) : l \in Links /\ l[1][1] = x[1]
  BY LinkIs
<1>3. CASE c.do = "umount"
  BY <1>3, EffectFacts
<1>4. CASE c.do = "del"
  <2> DEFINE gone == WithPeers(Link(x, c))
  <2>1. /\ loc' = [l \in Links |-> IF l \in gone THEN None ELSE loc[l]]
        /\ up' = up \ gone
        /\ addrs' = {a \in addrs : a[1] \notin gone}
        /\ routes' = {r \in routes : r.dev \notin gone}
    BY <1>4, EffectFacts DEF Delete
  <2>2. \A l \in gone : l[1][1] = x[1]
    <3>1. \A l \in Links : \A e : <<l[1], e>> \in Link(x, c) => l[1][1] = x[1]
      BY <1>2
    <3> QED BY <1>2, <3>1 DEF WithPeers
  <2> HIDE DEF gone
  <2> QED BY <2>1, <2>2
<1>5. CASE c.do = "move"
  <2>1. PICK l \in Link(x, c) : Move(l, mnt[c.to])
    BY <1>5, EffectFacts
  <2>2. \A k \in Links : k[1][1] # x[1] => k # l
    BY <1>2
  <2>3. /\ loc' = [loc EXCEPT ![l] = mnt[c.to]]
        /\ up' = up \ {l}
        /\ addrs' = {a \in addrs : a[1] # l}
        /\ routes' = {r \in routes : r.dev # l}
    BY <2>1 DEF Move
  <2>4. DOMAIN loc = Links
    BY DEF Base, NetOK
  <2> QED BY <2>2, <2>3, <2>4
<1>6. CASE c.do = "addrDel"
  <2>1. /\ UNCHANGED <<mnt, loc, up, ports>>
        /\ \E l \in Link(x, c) : DropAddress(l, c.addr)
    BY <1>6, EffectFacts
  <2>2. PICK l \in Link(x, c) : DropAddress(l, c.addr)
    BY <2>1
  <2>3. \A k \in Links : k[1][1] # x[1] => k # l
    BY <1>2
  <2>4. addrs' = addrs \ {<<l, c.addr>>} /\ routes' \subseteq routes
        /\ \A r \in routes : r.dev # l => r \in routes'
    BY <2>2 DEF DropAddress
  <2> QED BY <2>1, <2>3, <2>4
<1>7. CASE c.do = "down"
  <2>1. /\ up' = up \ Link(x, c)
        /\ routes' = {r \in routes : r.dev \notin Link(x, c)}
        /\ UNCHANGED <<mnt, loc, ports, addrs>>
    BY <1>7, EffectFacts
  <2> QED BY <1>2, <2>1
<1>8. CASE c.do = "routeDel" /\ c.to \in {"default", Address[x[1]]}
  <2>1. routes' = routes \ Routed(Where(x, c), c.to) /\ UNCHANGED <<mnt, loc, up, ports, addrs>>
    BY <1>8, EffectFacts
  <2>2. \A r \in Routed(Where(x, c), c.to) : r.to = c.to
    BY DEF Routed
  <2> QED BY <1>8, <2>1, <2>2
<1>9. c = Umount => c.do = "umount"
  BY DEF Umount, Mounts
<1>10. c = MoveBack(x[1]) => c.do = "move"
  BY DEF MoveBack, SetTo
<1> QED BY <1>1, <1>3, <1>4, <1>5, <1>6, <1>7, <1>8, <1>9, <1>10, UndoCases

LEMMA CleansSound ==
    ASSUME AllOwn, SubnetsDistinct, Base, Tidy, Sound, NEW x \in Procs, Cleans(x)
    PROVE  Sound'
<1> DEFINE c == Head(todo[x])
<1>1. /\ state[x] = "cleaning" /\ UNCHANGED <<daemon, state, cleanups, answer>>
      /\ Possible(x, c) => Effect(x, c)
      /\ ~Possible(x, c) => UNCHANGED netns
      /\ c \in Undos(x[1]) \cup {Umount}
      /\ \A q \in Procs : q # x => todo'[q] = todo[q]
  <2>1. \A q \in Procs : q # x => todo'[q] = todo[q]
    BY CleansProc
  <2> QED BY <2>1, CleansFacts
<1> HIDE DEF c
<1>2. \A q \in Procs : Steady(q)
  <2>1. Steady(x)
    BY <1>1 DEF Steady, Working
  <2> QED BY <1>1, <2>1, SteadyFrame
<1>3. CASE ~Possible(x, c)
  BY <1>1, <1>2, <1>3, SparesAll, SoundSpared
<1>4. CASE Possible(x, c)
  <2>1. /\ up' \subseteq up /\ addrs' \subseteq addrs /\ routes' \subseteq routes
        /\ \A l \in Links : l[1][1] # x[1] =>
              /\ loc'[l] = loc[l]
              /\ l \in up => l \in up'
              /\ \A v : <<l, v>> \in addrs => <<l, v>> \in addrs'
              /\ \A r \in routes : r.dev = l /\ r.to \notin {"default", Address[x[1]]} => r \in routes'
    BY <1>1, <1>4, CleansNet
  <2>2. ASSUME NEW p \in Procs, Working(p)
        PROVE  p[1] # x[1]
    BY <1>1, <2>2, OneAlive DEF Tidy, Working, Alive
  <2>3. ASSUME NEW p \in Procs
        PROVE  nd(p) \in Links /\ nb(p) \in Links /\ nd(p)[1][1] = p[1] /\ nb(p)[1][1] = p[1]
    BY OwnNetns DEF nd, nb
  <2>4. ASSUME NEW q \in Procs, Working(q), Connected(q[1])
        PROVE  Address[q[1]] \notin {"default", Address[x[1]]}
    BY <2>2, <2>4 DEF SubnetsDistinct, Connected, Procs
  <2>5. Spares
    BY <2>1, <2>2, <2>3, <2>4 DEF Spares
  <2> QED BY <1>1, <1>2, <2>5, SoundSpared
<1> QED BY <1>3, <1>4

(* What a switch has done, by how many commands it has executed. *)
LEMMA SwitchPast ==
    ASSUME SwitchesEnd, SubnetsDistinct, Base, NEW p \in Procs, Connected(p[1]), Working(p),
           NEW k, k = Len(Switches(p[1]))
    PROVE  /\ k \in Nat /\ Done(p) \in Nat /\ Done(p) <= k + 12
           /\ Done(p) >= 5 => Past(p, MakesBridge)
           /\ Done(p) >= 6 => Past(p, BridgeUp)
           /\ Done(p) >= 8 => Past(p, MoveUp(p[1]))
           /\ Past(p, LinkUp(p[1])) <=> Done(p) >= k + 10
           /\ Past(p, AddrBridge(p[1])) <=> Done(p) >= k + 11
           /\ \A c : Past(p, c) /\ c.do = "routeAdd" => Done(p) >= 10
<1> DEFINE n == p[1]  net == add_network(n)  D == Done(p)
<1>1. n \in Names
  BY DEF Procs
<1>2. /\ k \in Nat /\ Len(net) = k + 12
      /\ net[5] = MakesBridge /\ net[6] = BridgeUp /\ net[8] = MoveUp(n)
      /\ net[10 + k] = LinkUp(n) /\ net[11 + k] = AddrBridge(n)
  BY <1>1, SwitchList
<1>3. \A j \in 1..Len(net) :
         /\ net[j].do = "routeAdd" => j = k + 12 \/ j \in 10..(k + 9)
         /\ net[j].do = "addrAdd" => (j = 9 /\ net[j] = AddrAbove(n)) \/ (j = k + 11 /\ net[j] = AddrBridge(n))
         /\ net[j].do = "up" /\ net[j].kind = "nd" => j = k + 10 /\ net[j] = LinkUp(n)
  BY <1>1, SwitchOrder
<1>4. D \in Nat /\ D <= k + 12
  <2>1. state[p] = "adding" => D \in Nat /\ D <= Len(net)
    BY NextCommand
  <2>2. state[p] = "up" => todo[p] = <<>>
    BY DEF Base, ListsOK
  <2>3. state[p] = "up" => D = Len(net)
    <3>1. D = Len(net) - Len(todo[p])
      BY DEF Done
    <3>2. state[p] = "up" => Len(todo[p]) = 0
      BY <2>2
    <3>3. Len(net) \in Nat
      BY <1>2
    <3> HIDE DEF D, net
    <3> QED BY <3>1, <3>2, <3>3
  <2> QED BY <1>2, <2>1, <2>3 DEF Working
<1>5. \A c : Past(p, c) <=> \E j \in 1..D : net[j] = c
  BY DEF Past
<1> HIDE DEF net, D, n
<1>6. /\ D >= 5 => Past(p, MakesBridge)
      /\ D >= 6 => Past(p, BridgeUp)
      /\ D >= 8 => Past(p, MoveUp(n))
  BY <1>2, <1>4, <1>5
<1>7. Past(p, LinkUp(n)) <=> D >= k + 10
  <2>1. LinkUp(n).do = "up" /\ LinkUp(n).kind = "nd"
    BY DEF LinkUp, Cmd
  <2>2. ASSUME NEW j \in 1..D, net[j] = LinkUp(n) PROVE D >= k + 10
    BY <1>2, <1>3, <1>4, <2>1, <2>2
  <2>3. D >= k + 10 => 10 + k \in 1..D
    BY <1>2, <1>4
  <2> QED BY <1>2, <1>5, <2>2, <2>3
<1>8. Past(p, AddrBridge(n)) <=> D >= k + 11
  <2>1. AddrBridge(n).do = "addrAdd" /\ AddrBridge(n) # AddrAbove(n)
    BY DEF AddrBridge, AddrAbove, Addr
  <2>2. ASSUME NEW j \in 1..D, net[j] = AddrBridge(n) PROVE D >= k + 11
    BY <1>2, <1>3, <1>4, <2>1, <2>2
  <2>3. D >= k + 11 => 11 + k \in 1..D
    BY <1>2, <1>4
  <2> QED BY <1>2, <1>5, <2>2, <2>3
<1>9. ASSUME NEW c, Past(p, c), c.do = "routeAdd" PROVE D >= 10
  BY <1>2, <1>3, <1>4, <1>5, <1>9
<1> QED BY <1>2, <1>4, <1>6, <1>7, <1>8, <1>9 DEF n, D

(* Once the link of a switch to its uplink is up, nothing it executes can fail any more. *)
LEMMA SwitchEnds ==
    ASSUME SwitchesEnd, AllOwn, SubnetsDistinct, Base, Tidy, Sound, NEW p \in Procs,
           Role[p[1]] = "switch", nd(p) \in up, state[p] = "adding", todo[p] # <<>>
    PROVE  Possible(p, Head(todo[p]))
<1> DEFINE n == p[1]  k == Len(Switches(n))  c == Head(todo[p])  addr == <<Address[n], 2>>
<1>1. n \in Names /\ Netns(p) = p /\ nb(p) \in Links /\ p # None
  BY OwnNetns
<1>2. Working(p) /\ Past(p, LinkUp(n))
  BY DEF Sound, NdUp, Working
<1>3. c = add_network(n)[Done(p) + 1] /\ Done(p) \in Nat /\ Done(p) + 1 <= Len(add_network(n))
  BY NextCommand
<1>4. Connected(n)
  <2>1. PICK j \in 1..Done(p) : add_network(n)[j] = LinkUp(n)
    BY <1>2 DEF Past
  <2>2. j \in 1..Len(add_network(n))
    <3>1. Len(add_network(n)) \in Nat
      BY <1>1, NetworkFacts
    <3> QED BY <1>3, <3>1
  <2>3. LinkUp(n).do = "up" /\ LinkUp(n).kind = "nd"
    BY DEF LinkUp, Cmd
  <2> QED BY <1>1, <2>1, <2>2, <2>3, UnconnectedSwitch
<1>5. /\ k \in Nat /\ Done(p) <= k + 12 /\ Done(p) >= k + 10
      /\ Past(p, MakesBridge) /\ Past(p, BridgeUp)
      /\ Past(p, AddrBridge(n)) <=> Done(p) >= k + 11
  <2>1. /\ k \in Nat /\ Done(p) \in Nat /\ Done(p) <= k + 12
        /\ Done(p) >= 5 => Past(p, MakesBridge)
        /\ Done(p) >= 6 => Past(p, BridgeUp)
        /\ Past(p, LinkUp(n)) <=> Done(p) >= k + 10
        /\ Past(p, AddrBridge(n)) <=> Done(p) >= k + 11
    BY <1>2, <1>4, SwitchPast
  <2> HIDE DEF k, n
  <2>2. Done(p) >= k + 10 /\ Done(p) >= 6 /\ Done(p) >= 5
    BY <1>2, <2>1
  <2> QED BY <2>1, <2>2
<1>6. Len(add_network(n)) = k + 12 /\ add_network(n)[11 + k] = AddrBridge(n)
      /\ add_network(n)[12 + k] = RouteAdd(None, "default", Address[n])
  BY <1>1, <1>4, SwitchList
<1>7. /\ loc[nb(p)] = p /\ nb(p) \in up
      /\ Past(p, AddrBridge(n)) => <<nb(p), addr>> \in addrs
  BY <1>2, <1>5 DEF Sound, BridgeOK
<1>8. Done(p) = k + 10 \/ Done(p) = k + 11
  <2> HIDE DEF k, n
  <2> QED BY <1>3, <1>5, <1>6
<1>9. CASE Done(p) = k + 10
  <2>1. c = AddrBridge(n)
    <3>1. Done(p) + 1 = 11 + k
      BY <1>5, <1>9
    <3> QED BY <1>3, <1>6, <3>1
  <2>2. c.do = "addrAdd" /\ c.at = None /\ c.kind = "nb" /\ c.addr = addr
    BY <2>1 DEF AddrBridge, Addr
  <2>3. nb(p) \in Link(p, c)
    BY <1>1, <1>7, <2>2 DEF Link, Named, Where, nb
  <2>4. <<nb(p), addr>> \notin addrs
    <3>1. SUFFICES ASSUME <<nb(p), addr>> \in addrs PROVE FALSE
      OBVIOUS
    <3>2. PICK q \in Procs :
             \/ <<nb(p), addr>> = <<nd(q), <<Address[q[1]], 1>>>>
             \/ <<nb(p), addr>> = <<nb(q), <<Address[q[1]], 2>>>> /\ (Working(q) => Past(q, AddrBridge(q[1])))
             \/ <<nb(p), addr>> = <<nu(q), <<Address[Uplink[q[1]]], 3>>>>
      BY <3>1 DEF Sound, AddrOK
    <3>3. nb(p) # nd(q) /\ nb(p) # nu(q) /\ (nb(p) = nb(q) => p = q)
      BY DEF nb, nd, nu
    <3>4. Past(p, AddrBridge(n))
      BY <1>2, <3>2, <3>3
    <3> QED BY <1>5, <1>9, <3>4
  <2> QED BY <2>2, <2>3, <2>4, Zenon DEF Possible
<1>10. CASE Done(p) = k + 11
  <2>1. c = RouteAdd(None, "default", Address[n])
    <3>1. Done(p) + 1 = 12 + k
      BY <1>5, <1>10
    <3> QED BY <1>3, <1>6, <3>1
  <2>2. c.do = "routeAdd" /\ c.at = None /\ c.to = "default" /\ c.via = Address[n]
    BY <2>1 DEF RouteAdd
  <2>3. Where(p, c) = p
    BY <1>1, <2>2 DEF Where
  <2>4. nb(p) \in Gateways(p, c.via)
    <3>1. <<nb(p), <<c.via, 2>>>> \in addrs
      BY <1>5, <1>7, <1>10, <2>2
    <3> QED BY <1>7, <3>1 DEF Gateways
  <2>5. Routed(p, "default") = {}
    <3>1. SUFFICES ASSUME NEW r \in routes, r.in = p, r.to = "default" PROVE FALSE
      BY DEF Routed
    <3> QED BY <3>1 DEF Sound, DefaultOK
  <2>6. Gateways(Where(p, c), c.via) # {} /\ Routed(Where(p, c), c.to) = {}
    BY <2>2, <2>3, <2>4, <2>5
  <2> QED BY <2>2, <2>6, Zenon DEF Possible
<1> QED BY <1>8, <1>9, <1>10

LEMMA AbortsSound ==
    ASSUME SwitchesEnd, AllOwn, SubnetsDistinct, Base, Tidy, Sound, NEW p \in Procs, Aborts(p)
    PROVE  Sound'
<1>1. /\ UNCHANGED netns /\ state[p] = "adding" /\ todo[p] # <<>>
      /\ "command" \in Faults \/ ~Possible(p, Head(todo[p]))
      /\ state' = [state EXCEPT ![p] = "aborted"] /\ DOMAIN state = Procs
      /\ todo' = [todo EXCEPT ![p] = <<>>] /\ DOMAIN todo = Procs
      /\ cleanups' = [cleanups EXCEPT ![p] = <<>>] /\ DOMAIN cleanups = Procs
  BY DEF Aborts, Goes, Base
<1>2. /\ state'[p] = "aborted"
      /\ \A q \in Procs : q # p =>
            state'[q] = state[q] /\ todo'[q] = todo[q] /\ cleanups'[q] = cleanups[q]
  BY <1>1
<1>3. Steady(p)
  BY <1>1, <1>2 DEF Steady, Working
<1>4. Role[p[1]] = "switch" /\ nd(p) \in up => "command" \in Faults
  BY <1>1, SwitchEnds
<1> QED BY <1>1, <1>2, <1>3, <1>4, SoundQuiet

LEMMA PastExecutes ==
    ASSUME SwitchesEnd, Base, NEW x \in Procs, Executes(x)
    PROVE  /\ \A d : Past(x, d)' <=> Past(x, d) \/ d = Head(todo[x])
           /\ \A q \in Procs : \A d : q # x => (Past(q, d)' <=> Past(q, d))
           /\ \A q \in Procs : (Working(q)' <=> Working(q))
           /\ state' = state
<1> DEFINE D == Done(x)  net == add_network(x[1])
<1>1. D \in Nat /\ Done(x)' = D + 1 /\ Head(todo[x]) = net[D + 1] /\ UNCHANGED <<daemon, state, answer>>
  BY ExecutesFacts
<1>2. ASSUME NEW d PROVE Past(x, d)' <=> Past(x, d) \/ d = Head(todo[x])
  <2>1. Past(x, d)' <=> \E j \in 1..(D + 1) : net[j] = d
    BY <1>1 DEF Past
  <2>2. Past(x, d) <=> \E j \in 1..D : net[j] = d
    BY DEF Past
  <2> HIDE DEF D, net
  <2>3. \A j : j \in 1..(D + 1) <=> j \in 1..D \/ j = D + 1
    BY <1>1
  <2> QED BY <1>1, <2>1, <2>2, <2>3
<1>3. ASSUME NEW q \in Procs, q # x, NEW d PROVE Past(q, d)' <=> Past(q, d)
  <2>1. todo'[q] = todo[q]
    BY <1>3, ExecutesProc
  <2> QED BY <2>1, PastFrame
<1> QED BY <1>1, <1>2, <1>3 DEF Working

(* A command of a set-up changes the links of its process only, and takes away nothing *)
(* but what a link had before it was moved.                                            *)
LEMMA ExecutesNet ==
    ASSUME SwitchesEnd, AllOwn, Base, Tidy, NEW x \in Procs, Executes(x), NEW c, c = Head(todo[x])
    PROVE  /\ \A l \in Links : l[1] # x => loc'[l] = loc[l]
           /\ loc'[nb(x)] = IF c = MakesBridge THEN x ELSE loc[nb(x)]
           /\ c = MakesPair => loc'[nd(x)] = x
           /\ c.do \notin {"add", "move"} => loc' = loc
           /\ \A l \in up : l \in up' \/ (c.do = "move" /\ l = nd(x))
           /\ \A l \in up' : l \in up \/ (c.do = "up" /\ l \in Link(x, c))
           /\ c.do = "up" => Link(x, c) \subseteq up'
           /\ \A a \in addrs : a \in addrs' \/ (c.do = "move" /\ a[1] = nd(x))
           /\ \A a \in addrs' : a \in addrs \/ (c.do = "addrAdd" /\ a[1] \in Link(x, c) /\ a[2] = c.addr
                                                /\ a = <<a[1], a[2]>>)
           /\ c.do = "addrAdd" => \A l \in Link(x, c) : <<l, c.addr>> \in addrs'
           /\ \A r \in routes : r \in routes' \/ (c.do = "move" /\ r.dev = nd(x))
           /\ c.do # "routeAdd" => routes' \subseteq routes
           /\ c.do = "routeAdd" => \E l \in Gateways(Where(x, c), c.via) :
                 routes' = routes \cup {[in |-> Where(x, c), to |-> c.to, dev |-> l]}
<1>1. /\ Possible(x, c) /\ Effect(x, c) /\ c \in Setups(x[1]) \cup {Umount, Mount}
      /\ Done(x) \in Nat
      /\ Done(x) = 0 => c = Umount
      /\ Done(x) = 1 => c = Mount
      /\ Done(x) >= 2 => c \in Setups(x[1])
  BY ExecutesFacts
<1>2. /\ Netns(x) = x /\ x[1] \in Names /\ nu(x) \in Links /\ nd(x) \in Links /\ nb(x) \in Links
      /\ DOMAIN loc = Links /\ nb(x)[1] = x /\ nd(x)[1] = x /\ nb(x)[2] = "nb" /\ nd(x)[2] = "nd"
  BY OwnNetns DEF Base, NetOK, nb, nd
<1>3. MakesPair.do = "add" /\ MakesBridge.do = "add" /\ MakesPair # MakesBridge
      /\ MakesPair.kinds = {"nu", "nd"} /\ MakesBridge.kinds = {"nb"}
  BY DEF MakesPair, MakesBridge, LinkAdd
<1>4. CASE c \in {Umount, Mount} \/ c.do = "master"
  <2>1. UNCHANGED <<loc, up, addrs, routes>>
    BY <1>1, <1>4, EffectFacts DEF Umount, Mount, Mounts
  <2>2. c.do \in {"umount", "mount", "master"}
    BY <1>4 DEF Umount, Mount, Mounts
  <2> QED BY <1>3, <2>1, <2>2
<1>5. CASE c = MakesPair \/ c = MakesBridge
  <2>1. /\ loc' = [l \in Links |-> IF l[1] = x /\ l[2] \in c.kinds THEN x ELSE loc[l]]
        /\ UNCHANGED <<mnt, up, ports, addrs, routes>>
    BY <1>1, <1>2, <1>3, <1>5, EffectFacts
  <2>2. \A l \in Links : l[1] # x => loc'[l] = loc[l]
    BY <2>1
  <2>3. loc'[nb(x)] = IF c = MakesBridge THEN x ELSE loc[nb(x)]
    BY <1>2, <1>3, <1>5, <2>1
  <2>4. c = MakesPair => loc'[nd(x)] = x
    BY <1>2, <1>3, <2>1
  <2>5. c.do = "add"
    BY <1>3, <1>5
  <2> QED BY <2>1, <2>2, <2>3, <2>4, <2>5
<1>6. CASE c.do = "up"
  <2>1. up' = up \cup Link(x, c) /\ UNCHANGED <<mnt, loc, ports, addrs, routes>>
    BY <1>1, <1>6, EffectFacts
  <2> QED BY <1>3, <1>6, <2>1
<1>7. CASE c.do = "addrAdd"
  <2>1. addrs' = addrs \cup (Link(x, c) \X {c.addr}) /\ UNCHANGED <<mnt, loc, up, ports, routes>>
    BY <1>1, <1>7, EffectFacts
  <2> QED BY <1>3, <1>7, <2>1
<1>8. CASE c.do = "routeAdd"
  <2>1. /\ \E l \in Gateways(Where(x, c), c.via) :
              routes' = routes \cup {[in |-> Where(x, c), to |-> c.to, dev |-> l]}
        /\ UNCHANGED <<mnt, loc, up, ports, addrs>>
    BY <1>1, <1>8, EffectFacts
  <2> QED BY <1>3, <1>8, <2>1
<1>9. CASE c = MoveUp(x[1]) /\ Uplink[x[1]] \in Names
  <2>1. c.do = "move"
    BY <1>9 DEF MoveUp, SetTo
  <2>2. Done(x) >= 2
    BY <1>1, <2>1 DEF Umount, Mount, Mounts
  <2>3. Move(nd(x), mnt[Uplink[x[1]]])
    BY <1>9, <2>2, MoveUpMoves
  <2>4. nb(x) # nd(x)
    BY DEF nb, nd
  <2> QED BY <1>2, <1>3, <2>1, <2>3, <2>4 DEF Move
<1>10. c.do # "throw"
  BY <1>1, EffectFacts
<1>11. \/ c \in {Umount, Mount} \/ c.do = "master" \/ c = MakesPair \/ c = MakesBridge
       \/ c.do = "up" \/ c.do = "addrAdd" \/ c.do = "routeAdd"
       \/ (c = MoveUp(x[1]) /\ Uplink[x[1]] \in Names)
  BY <1>1, <1>2, <1>10, SetupCases
<1> QED BY <1>4, <1>5, <1>6, <1>7, <1>8, <1>9, <1>11

(* A route over a switch goes over the link of the process at work, and only once it is up. *)
LEMMA GatewayIs ==
    ASSUME AllOwn, SubnetsDistinct, Calm, Base, Tidy, Sound, NEW q \in Procs, Connected(q[1]),
           Working(q), NEW l \in Gateways(mnt[Uplink[q[1]]], Address[q[1]])
    PROVE  l = nd(q) /\ loc[nd(q)] = mnt[Uplink[q[1]]] /\ Past(q, LinkUp(q[1]))
<1> DEFINE n == q[1]  s == mnt[Uplink[n]]
<1>1. /\ n \in Names /\ Role[n] = "switch" /\ Uplink[n] \in Names /\ Uplink[n] # n
      /\ Role[Uplink[n]] # "client" /\ Address[n] # None
  <2>1. n \in Names /\ Role[n] = "switch" /\ Uplink[n] # None /\ Address[n] # None
    BY DEF Connected, Procs
  <2>2. Uplink[n] # n
    BY DEF Tidy, NoSelf, Working
  <2> QED BY <2>1, <2>2, EntitydAssumption
<1>2. l \in up /\ loc[l] = s /\ s # None
  BY DEF Gateways, Base, NetOK
<1>3. PICK i \in 1..3 : <<l, <<Address[n], i>>>> \in addrs
  BY DEF Gateways
<1>4. s \in Procs /\ s[1] = Uplink[n] /\ s = mnt[Uplink[n]]
  BY <1>1, <1>2 DEF Tidy, MountOK
<1> HIDE DEF s
<1>5. PICK y \in Procs :
         \/ <<l, <<Address[n], i>>>> = <<nd(y), <<Address[y[1]], 1>>>>
         \/ <<l, <<Address[n], i>>>> = <<nb(y), <<Address[y[1]], 2>>>>
         \/ Role[y[1]] = "client" /\ <<l, <<Address[n], i>>>> = <<nu(y), <<Address[Uplink[y[1]]], 3>>>>
  BY <1>3 DEF Sound, AddrOK
<1>6. LinkOK(y) /\ y[1] \in Names
  BY DEF Tidy, Procs
<1>7. /\ l = nb(y) => y[1] # n
      /\ l = nu(y) => Role[y[1]] # "client"
  <2>1. l = nb(y) \/ l = nu(y) => y = s
    BY <1>2, <1>6 DEF LinkOK
  <2> QED BY <1>1, <1>4, <2>1
<1>8. \A m \in Names : Address[m] = Address[n] => m = n
  BY <1>1 DEF SubnetsDistinct
<1>9. l = nd(y) /\ y[1] = n
  BY <1>5, <1>6, <1>7, <1>8
<1>10. /\ state[y] \notin {"none", "idle"}
       /\ state[y] = "aborted" => "command" \in Faults
       /\ Working(y) => Past(y, LinkUp(n))
  BY <1>1, <1>2, <1>9 DEF Sound, NdUp
<1>11. y = q
  <2>1. SUFFICES ASSUME y # q PROVE FALSE
    OBVIOUS
  <2>2. MaxStarts # 1
    BY <1>9, <2>1 DEF Procs
  <2>3. state[y] # "aborted"
    BY <1>10, <2>2 DEF Calm
  <2>4. ~Alive(y)
    BY <1>9, <2>1, OneAlive DEF Tidy, Working, Alive
  <2>5. s # y
    BY <1>1, <1>4, <1>9
  <2>6. Owes(y, MoveBack(n))
    BY <1>2, <1>4, <1>6, <1>9, <2>5 DEF LinkOK
  <2>7. Pending(y, MoveBack(n))
    BY <2>3, <2>6 DEF Owes
  <2> QED BY <2>4, <2>7, PendingFacts
<1> QED BY <1>2, <1>4, <1>9, <1>10, <1>11

LEMMA ExecutesBridge ==
    ASSUME SwitchesEnd, AllOwn, Base, Tidy, Sound, NEW x \in Procs, Executes(x), NEW p \in Procs
    PROVE  BridgeOK(p)'
<1> DEFINE c == Head(todo[x])
<1>1. /\ \A l \in Links : l[1] # x => loc'[l] = loc[l]
      /\ loc'[nb(x)] = IF c = MakesBridge THEN x ELSE loc[nb(x)]
      /\ \A l \in up : l \in up' \/ l = nd(x)
      /\ c.do = "up" => Link(x, c) \subseteq up'
      /\ \A a \in addrs : a \in addrs' \/ a[1] = nd(x)
      /\ c.do = "addrAdd" => \A l \in Link(x, c) : <<l, c.addr>> \in addrs'
  BY ExecutesNet
<1>2. /\ \A d : Past(x, d)' <=> Past(x, d) \/ d = c
      /\ \A q \in Procs : \A d : q # x => (Past(q, d)' <=> Past(q, d))
      /\ \A q \in Procs : (Working(q)' <=> Working(q))
  BY PastExecutes
<1>3. Possible(x, c)
  BY ExecutesFacts
<1>4. BridgeOK(p) /\ nb(p) \in Links /\ nb(p)[1] = p /\ nb(p) # nd(x) /\ Netns(x) = x
  BY OwnNetns DEF Sound, nb, nd
<1> HIDE DEF c
<1>5. SUFFICES ASSUME Working(p)'
               PROVE  /\ Past(p, MakesBridge)' => loc'[nb(p)] = p
                      /\ Past(p, BridgeUp)' => nb(p) \in up'
                      /\ Past(p, AddrBridge(p[1]))' => <<nb(p), <<Address[p[1]], 2>>>> \in addrs'
  BY DEF BridgeOK, Working, nb, MakesBridge, BridgeUp, AddrBridge, LinkAdd, Cmd, Addr
<1>6. /\ Past(p, MakesBridge) => loc[nb(p)] = p
      /\ Past(p, BridgeUp) => nb(p) \in up
      /\ Past(p, AddrBridge(p[1])) => <<nb(p), <<Address[p[1]], 2>>>> \in addrs
  BY <1>2, <1>4, <1>5 DEF BridgeOK
<1>7. CASE p # x
  BY <1>1, <1>2, <1>4, <1>6, <1>7
<1>8. CASE p = x
  <2>1. ASSUME c.at = None, c.kind = "nb", Link(x, c) # {}
        PROVE  nb(x) \in Link(x, c)
    <3>1. PICK l \in Link(x, c) : TRUE
      BY <2>1
    <3>2. l \in Links /\ loc[l] = x /\ l[2] = "nb" /\ x # None
      BY <1>4, <2>1, LinkIs, OwnNetns DEF Where
    <3>3. PICK y \in Procs : l = nb(y)
      BY <3>2 DEF Links, nb
    <3>4. y = x
      BY <3>2, <3>3 DEF Tidy, LinkOK
    <3> QED BY <3>1, <3>3, <3>4
  <2>2. Past(x, MakesBridge)' => loc'[nb(x)] = x
    BY <1>1, <1>2, <1>6, <1>8
  <2>3. ASSUME c = BridgeUp PROVE nb(x) \in up'
    <3>1. c.do = "up" /\ c.at = None /\ c.kind = "nb"
      BY <2>3 DEF BridgeUp, Cmd
    <3>2. Link(x, c) # {}
      BY <1>3, <3>1, Zenon DEF Possible
    <3> QED BY <1>1, <2>1, <3>1, <3>2
  <2>4. ASSUME c = AddrBridge(x[1]) PROVE <<nb(x), <<Address[x[1]], 2>>>> \in addrs'
    <3>1. c.do = "addrAdd" /\ c.at = None /\ c.kind = "nb" /\ c.addr = <<Address[x[1]], 2>>
      BY <2>4 DEF AddrBridge, Addr
    <3>2. \E l \in Link(x, c) : <<l, c.addr>> \notin addrs
      BY <1>3, <3>1, Zenon DEF Possible
    <3> QED BY <1>1, <2>1, <3>1, <3>2
  <2>5. Past(x, BridgeUp)' => nb(x) \in up'
    BY <1>1, <1>2, <1>4, <1>6, <1>8, <2>3
  <2>6. Past(x, AddrBridge(x[1]))' => <<nb(x), <<Address[x[1]], 2>>>> \in addrs'
    BY <1>1, <1>2, <1>4, <1>6, <1>8, <2>4
  <2> QED BY <1>8, <2>2, <2>5, <2>6
<1> QED BY <1>7, <1>8

LEMMA ExecutesOwes ==
    ASSUME SwitchesEnd, Base, Sound, NEW x \in Procs, Executes(x), NEW p \in Procs
    PROVE  MovedOwes(p)' /\ NoThrow(p)'
<1> DEFINE c == Head(todo[x])
<1>1. /\ \A d : Past(x, d)' <=> Past(x, d) \/ d = c
      /\ \A q \in Procs : \A d : q # x => (Past(q, d)' <=> Past(q, d))
      /\ \A q \in Procs : (Working(q)' <=> Working(q))
      /\ state' = state
  BY PastExecutes
<1>2. /\ \A q \in Procs : q # x => cleanups'[q] = cleanups[q]
      /\ \A d : Pending(x, d) => Pending(x, d)'
      /\ \A d : Undo(x, c) = <<d>> => Pending(x, d)'
  BY ExecutesProc
<1>3. c # Throw[1]
  <2>1. Possible(x, c) /\ Effect(x, c)
    BY ExecutesFacts
  <2>2. c.do # "throw"
    BY <2>1, EffectFacts
  <2> QED BY <2>2 DEF Throw
<1>4. MovedOwes(p) /\ NoThrow(p)
  BY DEF Sound
<1>5. c = MoveUp(x[1]) => Undo(x, c) = <<MoveBack(x[1])>>
  BY UndoFacts
<1> HIDE DEF c
<1>6. Working(p)' => ~Past(p, Throw[1])'
  BY <1>1, <1>3, <1>4 DEF NoThrow
<1>7. ASSUME Working(p)', Past(p, MoveUp(p[1]))' PROVE Pending(p, MoveBack(p[1]))'
  <2>1. CASE p = x /\ c = MoveUp(x[1])
    BY <1>2, <1>5, <2>1
  <2>2. CASE ~(p = x /\ c = MoveUp(x[1]))
    <3>1. Working(p) /\ Past(p, MoveUp(p[1]))
      BY <1>1, <1>7, <2>2
    <3>2. Pending(p, MoveBack(p[1])) /\ state[p] # "cleaning"
      BY <1>4, <3>1 DEF MovedOwes, Working
    <3>3. CASE p = x
      BY <1>2, <3>2, <3>3
    <3>4. CASE p # x
      <4>1. cleanups'[p] = cleanups[p]
        BY <1>2, <3>4
      <4> QED BY <3>2, <4>1 DEF Pending
    <3> QED BY <3>3, <3>4
  <2> QED BY <2>1, <2>2
<1> QED BY <1>6, <1>7 DEF MovedOwes, NoThrow, MoveUp, MoveBack, SetTo, Throw

(* The link that a switch sets up is its own: none of a predecessor is in the same namespace. *)
LEMMA ExecutesNdUp ==
    ASSUME SwitchesEnd, AllOwn, SubnetsDistinct, Base, Tidy, Sound, NEW x \in Procs, Executes(x),
           NEW p \in Procs
    PROVE  NdUp(p)'
<1> DEFINE c == Head(todo[x])  n == x[1]
<1>1. \A l \in up' : l \in up \/ (c.do = "up" /\ l \in Link(x, c))
  BY ExecutesNet
<1>2. /\ \A d : Past(x, d)' <=> Past(x, d) \/ d = c
      /\ \A q \in Procs : \A d : q # x => (Past(q, d)' <=> Past(q, d))
      /\ \A q \in Procs : (Working(q)' <=> Working(q))
      /\ state' = state
  BY PastExecutes
<1>3. /\ state[x] = "adding" /\ c = add_network(n)[Done(x) + 1] /\ n \in Names
      /\ Done(x) \in Nat /\ Done(x) + 1 <= Len(add_network(n)) /\ Len(add_network(n)) \in Nat
  BY ExecutesFacts, NetworkFacts DEF Procs
<1>4. NdUp(p)
  BY DEF Sound
<1>5. SUFFICES ASSUME Role[p[1]] = "switch", nd(p) \in up'
               PROVE  /\ state'[p] \notin {"none", "idle"}
                      /\ state'[p] = "aborted" => "command" \in Faults
                      /\ Working(p)' => Past(p, LinkUp(p[1]))'
  BY DEF NdUp, nd
<1>6. CASE nd(p) \in up
  <2>1. /\ state[p] \notin {"none", "idle"}
        /\ state[p] = "aborted" => "command" \in Faults
        /\ Working(p) => Past(p, LinkUp(p[1]))
    BY <1>4, <1>5, <1>6 DEF NdUp
  <2> QED BY <1>2, <2>1
<1>7. CASE nd(p) \notin up
  <2>1. c.do = "up" /\ nd(p) \in Link(x, c)
    BY <1>1, <1>5, <1>7
  <2>2. nd(p)[1][1] = n /\ nd(p)[2] = c.kind /\ loc[nd(p)] = Where(x, c) /\ loc[nd(p)] # None
    BY <2>1, LinkIs
  <2>3. p[1] = n /\ c.kind = "nd"
    BY <2>2 DEF nd
  <2>4. Done(x) + 1 \in 1..Len(add_network(n))
    BY <1>3
  <2>5. Connected(n)
    BY <1>3, <1>5, <2>1, <2>3, <2>4, UnconnectedSwitch
  <2>6. PICK k : k = Len(Switches(n))
    OBVIOUS
  <2>7. c = LinkUp(n) /\ Done(x) + 1 = k + 10 /\ k \in Nat
    BY <1>3, <2>1, <2>3, <2>4, <2>5, <2>6, SwitchOrder, SwitchList
  <2>8. Working(x) /\ Past(x, MoveUp(n))
    <3>1. Working(x)
      BY <1>3 DEF Working
    <3>2. Done(x) >= 8
      BY <1>3, <2>7
    <3> QED BY <2>5, <2>6, <3>1, <3>2, SwitchPast
  <2>9. p = x
    <3>1. Pending(x, MoveBack(n))
      BY <2>8 DEF Sound, MovedOwes
    <3>2. loc[nd(p)] = mnt[Uplink[n]]
      BY <2>2, <2>5, <2>7 DEF Where, LinkUp, Cmd, Connected
    <3> QED BY <2>2, <2>3, <3>1, <3>2 DEF Tidy, OneLink
  <2>10. Past(p, LinkUp(p[1]))'
    BY <1>2, <2>7, <2>9
  <2> QED BY <1>2, <1>3, <2>9, <2>10
<1> QED BY <1>6, <1>7

LEMMA ExecutesAddr ==
    ASSUME SwitchesEnd, AllOwn, SubnetsDistinct, Base, Tidy, Sound, NEW x \in Procs, Executes(x),
           NEW a \in addrs'
    PROVE  AddrOK(a)'
<1> DEFINE c == Head(todo[x])  n == x[1]  net == add_network(n)
<1>1. a \in addrs \/ (c.do = "addrAdd" /\ a[1] \in Link(x, c) /\ a[2] = c.addr /\ a = <<a[1], a[2]>>)
  BY ExecutesNet
<1>2. /\ \A d : Past(x, d)' <=> Past(x, d) \/ d = c
      /\ \A q \in Procs : \A d : q # x => (Past(q, d)' <=> Past(q, d))
      /\ \A q \in Procs : (Working(q)' <=> Working(q))
  BY PastExecutes
<1>3. /\ state[x] = "adding" /\ c = net[Done(x) + 1] /\ n \in Names /\ Netns(x) = x
      /\ Done(x) \in Nat /\ Done(x) + 1 <= Len(net) /\ Len(net) \in Nat
  BY ExecutesFacts, NetworkFacts, OwnNetns DEF Procs
<1>4. CASE a \in addrs
  <2>1. PICK p \in Procs :
           \/ a = <<nd(p), <<Address[p[1]], 1>>>>
           \/ a = <<nb(p), <<Address[p[1]], 2>>>> /\ (Working(p) => Past(p, AddrBridge(p[1])))
           \/ Role[p[1]] = "client" /\ a = <<nu(p), <<Address[Uplink[p[1]]], 3>>>>
    BY <1>4 DEF Sound, AddrOK
  <2>2. (Working(p) => Past(p, AddrBridge(p[1]))) => (Working(p)' => Past(p, AddrBridge(p[1]))')
    BY <1>2
  <2>3. \/ a = <<nd(p), <<Address[p[1]], 1>>>>
        \/ a = <<nb(p), <<Address[p[1]], 2>>>> /\ (Working(p)' => Past(p, AddrBridge(p[1]))')
        \/ Role[p[1]] = "client" /\ a = <<nu(p), <<Address[Uplink[p[1]]], 3>>>>
    BY <2>1, <2>2
  <2> QED BY <2>3 DEF AddrOK, nd, nb, nu, AddrBridge, Addr
<1>5. CASE c.do = "addrAdd" /\ a[1] \in Link(x, c) /\ a[2] = c.addr /\ a = <<a[1], a[2]>>
  <2>1. PICK l : l = a[1]
    OBVIOUS
  <2>2. l \in Links /\ l[1][1] = n /\ l[2] = c.kind /\ loc[l] = Where(x, c) /\ loc[l] # None
    BY <1>5, <2>1, LinkIs
  <2>3. PICK y \in Procs : l = <<y, c.kind>> /\ y[1] = n
    BY <2>2 DEF Links
  <2>4. a = <<l, c.addr>>
    BY <1>5, <2>1
  <2>5. \A i \in 1..(Done(x) + 1) : net[i] # Throw[1]
    <3>1. Working(x)'
      BY <1>2, <1>3 DEF Working
    <3>2. ~Past(x, Throw[1])'
      BY <3>1, ExecutesOwes DEF NoThrow, Throw
    <3>3. \A i \in 1..Done(x) : net[i] # Throw[1]
      BY <1>2, <3>2 DEF Past
    <3>4. net[Done(x) + 1] # Throw[1]
      BY <1>2, <1>3, <3>2
    <3>5. \A i \in 1..(Done(x) + 1) : i \in 1..Done(x) \/ i = Done(x) + 1
      BY <1>3
    <3> QED BY <3>3, <3>4, <3>5
  <2>6. \/ c \in {AddrAbove(n), AddrBridge(n)}
        \/ Role[n] = "client" /\ c = AddrClient(n)
    <3>1. Done(x) + 1 \in 1..Len(net)
      BY <1>3
    <3> QED BY <1>3, <1>5, <2>5, <3>1, AddressList
  <2>7. CASE c = AddrAbove(n)
    <3>1. a = <<nd(y), <<Address[y[1]], 1>>>>
      BY <2>3, <2>4, <2>7 DEF AddrAbove, Addr, nd
    <3> QED BY <3>1 DEF AddrOK, nd
  <2>8. CASE c = AddrBridge(n)
    <3>1. c.kind = "nb" /\ c.at = None /\ c.addr = <<Address[n], 2>>
      BY <2>8 DEF AddrBridge, Addr
    <3>2. y = x
      <4>1. loc[nb(y)] = x
        BY <1>3, <2>2, <2>3, <3>1 DEF Where, nb
      <4>2. x # None
        BY OwnNetns
      <4> QED BY <4>1, <4>2 DEF Tidy, LinkOK
    <3>3. a = <<nb(x), <<Address[n], 2>>>>
      BY <2>3, <2>4, <3>1, <3>2 DEF nb
    <3>4. Past(x, AddrBridge(n))'
      BY <1>2, <2>8
    <3> QED BY <3>3, <3>4 DEF AddrOK, nb, AddrBridge, Addr
  <2>9. CASE Role[n] = "client" /\ c = AddrClient(n)
    <3>1. Role[y[1]] = "client" /\ a = <<nu(y), <<Address[Uplink[y[1]]], 3>>>>
      BY <2>3, <2>4, <2>9 DEF AddrClient, Addr, nu
    <3> QED BY <3>1 DEF AddrOK, nu
  <2> QED BY <2>6, <2>7, <2>8, <2>9
<1> QED BY <1>1, <1>4, <1>5

LEMMA ExecutesDefault ==
    ASSUME SwitchesEnd, AllOwn, SubnetsDistinct, Base, Tidy, Sound, NEW x \in Procs, Executes(x),
           NEW r \in routes'
    PROVE  DefaultOK(r)'
<1> DEFINE c == Head(todo[x])  n == x[1]  net == add_network(n)
<1>1. /\ c.do # "routeAdd" => routes' \subseteq routes
      /\ c.do = "routeAdd" => \E l : routes' = routes \cup {[in |-> Where(x, c), to |-> c.to, dev |-> l]}
  BY ExecutesNet, ZenonT(30)
<1>2. /\ state' = state /\ state[x] = "adding" /\ todo[x] # <<>>
      /\ \A q \in Procs : q # x => todo'[q] = todo[q]
  BY ExecutesProc, ExecutesFacts DEF Executes
<1>3. /\ c = net[Done(x) + 1] /\ n \in Names /\ Netns(x) = x
      /\ Done(x) \in Nat /\ Done(x) + 1 <= Len(net) /\ Len(net) \in Nat
      /\ Done(x)' = Done(x) + 1
  BY ExecutesFacts, NetworkFacts, OwnNetns DEF Procs
<1>4. SUFFICES ASSUME r.to = "default", NEW p \in Procs, r.in = p, Role[p[1]] = "switch"
               PROVE  /\ state'[p] \notin {"none", "idle"}
                      /\ state'[p] = "adding" => todo'[p] = <<>>
  BY DEF DefaultOK
<1>5. CASE r \in routes
  <2>1. /\ state[p] \notin {"none", "idle"}
        /\ state[p] = "adding" => todo[p] = <<>>
    BY <1>4, <1>5 DEF Sound, DefaultOK
  <2> QED BY <1>2, <2>1
<1>6. CASE r \notin routes
  <2>1. c.do = "routeAdd" /\ r.in = Where(x, c) /\ r.to = c.to
    BY <1>1, <1>6
  <2>2. c.at = None
    <3>1. c \in Setups(n) \cup {Umount, Mount}
      BY ExecutesFacts
    <3>2. c \in Setups(n)
      BY <2>1, <3>1 DEF Umount, Mount, Mounts
    <3>3. \/ c.at = None
          \/ \E s \in Names : c = RouteAdd(Uplink[s], Address[n], Address[s])
      BY <1>3, <2>1, <3>2, SetupCases DEF MakesPair, MakesBridge, LinkAdd, MoveUp, SetTo
    <3>4. Address[n] # "default"
      BY <1>3 DEF SubnetsDistinct
    <3>5. \A s : RouteAdd(Uplink[s], Address[n], Address[s]).to = Address[n]
      BY DEF RouteAdd
    <3>6. c.to = "default"
      BY <1>4, <2>1
    <3> HIDE DEF c
    <3> QED BY <3>3, <3>4, <3>5, <3>6
  <2>3. p = x
    BY <1>3, <1>4, <2>1, <2>2 DEF Where
  <2>4. Done(x) + 1 \in 1..Len(net)
    BY <1>3
  <2>5. Connected(n)
    BY <1>3, <1>4, <2>1, <2>3, <2>4, UnconnectedSwitch
  <2>6. PICK k : k = Len(Switches(n))
    OBVIOUS
  <2>7. Done(x) + 1 = k + 12 /\ Len(net) = k + 12
    <3>1. Len(net) = k + 12
      BY <1>3, <2>5, <2>6, SwitchList
    <3>2. Done(x) + 1 = k + 12 \/ c.to # "default"
      BY <1>3, <2>1, <2>4, <2>5, <2>6, SwitchOrder
    <3> QED BY <1>4, <2>1, <3>1, <3>2
  <2>8. todo'[x] = <<>>
    <3>1. Done(x)' = Len(net) - Len(todo'[x])
      BY DEF Done
    <3>2. todo'[x] \in Seq(Commands)
      BY ExecutesBase DEF Base
    <3>3. Len(todo'[x]) \in Nat /\ Done(x)' = Len(net)
      BY <1>3, <2>7, <3>2
    <3>4. Len(todo'[x]) = 0
      <4> HIDE DEF net
      <4> QED BY <1>3, <3>1, <3>3
    <3> QED BY <3>2, <3>4
  <2> QED BY <1>2, <2>3, <2>8
<1> QED BY <1>5, <1>6

(* A route is entered over the link of the uplink, and stays while that link is where it is. *)
LEMMA ExecutesRouteIn ==
    ASSUME SwitchesEnd, AllOwn, SubnetsDistinct, Calm, Base, Tidy, Sound,
           NEW x \in Procs, Executes(x), NEW p \in Procs
    PROVE  RouteIn(p)'
<1> DEFINE c == Head(todo[x])
<1>1. /\ \A l \in Links : l[1] # x => loc'[l] = loc[l]
      /\ c = MakesPair => loc'[nd(x)] = x
      /\ c.do \notin {"add", "move"} => loc' = loc
      /\ \A r \in routes : r \in routes' \/ (c.do = "move" /\ r.dev = nd(x))
      /\ c.do = "routeAdd" => \E l \in Gateways(Where(x, c), c.via) :
            routes' = routes \cup {[in |-> Where(x, c), to |-> c.to, dev |-> l]}
  BY ExecutesNet
<1>2. /\ \A d : Past(x, d)' <=> Past(x, d) \/ d = c
      /\ \A q \in Procs : \A d : q # x => (Past(q, d)' <=> Past(q, d))
      /\ \A q \in Procs : (Working(q)' <=> Working(q))
  BY PastExecutes
<1>3. /\ state[x] = "adding" /\ Working(x) /\ c = add_network(x[1])[Done(x) + 1] /\ x[1] \in Names
      /\ Done(x) \in Nat /\ Done(x) + 1 \in 1..Len(add_network(x[1]))
  <2>1. Len(add_network(x[1])) \in Nat
    BY NetworkFacts DEF Procs
  <2>2. /\ state[x] = "adding" /\ c = add_network(x[1])[Done(x) + 1]
        /\ Done(x) \in Nat /\ Done(x) + 1 <= Len(add_network(x[1]))
    BY ExecutesFacts
  <2> HIDE DEF c
  <2>3. Done(x) + 1 \in 1..Len(add_network(x[1]))
    BY <2>1, <2>2
  <2> QED BY <2>2, <2>3 DEF Procs, Working
<1>4. ASSUME Connected(x[1]), Done(x) >= 10 PROVE c.do \notin {"add", "move"}
  <2>1. c.do = "move" => Done(x) + 1 = 8
    BY <1>3, <1>4, SwitchOrder
  <2>2. c.do = "add" => Done(x) + 1 \in {3, 5}
    BY <1>3, <1>4, SwitchOrder
  <2> HIDE DEF c
  <2> QED BY <1>3, <1>4, <2>1, <2>2
<1> HIDE DEF c
<1>5. SUFFICES ASSUME NEW q \in Procs,
                      Connected(p[1]), Connected(q[1]), q[1] = Uplink[p[1]],
                      Working(p)', Working(q)', loc'[nd(p)] = q,
                      Past(p, RouteAdd(Uplink[q[1]], Address[p[1]], Address[q[1]]))'
               PROVE  /\ Past(q, LinkUp(q[1]))'
                      /\ loc'[nd(q)] # None =>
                            [in |-> loc'[nd(q)], to |-> Address[p[1]], dev |-> nd(q)] \in routes'
  BY DEF RouteIn, Connected, nd, RouteAdd, LinkUp, Cmd
<1> DEFINE R == RouteAdd(Uplink[q[1]], Address[p[1]], Address[q[1]])
<1>6. Working(p) /\ Working(q) /\ R.do = "routeAdd" /\ nd(p) \in Links /\ nd(q) \in Links
      /\ nd(p)[1] = p /\ nd(q)[1] = q
  BY <1>2, <1>5, OwnNetns DEF RouteAdd, nd
<1>7. CASE p = x /\ c = R
  <2>1. c.do = "routeAdd" /\ c.at = Uplink[q[1]] /\ c.to = Address[p[1]] /\ c.via = Address[q[1]]
    BY <1>7 DEF RouteAdd
  <2>2. loc' = loc
    BY <1>1, <2>1
  <2>3. Where(x, c) = mnt[Uplink[q[1]]]
    BY <1>5, <2>1 DEF Where, Connected
  <2>4. PICK l \in Gateways(Where(x, c), c.via) :
           routes' = routes \cup {[in |-> Where(x, c), to |-> c.to, dev |-> l]}
    BY <1>1, <2>1
  <2>5. l = nd(q) /\ loc[nd(q)] = mnt[Uplink[q[1]]] /\ Past(q, LinkUp(q[1]))
    BY <1>5, <1>6, <2>1, <2>3, GatewayIs
  <2>6. Past(q, LinkUp(q[1]))'
    BY <1>2, <2>5
  <2>7. [in |-> loc'[nd(q)], to |-> Address[p[1]], dev |-> nd(q)] \in routes'
    BY <2>1, <2>2, <2>3, <2>4, <2>5
  <2> QED BY <2>6, <2>7
<1>8. CASE ~(p = x /\ c = R)
  <2>1. Past(p, R)
    BY <1>2, <1>5, <1>8
  <2>2. loc'[nd(p)] = loc[nd(p)]
    <3>1. CASE p # x
      BY <1>1, <1>6, <3>1
    <3>2. CASE p = x
      <4>1. Done(x) >= 10
        BY <1>5, <1>6, <2>1, <3>2, SwitchPast
      <4> QED BY <1>1, <1>4, <1>5, <3>2, <4>1
    <3> QED BY <3>1, <3>2
  <2>3. /\ Past(q, LinkUp(q[1]))
        /\ loc[nd(q)] # None =>
              [in |-> loc[nd(q)], to |-> Address[p[1]], dev |-> nd(q)] \in routes
    BY <1>5, <1>6, <2>1, <2>2 DEF Sound, RouteIn
  <2>4. Past(q, LinkUp(q[1]))'
    BY <1>2, <2>3
  <2>5. loc'[nd(q)] = loc[nd(q)] /\ (q = x => c.do # "move")
    <3>1. CASE q # x
      BY <1>1, <1>6, <3>1
    <3>2. CASE q = x
      <4>1. PICK k : k = Len(Switches(q[1]))
        OBVIOUS
      <4>2. k \in Nat /\ Done(q) \in Nat /\ Done(q) >= k + 10
        BY <1>5, <1>6, <2>3, <4>1, SwitchPast
      <4>3. Done(x) >= 10
        BY <3>2, <4>2
      <4> QED BY <1>1, <1>4, <1>5, <3>2, <4>3
    <3> QED BY <3>1, <3>2
  <2>6. ASSUME loc'[nd(q)] # None
        PROVE  [in |-> loc'[nd(q)], to |-> Address[p[1]], dev |-> nd(q)] \in routes'
    <3> DEFINE r == [in |-> loc[nd(q)], to |-> Address[p[1]], dev |-> nd(q)]
    <3>1. r \in routes /\ r.dev = nd(q)
      BY <2>3, <2>5, <2>6
    <3>2. nd(q) = nd(x) => q = x
      BY DEF nd
    <3> HIDE DEF r
    <3>3. r \in routes'
      BY <1>1, <2>5, <3>1, <3>2
    <3> QED BY <2>5, <3>3 DEF r
  <2> QED BY <2>4, <2>6
<1> QED BY <1>7, <1>8

LEMMA ExecutesSound ==
    ASSUME SwitchesEnd, AllOwn, SubnetsDistinct, Calm, Base, Tidy, Sound, NEW x \in Procs, Executes(x)
    PROVE  Sound'
<1>1. \A p \in Procs : BridgeOK(p)' /\ MovedOwes(p)' /\ NoThrow(p)' /\ NdUp(p)' /\ RouteIn(p)'
  BY ExecutesBridge, ExecutesOwes, ExecutesNdUp, ExecutesRouteIn
<1>2. \A a \in addrs' : AddrOK(a)'
  BY ExecutesAddr
<1>3. \A r \in routes' : DefaultOK(r)'
  BY ExecutesDefault
<1> QED BY <1>1, <1>2, <1>3 DEF Sound

LEMMA SoundInit ==
    ASSUME Init
    PROVE  Sound
<1>1. /\ up = {} /\ addrs = {} /\ routes = {}
      /\ \A p \in Procs : ~Working(p) /\ nd(p) \notin up
  BY DEF Init, NetnsInit, Working
<1> QED BY <1>1 DEF Sound, BridgeOK, MovedOwes, NoThrow, NdUp, RouteIn

LEMMA NextSound ==
    ASSUME SwitchesEnd, AllOwn, SubnetsDistinct, Calm, Base, Tidy, Sound, [Next]_vars
    PROVE  Sound'
<1>1. ASSUME NEW p \in Procs,
             Spawn(p) \/ AddComponent(p) \/ Answers(p) \/ Exits(p) \/ Aborts(p) \/ Executes(p) \/ Cleans(p)
      PROVE  Sound'
  BY <1>1, SpawnSound, AddComponentSound, AnswersSound, ExitsSound, AbortsSound, ExecutesSound,
     CleansSound
<1>2. ASSUME NEW p \in Procs, Shutdown(p) \/ HangsUp(p) PROVE Sound'
  BY <1>2, RunsCleanupsSound DEF Shutdown, HangsUp
<1>3. ASSUME NEW s \in Procs, KernelReaps(s) PROVE Sound'
  BY <1>3, KernelReapsSound
<1>4. DaemonDies \/ UNCHANGED vars => Sound'
  BY NoProcSound DEF DaemonDies, vars, procs
<1> QED BY <1>1, <1>2, <1>3, <1>4 DEF Next, EntitydStep

LEMMA SoundComplete ==
    ASSUME SwitchesEnd, AllOwn, SubnetsDistinct, Base, Tidy, Sound
    PROVE  RoutesComplete
<1>1. SUFFICES ASSUME NEW p \in Procs, NEW q \in Procs, NEW r \in Procs,
                      Role[p[1]] = "switch", Linked(p, q), Linked(q, r)
               PROVE  Reaches(r, Address[p[1]], q)
  BY DEF RoutesComplete
<1>2. /\ state[p] = "up" /\ state[q] = "up" /\ q[1] = Uplink[p[1]] /\ r[1] = Uplink[q[1]]
      /\ loc[nd(p)] = q /\ loc[nd(q)] = r /\ q # None /\ r # None /\ Netns(r) = r
  BY <1>1, OwnNetns DEF Linked, nd
<1>3. Working(p) /\ Working(q) /\ NoThrow(p) /\ NoThrow(q) /\ p[1] \in Names /\ q[1] \in Names
  BY <1>2 DEF Working, Sound, Procs
<1>4. ASSUME NEW y \in Procs, state[y] = "up"
      PROVE  /\ Done(y) = Len(add_network(y[1])) /\ Len(add_network(y[1])) \in Nat
             /\ \A j \in 1..Len(add_network(y[1])) : Past(y, add_network(y[1])[j])
  <2>1. Len(add_network(y[1])) \in Nat
    BY NetworkFacts DEF Procs
  <2>2. todo[y] = <<>>
    BY <1>4 DEF Base, ListsOK
  <2>3. Len(todo[y]) = 0
    BY <2>2
  <2>4. Done(y) = Len(add_network(y[1]))
    BY <2>1, <2>3 DEF Done
  <2> QED BY <2>1, <2>4 DEF Past
<1>5. ASSUME NEW y \in Procs, state[y] = "up", Role[y[1]] = "switch", Uplink[y[1]] # None
      PROVE  Connected(y[1])
  <2>1. SUFFICES ASSUME Address[y[1]] = None PROVE FALSE
    BY <1>5 DEF Connected
  <2>2. y[1] \in Names /\ NoThrow(y) /\ Working(y)
    BY <1>5 DEF Procs, Sound, Working
  <2>3. \E j \in 1..Len(add_network(y[1])) : add_network(y[1])[j] = Throw[1]
    BY <1>5, <2>1, <2>2, NoSubnet
  <2> QED BY <1>4, <1>5, <2>2, <2>3 DEF NoThrow
<1>6. Role[q[1]] = "switch"
  <2>1. Role[q[1]] # "client"
    BY <1>2, <1>3, EntitydAssumption
  <2>2. SUFFICES ASSUME Role[q[1]] \notin {"switch", "client"} PROVE FALSE
    BY <2>1
  <2> DEFINE net == add_network(q[1])
  <2>3. \/ Len(net) = 2 \/ (Len(net) = 3 /\ net[3] = Throw[1])
        \/ (Len(net) >= 5 /\ net[3] = MakesPair /\ net[4] = PairUp /\ net[5] = Throw[1])
    BY <1>3, <2>2, OtherRoles
  <2>4. \A j \in 1..Len(net) : net[j] # Throw[1]
    BY <1>2, <1>3, <1>4 DEF NoThrow
  <2>5. Len(net) = 2
    <3>1. Len(net) \in Nat
      BY <1>2, <1>4
    <3> HIDE DEF net
    <3> QED BY <2>3, <2>4, <3>1
  <2>6. PICK j \in 1..Done(q) : Adds(q[1], j, "nd")
    BY <1>2, <1>3 DEF Base, AddedOK, nd
  <2>7. j = 1 \/ j = 2
    BY <1>2, <1>4, <2>5, <2>6
  <2>8. net[1] = Umount /\ net[2] = Mount
    BY <1>3, NetworkFacts
  <2> QED BY <2>6, <2>7, <2>8 DEF Adds, Umount, Mount, Mounts
<1>7. Connected(p[1]) /\ Connected(q[1])
  <2>1. q[1] # None /\ r[1] # None
    BY OwnNetns
  <2> QED BY <1>1, <1>2, <1>5, <1>6, <2>1
<1>8. Past(p, RouteAdd(Uplink[q[1]], Address[p[1]], Address[q[1]]))
  <2> DEFINE n == p[1]  k == Len(Switches(n))
  <2>1. /\ k \in Nat /\ Len(add_network(n)) = k + 12
        /\ \A j \in 1..k : LET s == Switches(n)[j] IN
              add_network(n)[9 + j] = RouteAdd(Uplink[s], Address[n], Address[s])
    BY <1>3, <1>7, SwitchList
  <2>2. k >= 1 /\ Switches(n)[1] = q[1]
    <3>1. Switches(n) = <<q[1]>> \o Switches(q[1]) /\ Switches(q[1]) \in Seq(Names)
      BY <1>2, <1>3, <1>6, <1>7 DEF SwitchesEnd, Connected
    <3> QED BY <1>3, <3>1
  <2>3. add_network(n)[9 + 1] = RouteAdd(Uplink[q[1]], Address[n], Address[q[1]])
    BY <2>1, <2>2
  <2>4. 9 + 1 \in 1..Len(add_network(n))
    BY <2>1
  <2> QED BY <1>2, <1>4, <2>3, <2>4
<1>9. [in |-> r, to |-> Address[p[1]], dev |-> nd(q)] \in routes
  BY <1>2, <1>3, <1>7, <1>8 DEF Sound, RouteIn
<1> QED BY <1>2, <1>9 DEF Reaches, Routed, nd

(***************************************************************************)
(* A switch that is connected to its uplink, and the uplink to another     *)
(* one, has its route there: what connect() entered stays, in whatever     *)
(* order entities stop, start and reconnect.  For any tree of entities     *)
(* with namespaces of their own and any number of starts if no command     *)
(* fails of itself, and with any failing command for the first starts.     *)
(***************************************************************************)
THEOREM EntitydRoutesComplete ==
    ASSUME SwitchesEnd, AllOwn, SubnetsDistinct, Calm
    PROVE  Spec => []RoutesComplete
<1>1. Init => Base /\ Tidy /\ Sound
  BY BaseInit, TidyInit, SoundInit
<1>2. Base /\ Tidy /\ Sound /\ [Next]_vars => Base' /\ Tidy' /\ Sound'
  BY NextBase, NextTidy, NextSound
<1>3. Base /\ Tidy /\ Sound => RoutesComplete
  BY SoundComplete
<1> QED BY <1>1, <1>2, <1>3, PTL DEF Spec

-----------------------------------------------------------------------------
(* Setting up. *)

(* Nothing above n has been taken down. *)
Fine(n) == \A q \in Procs : q[1] \in Above(n) => state[q] \notin {"cleaning", "exited", "aborted"}

(* The entities above n are all different. *)
Straight(n) ==
    /\ n \notin Above(n)
    /\ \A i \in DOMAIN Switches(n) :
          LET s == Switches(n)[i] IN
          Role[s] = "switch" /\ s \in Above(n) /\ Above(s) \subseteq Above(n)
    /\ \A i, j \in DOMAIN Switches(n) : Uplink[Switches(n)[i]] = Uplink[Switches(n)[j]] => i = j

(* What is above a process has been started before it, and is up as long as all is well. *)
ChainOK(p) ==
    state[p] # "none" =>
        /\ Straight(p[1])
        /\ \A m \in Above(p[1]) \cap Names :
              \E q \in Procs : q[1] = m /\ state[q] # "none" /\ (Fine(p[1]) => state[q] = "up")

(* The two ends of the pair are where they were put. *)
JoinOK(p) ==
    LET n == p[1] IN
    Working(p) /\ Fine(n) =>
        /\ Past(p, MakesPair) => loc[nu(p)] = p
        /\ Past(p, MakesPair) /\ ~Past(p, MoveUp(n)) => loc[nd(p)] = p
        /\ Past(p, MoveUp(n)) => loc[nd(p)] = mnt[Uplink[n]] /\ loc[nd(p)] # None
        /\ Past(p, PairUp) => nu(p) \in up
        /\ Past(p, LinkUp(n)) => nd(p) \in up
        /\ Past(p, AddrAbove(n)) => <<nd(p), <<Address[n], 1>>>> \in addrs
        /\ Role[n] = "client" /\ Past(p, AddrClient(n)) =>
              <<nu(p), <<Address[Uplink[n]], 3>>>> \in addrs

(* What is not done yet has not been done by another one either. *)
FreshOK(p) ==
    LET n == p[1] IN
    /\ Working(p) =>
          /\ <<nd(p), <<Address[n], 1>>>> \in addrs => Past(p, AddrAbove(n))
          /\ Role[n] = "client" /\ <<nu(p), <<Address[Uplink[n]], 3>>>> \in addrs =>
                Past(p, AddrClient(n))
    /\ state[p] \in {"none", "idle"} \/ (state[p] = "adding" /\ todo[p] # <<>>) =>
          ~\E r \in routes : r.in = p /\ r.to = "default"

(* A route that is going to be deleted has been added. *)
CleanPast(p) ==
    Working(p) =>
        \A a \in Names : Pending(p, RouteDel(a, Address[p[1]])) =>
            \E i \in 1..Done(p) : LET c == add_network(p[1])[i] IN
                c.do = "routeAdd" /\ c.at = a /\ c.to = Address[p[1]]

Ready ==
    /\ \A p \in Procs : ChainOK(p) /\ JoinOK(p) /\ FreshOK(p) /\ CleanPast(p)
    /\ AddSucceeds

LEMMA AboveSwitch ==
    ASSUME SwitchesEnd, NEW n \in Names, NEW u, u = Uplink[n], u # None, Role[u] = "switch"
    PROVE  /\ u \in Names
           /\ Len(Switches(u)) \in Nat /\ Len(Switches(n)) = Len(Switches(u)) + 1
           /\ Switches(n)[1] = u
           /\ \A i \in 1..Len(Switches(u)) : Switches(n)[i + 1] = Switches(u)[i]
           /\ \A i \in 2..Len(Switches(n)) : i - 1 \in 1..Len(Switches(u)) /\ Switches(n)[i] = Switches(u)[i - 1]
           /\ DOMAIN Switches(n) = 1..Len(Switches(n)) /\ DOMAIN Switches(u) = 1..Len(Switches(u))
           /\ Above(n) = {u} \cup Above(u)
<1> DEFINE S == Switches(n)  T == Switches(u)
<1>1. u \in Names
  BY EntitydAssumption
<1>2. S \in Seq(Names) /\ T \in Seq(Names) /\ S = <<u>> \o T
  BY <1>1 DEF SwitchesEnd
<1> HIDE DEF S, T
<1>3. /\ Len(T) \in Nat /\ Len(S) = Len(T) + 1 /\ S[1] = u
      /\ \A i \in 1..Len(T) : S[i + 1] = T[i]
      /\ DOMAIN S = 1..Len(S) /\ DOMAIN T = 1..Len(T)
  BY <1>1, <1>2
<1>4. \A i \in 2..Len(S) : i - 1 \in 1..Len(T) /\ S[i] = T[i - 1]
  BY <1>3
<1>5. {Uplink[S[i]] : i \in DOMAIN S} = {Uplink[u]} \cup {Uplink[T[i]] : i \in DOMAIN T}
  <2>1. ASSUME NEW i \in DOMAIN S
        PROVE  Uplink[S[i]] \in {Uplink[u]} \cup {Uplink[T[j]] : j \in DOMAIN T}
    <3>1. i = 1 \/ i \in 2..Len(S)
      BY <1>3
    <3> QED BY <1>3, <1>4, <3>1
  <2>2. Uplink[u] \in {Uplink[S[i]] : i \in DOMAIN S}
    <3>1. 1 \in DOMAIN S
      BY <1>3
    <3> QED BY <1>3, <3>1
  <2>3. ASSUME NEW j \in DOMAIN T
        PROVE  Uplink[T[j]] \in {Uplink[S[i]] : i \in DOMAIN S}
    <3>1. j + 1 \in DOMAIN S /\ S[j + 1] = T[j]
      BY <1>3
    <3> QED BY <3>1
  <2> QED BY <2>1, <2>2, <2>3
<1>6. Above(n) = {u} \cup Above(u)
  BY <1>5 DEF Above, S, T
<1> QED BY <1>1, <1>3, <1>4, <1>6 DEF S, T

LEMMA AboveTop ==
    ASSUME SwitchesEnd, NEW n \in Names, Uplink[n] = None \/ Role[Uplink[n]] # "switch"
    PROVE  Switches(n) = <<>> /\ Above(n) = {Uplink[n]} /\ DOMAIN Switches(n) = {}
<1>1. Switches(n) = <<>>
  BY DEF SwitchesEnd
<1>2. DOMAIN Switches(n) = {}
  BY <1>1
<1> QED BY <1>1, <1>2 DEF Above

LEMMA RootList ==
    ASSUME SwitchesEnd, NEW n \in Names, Role[n] = "root"
    PROVE  Len(add_network(n)) = 2 /\ add_network(n)[1] = Umount /\ add_network(n)[2] = Mount
<1>1. Body(n) = <<>>
  BY DEF Body
<1>2. add_network(n) = <<Umount, Mount>> \o <<>>
  BY <1>1, NetworkIs
<1> DEFINE c1 == Umount  c2 == Mount
<1> HIDE DEF c1, c2
<1>3. add_network(n) = <<c1, c2>> \o <<>>
  BY <1>2 DEF c1, c2
<1>4. Len(<<c1, c2>> \o <<>>) = 2 /\ (<<c1, c2>> \o <<>>)[1] = c1 /\ (<<c1, c2>> \o <<>>)[2] = c2
  OBVIOUS
<1> QED BY <1>3, <1>4 DEF c1, c2

LEMMA ClientList ==
    ASSUME SwitchesEnd, Supported, NEW n \in Names, Role[n] = "client"
    PROVE  LET net == add_network(n)
               u == Uplink[n]
           IN  /\ Len(net) = 9
               /\ net[1] = Umount /\ net[2] = Mount /\ net[3] = MakesPair /\ net[4] = PairUp
               /\ net[5] = MoveUp(n) /\ net[6] = SetTo("master", u, "nd", u)
               /\ net[7] = LinkUp(n) /\ net[8] = AddrClient(n)
               /\ net[9] = RouteAdd(None, "default", Address[u])
<1> DEFINE u == Uplink[n]
<1>1. u # None /\ Address[u] # None
  BY EntitydAssumption DEF Supported
<1>2. connect(n) = <<MoveUp(n)>> \o (<<SetTo("master", u, "nd", u)>> \o
                      <<LinkUp(n), AddrClient(n), RouteAdd(None, "default", Address[u])>>)
  BY <1>1, Zenon DEF connect, MoveUp, LinkUp, AddrClient
<1>3. Body(n) = <<MakesPair, PairUp>> \o connect(n)
  BY DEF Body, setup_interfaces, MakesPair, PairUp
<1> DEFINE c1 == Umount  c2 == Mount  c3 == MakesPair  c4 == PairUp  c5 == MoveUp(n)
           c6 == SetTo("master", u, "nd", u)  c7 == LinkUp(n)  c8 == AddrClient(n)
           c9 == RouteAdd(None, "default", Address[u])
<1>4. add_network(n) = <<c1, c2>> \o (<<c3, c4>> \o (<<c5>> \o (<<c6>> \o <<c7, c8, c9>>)))
  BY <1>2, <1>3, NetworkIs
<1> HIDE DEF c1, c2, c3, c4, c5, c6, c7, c8, c9
<1> DEFINE d == <<c1, c2>> \o (<<c3, c4>> \o (<<c5>> \o (<<c6>> \o <<c7, c8, c9>>)))
<1>5. /\ Len(d) = 9 /\ d[1] = c1 /\ d[2] = c2 /\ d[3] = c3 /\ d[4] = c4
      /\ d[5] = c5 /\ d[6] = c6 /\ d[7] = c7 /\ d[8] = c8 /\ d[9] = c9
  OBVIOUS
<1>6. add_network(n) = d
  BY <1>4
<1> HIDE DEF d
<1> QED BY <1>5, <1>6 DEF c1, c2, c3, c4, c5, c6, c7, c8, c9

(* What is executed in which order, by switches and by clients. *)
LEMMA JoinList ==
    ASSUME SwitchesEnd, SubnetsDistinct, Supported, NEW n \in Names, Role[n] # "root"
    PROVE  \E M \in {5, 8} :
              LET net == add_network(n) IN
              /\ Uplink[n] \in Names /\ Len(net) \in Nat /\ M < Len(net)
              /\ net[3] = MakesPair /\ net[4] = PairUp /\ net[M] = MoveUp(n)
              /\ \A j \in 1..Len(net) :
                    /\ net[j].do # "throw"
                    /\ net[j] = MakesPair => j = 3
                    /\ net[j] = PairUp => j = 4
                    /\ net[j].do = "move" => j = M /\ net[j] = MoveUp(n)
                    /\ net[j].do = "add" => (j = 3 /\ net[j] = MakesPair) \/ net[j] = MakesBridge
                    /\ net[j] \in {LinkUp(n), AddrAbove(n), AddrClient(n)} => j > M
                    /\ net[j].do = "up" =>
                          net[j] = PairUp \/ net[j] = BridgeUp \/ net[j] = LinkUp(n)
                    /\ net[j].do = "addrAdd" /\ net[j].kind = "nd" => net[j] = AddrAbove(n)
                    /\ net[j].do = "addrAdd" /\ net[j].kind = "nu" => net[j] = AddrClient(n)
                    /\ net[j].do = "routeAdd" /\ net[j].to = "default" => j = Len(net)
                    /\ net[j].do = "routeAdd" /\ net[j].to # "default" => net[j].to = Address[n]
<1>1. Uplink[n] \in Names
  BY EntitydAssumption DEF Supported
<1>2. CASE Role[n] = "client"
  <2> DEFINE net == add_network(n)
  <2>1. /\ Len(net) = 9
        /\ net[1] = Umount /\ net[2] = Mount /\ net[3] = MakesPair /\ net[4] = PairUp
        /\ net[5] = MoveUp(n) /\ net[6] = SetTo("master", Uplink[n], "nd", Uplink[n])
        /\ net[7] = LinkUp(n) /\ net[8] = AddrClient(n)
        /\ net[9] = RouteAdd(None, "default", Address[Uplink[n]])
    BY <1>2, ClientList
  <2> HIDE DEF net
  <2>2. ASSUME NEW j \in 1..9
        PROVE  /\ net[j].do # "throw"
               /\ net[j] = MakesPair => j = 3
               /\ net[j] = PairUp => j = 4
               /\ net[j].do = "move" => j = 5 /\ net[j] = MoveUp(n)
               /\ net[j].do = "add" => (j = 3 /\ net[j] = MakesPair) \/ net[j] = MakesBridge
               /\ net[j] \in {LinkUp(n), AddrAbove(n), AddrClient(n)} => j > 5
               /\ net[j].do = "up" =>
                     net[j] = PairUp \/ net[j] = BridgeUp \/ net[j] = LinkUp(n)
               /\ net[j].do = "addrAdd" /\ net[j].kind = "nd" => net[j] = AddrAbove(n)
               /\ net[j].do = "addrAdd" /\ net[j].kind = "nu" => net[j] = AddrClient(n)
               /\ net[j].do = "routeAdd" /\ net[j].to = "default" => j = 9
               /\ net[j].do = "routeAdd" /\ net[j].to # "default" => net[j].to = Address[n]
    <3>1. CASE j \in {1, 2, 3}
      BY <2>1, <3>1 DEF Umount, Mount, Mounts, MakesPair, LinkAdd, PairUp, Cmd, LinkUp, AddrAbove,
                        AddrClient, Addr
    <3>2. CASE j \in {4, 5, 6}
      BY <2>1, <3>2 DEF MakesPair, LinkAdd, PairUp, Cmd, LinkUp, AddrAbove, AddrClient, Addr, MoveUp, SetTo
    <3>3. CASE j \in {7, 8, 9}
      BY <2>1, <3>3 DEF MakesPair, LinkAdd, PairUp, Cmd, LinkUp, AddrAbove, AddrClient, Addr, RouteAdd
    <3> QED BY <3>1, <3>2, <3>3
  <2>3. Len(net) \in Nat /\ 5 < Len(net) /\ Len(net) = 9
    BY <2>1
  <2> QED BY <1>1, <2>1, <2>2, <2>3 DEF net
<1>3. CASE Role[n] = "switch"
  <2> DEFINE net == add_network(n)  k == Len(Switches(n))
  <2>1. Connected(n)
    BY <1>3 DEF Connected, Supported
  <2>2. /\ k \in Nat /\ Len(net) = k + 12
        /\ net[1] = Umount /\ net[2] = Mount /\ net[3] = MakesPair /\ net[4] = PairUp
        /\ net[5] = MakesBridge /\ net[6] = BridgeUp
        /\ net[7] = SetTo("master", None, "nu", n)
        /\ net[8] = MoveUp(n) /\ net[9] = AddrAbove(n)
        /\ \A j \in 1..k : net[9 + j] = RouteAdd(Uplink[Switches(n)[j]], Address[n], Address[Switches(n)[j]])
        /\ net[10 + k] = LinkUp(n) /\ net[11 + k] = AddrBridge(n)
        /\ net[12 + k] = RouteAdd(None, "default", Address[n])
    BY <2>1, SwitchList
  <2> HIDE DEF net, k
  <2> DEFINE Good(j) ==
               /\ net[j].do # "throw"
               /\ net[j] = MakesPair => j = 3
               /\ net[j] = PairUp => j = 4
               /\ net[j].do = "move" => j = 8 /\ net[j] = MoveUp(n)
               /\ net[j].do = "add" => (j = 3 /\ net[j] = MakesPair) \/ net[j] = MakesBridge
               /\ net[j] \in {LinkUp(n), AddrAbove(n), AddrClient(n)} => j > 8
               /\ net[j].do = "up" =>
                     net[j] = PairUp \/ net[j] = BridgeUp \/ net[j] = LinkUp(n)
               /\ net[j].do = "addrAdd" /\ net[j].kind = "nd" => net[j] = AddrAbove(n)
               /\ net[j].do = "addrAdd" /\ net[j].kind = "nu" => net[j] = AddrClient(n)
               /\ net[j].do = "routeAdd" /\ net[j].to = "default" => j = k + 12
               /\ net[j].do = "routeAdd" /\ net[j].to # "default" => net[j].to = Address[n]
  <2>3. ASSUME NEW j \in 1..Len(net)
        PROVE  Good(j)
    <3>0. j \in Nat /\ (j \in {1, 2, 3, 4} \/ j \in {5, 6, 7} \/ j \in {8, 9} \/ j \in 10..(k + 9)
            \/ j \in {10 + k, 11 + k, 12 + k})
      BY <2>2
    <3>1. CASE j \in {1, 2, 3, 4}
      BY <2>2, <3>1 DEF Umount, Mount, Mounts, MakesPair, LinkAdd, PairUp, Cmd, LinkUp, AddrAbove,
                        AddrClient, Addr
    <3>2. CASE j \in {5, 6, 7}
      <4>1. CASE j = 5
        <5>1. net[j] = MakesBridge
          BY <2>2, <4>1
        <5> QED BY <4>1, <5>1 DEF MakesPair, MakesBridge, LinkAdd, PairUp, Cmd, LinkUp, AddrAbove, AddrClient, Addr
      <4>2. CASE j = 6
        <5>1. net[j] = BridgeUp
          BY <2>2, <4>2
        <5> QED BY <4>2, <5>1 DEF MakesPair, LinkAdd, PairUp, BridgeUp, Cmd, LinkUp, AddrAbove, AddrClient, Addr
      <4>3. CASE j = 7
        <5>1. net[j] = SetTo("master", None, "nu", n)
          BY <2>2, <4>3
        <5> QED BY <4>3, <5>1 DEF MakesPair, LinkAdd, PairUp, Cmd, LinkUp, AddrAbove, AddrClient, Addr, SetTo
      <4> QED BY <3>2, <4>1, <4>2, <4>3
    <3>3. CASE j \in {8, 9}
      BY <2>2, <3>3 DEF MakesPair, LinkAdd, PairUp, Cmd, LinkUp, AddrAbove, AddrClient, Addr, MoveUp, SetTo
    <3>4. CASE j \in 10..(k + 9)
      <4>1. j - 9 \in 1..k /\ 9 + (j - 9) = j /\ j > 8
        BY <2>2, <3>0, <3>4
      <4> DEFINE s == Switches(n)[j - 9]
      <4>2. net[j] = RouteAdd(Uplink[s], Address[n], Address[s])
        BY <2>2, <4>1
      <4>3. net[j].do = "routeAdd" /\ net[j].to = Address[n] /\ net[j].to # "default"
        BY <4>2 DEF RouteAdd, SubnetsDistinct
      <4>4. net[j] # MakesPair /\ net[j] # PairUp
        BY <4>3 DEF MakesPair, LinkAdd, PairUp, Cmd
      <4> QED BY <4>1, <4>3, <4>4
    <3>5. CASE j \in {10 + k, 11 + k, 12 + k}
      <4>1. j > 8
        BY <2>2, <3>5
      <4>2. net[j] \in {LinkUp(n), AddrBridge(n), RouteAdd(None, "default", Address[n])}
        BY <2>2, <3>5
      <4>3. net[j].do = "routeAdd" => j = k + 12 /\ net[j].to = "default"
        BY <2>2, <3>5, SMT DEF LinkUp, Cmd, AddrBridge, Addr, RouteAdd
      <4>4. /\ net[j].do \in {"up", "addrAdd", "routeAdd"}
            /\ net[j] # MakesPair /\ net[j] # PairUp
            /\ net[j].do = "up" => net[j] = LinkUp(n)
            /\ net[j].do = "addrAdd" => net[j].kind = "nb"
        BY <4>2 DEF LinkUp, Cmd, AddrBridge, Addr, RouteAdd, MakesPair, LinkAdd, PairUp
      <4> QED BY <4>1, <4>3, <4>4
    <3> QED BY <3>0, <3>1, <3>2, <3>3, <3>4, <3>5
  <2>4. Len(net) \in Nat /\ 8 < Len(net) /\ Len(net) = k + 12
    BY <2>2
  <2> QED BY <1>1, <2>2, <2>3, <2>4 DEF net
<1> QED BY <1>2, <1>3 DEF Supported

LEMMA DoneFacts ==
    ASSUME SwitchesEnd, Base, NEW p \in Procs, Working(p)
    PROVE  /\ p[1] \in Names /\ Len(add_network(p[1])) \in Nat
           /\ Done(p) \in Nat /\ Done(p) <= Len(add_network(p[1]))
           /\ state[p] = "up" => Done(p) = Len(add_network(p[1]))
<1> DEFINE net == add_network(p[1])  D == Done(p)
<1>1. p[1] \in Names
  BY DEF Procs
<1>2. Len(net) \in Nat
  BY <1>1, NetworkFacts
<1>3. state[p] = "adding" => D \in Nat /\ D <= Len(net)
  BY NextCommand
<1>4. state[p] = "up" => Len(todo[p]) = 0
  <2>1. state[p] = "up" => todo[p] = <<>>
    BY DEF Base, ListsOK
  <2> QED BY <2>1
<1>5. D = Len(net) - Len(todo[p])
  BY DEF Done
<1> HIDE DEF net, D
<1>6. state[p] = "up" => D = Len(net)
  BY <1>2, <1>4, <1>5
<1>7. D \in Nat /\ D <= Len(net)
  BY <1>2, <1>3, <1>6 DEF Working
<1> QED BY <1>1, <1>2, <1>6, <1>7 DEF net, D

(* What a process has done of its connection, by how many commands it has executed. *)
LEMMA JoinPast ==
    ASSUME SwitchesEnd, SubnetsDistinct, Supported, Base, NEW p \in Procs, Working(p),
           Role[p[1]] # "root"
    PROVE  \E M \in {5, 8} :
              /\ Done(p) \in Nat /\ Done(p) <= Len(add_network(p[1]))
              /\ Past(p, MakesPair) <=> Done(p) >= 3
              /\ Past(p, PairUp) <=> Done(p) >= 4
              /\ Past(p, MoveUp(p[1])) <=> Done(p) >= M
              /\ Past(p, LinkUp(p[1])) => Done(p) > M
              /\ Past(p, AddrAbove(p[1])) => Done(p) > M
              /\ Past(p, AddrClient(p[1])) => Done(p) > M
              /\ LET net == add_network(p[1]) IN
                 \A j \in 1..Len(net) :
                    /\ net[j] = MakesPair => j = 3
                    /\ net[j] = PairUp => j = 4
                    /\ net[j].do = "move" => j = M /\ net[j] = MoveUp(p[1])
                    /\ net[j] \in {LinkUp(p[1]), AddrAbove(p[1]), AddrClient(p[1])} => j > M
<1> DEFINE n == p[1]  net == add_network(n)  D == Done(p)
<1>1. n \in Names /\ D \in Nat /\ Len(net) \in Nat /\ D <= Len(net)
  BY DoneFacts
<1>2. PICK M \in {5, 8} :
         /\ M < Len(net) /\ net[3] = MakesPair /\ net[4] = PairUp /\ net[M] = MoveUp(n)
         /\ \A j \in 1..Len(net) :
               /\ net[j] = MakesPair => j = 3
               /\ net[j] = PairUp => j = 4
               /\ net[j].do = "move" => j = M /\ net[j] = MoveUp(n)
               /\ net[j] \in {LinkUp(n), AddrAbove(n), AddrClient(n)} => j > M
  BY <1>1, JoinList
<1>3. \A c : Past(p, c) <=> \E j \in 1..D : net[j] = c
  BY DEF Past
<1>4. MoveUp(n).do = "move"
  BY DEF MoveUp, SetTo
<1> HIDE DEF n, net, D
<1>5. \A j \in 1..D : j \in 1..Len(net)
  BY <1>1
<1>6. Past(p, MakesPair) <=> D >= 3
  BY <1>1, <1>2, <1>3, <1>5
<1>7. Past(p, PairUp) <=> D >= 4
  BY <1>1, <1>2, <1>3, <1>5
<1>8. Past(p, MoveUp(n)) <=> D >= M
  <2>1. ASSUME NEW j \in 1..D, net[j] = MoveUp(n) PROVE D >= M
    BY <1>1, <1>2, <1>4, <1>5, <2>1
  <2>2. D >= M => M \in 1..D
    BY <1>1
  <2> QED BY <1>2, <1>3, <2>1, <2>2
<1>9. ASSUME NEW c \in {LinkUp(n), AddrAbove(n), AddrClient(n)}, Past(p, c) PROVE D > M
  <2>1. PICK j \in 1..D : net[j] = c
    BY <1>3, <1>9
  <2>2. j > M
    BY <1>2, <1>5, <1>9, <2>1
  <2> QED BY <1>1, <2>2
<1> QED BY <1>1, <1>2, <1>6, <1>7, <1>8, <1>9 DEF n, D, net

(* A root has no links. *)
LEMMA RootPast ==
    ASSUME SwitchesEnd, Base, NEW p \in Procs, Working(p), Role[p[1]] = "root", NEW c, Past(p, c)
    PROVE  c \in {Umount, Mount}
<1>1. /\ Len(add_network(p[1])) = 2 /\ add_network(p[1])[1] = Umount /\ add_network(p[1])[2] = Mount
      /\ Done(p) \in Nat /\ Done(p) <= 2
  BY RootList, DoneFacts
<1>2. PICK j \in 1..Done(p) : add_network(p[1])[j] = c
  BY DEF Past
<1>3. j = 1 \/ j = 2
  BY <1>1
<1> QED BY <1>1, <1>2, <1>3

-----------------------------------------------------------------------------

Bad == {"cleaning", "exited", "aborted"}

(* Processes do not come back, and a process that is up stays up or goes. *)
Ages(q) ==
    /\ state[q] # "none" => state'[q] # "none"
    /\ state[q] \in Bad => state'[q] \in Bad
    /\ state[q] = "up" => state'[q] \in {"up", "cleaning"}

LEMMA NextAges ==
    ASSUME Base, [Next]_vars, NEW q \in Procs
    PROVE  Ages(q)
<1>1. DOMAIN state = Procs
  BY DEF Base
<1>2. CASE UNCHANGED state
  BY <1>2 DEF Ages
<1>3. ASSUME NEW p \in Procs,
             Spawn(p) \/ AddComponent(p) \/ Answers(p) \/ Aborts(p) \/ Exits(p)
      PROVE  Ages(q)
  <2>1. /\ state[p] \in {"none", "idle", "adding", "cleaning"}
        /\ \E s \in {"idle", "adding", "up", "aborted", "exited"} :
              /\ state' = [state EXCEPT ![p] = s]
              /\ state[p] = "cleaning" => s = "exited"
    BY <1>3 DEF Spawn, AddComponent, Answers, Aborts, Exits, Goes
  <2>2. PICK s \in {"idle", "adding", "up", "aborted", "exited"} :
           /\ state' = [state EXCEPT ![p] = s]
           /\ state[p] = "cleaning" => s = "exited"
    BY <2>1
  <2>3. q # p => state'[q] = state[q]
    BY <1>1, <2>2
  <2>4. state'[p] = s
    BY <1>1, <2>2
  <2> QED BY <2>1, <2>2, <2>3, <2>4 DEF Ages, Bad
<1>4. ASSUME NEW p \in Procs, Shutdown(p) \/ HangsUp(p)
      PROVE  Ages(q)
  <2>1. state[p] \in {"idle", "up"} /\ state' = [state EXCEPT ![p] = "cleaning"]
    BY <1>4 DEF Shutdown, HangsUp, RunsCleanups, Goes
  <2>2. q # p => state'[q] = state[q]
    BY <1>1, <2>1
  <2>3. state'[p] = "cleaning"
    BY <1>1, <2>1
  <2> QED BY <2>1, <2>2, <2>3 DEF Ages, Bad
<1>5. ASSUME NEW p \in Procs, Executes(p) \/ Cleans(p) PROVE UNCHANGED state
  BY <1>5 DEF Executes, Cleans
<1>6. ASSUME NEW s \in Procs, KernelReaps(s) PROVE UNCHANGED state
  BY <1>6 DEF KernelReaps, procs
<1>7. DaemonDies => UNCHANGED state
  BY DEF DaemonDies
<1>8. UNCHANGED vars => UNCHANGED state
  BY DEF vars, procs
<1> QED BY <1>2, <1>3, <1>4, <1>5, <1>6, <1>7, <1>8 DEF Next, EntitydStep

LEMMA FineBefore ==
    ASSUME \A q \in Procs : Ages(q), NEW n, Fine(n)'
    PROVE  Fine(n)
BY DEF Fine, Ages, Bad, Above

LEMMA FineAbove ==
    ASSUME NEW n, NEW m, Above(m) \subseteq Above(n), Fine(n)
    PROVE  Fine(m)
BY DEF Fine

LEMMA ChainStep ==
    ASSUME \A q \in Procs : Ages(q), NEW p \in Procs, ChainOK(p), state'[p] # "none" => state[p] # "none"
    PROVE  ChainOK(p)'
<1> DEFINE n == p[1]
<1>1. SUFFICES ASSUME state'[p] # "none", NEW m \in Above(n) \cap Names
               PROVE  \E q \in Procs : q[1] = m /\ state'[q] # "none" /\ (Fine(n)' => state'[q] = "up")
  BY DEF ChainOK, Straight, Above
<1>2. PICK q \in Procs : q[1] = m /\ state[q] # "none" /\ (Fine(n) => state[q] = "up")
  BY <1>1 DEF ChainOK
<1>3. Ages(q) /\ state'[q] # "none"
  BY <1>2 DEF Ages
<1>4. ASSUME Fine(n)' PROVE state'[q] = "up"
  <2>1. state[q] = "up"
    BY <1>2, <1>4, FineBefore
  <2>2. state'[q] \notin {"cleaning", "exited", "aborted"}
    BY <1>1, <1>2, <1>4 DEF Fine, Above
  <2> QED BY <1>3, <2>1, <2>2 DEF Ages
<1> QED BY <1>2, <1>3, <1>4

(* The uplinks of a process that is started are different from it, and from each other. *)
LEMMA SpawnStraight ==
    ASSUME SwitchesEnd, Base, NEW p \in Procs, Spawn(p), Uplink[p[1]] # p[1],
           \A q \in Procs : ChainOK(q)
    PROVE  Straight(p[1])
<1> DEFINE n == p[1]  u == Uplink[n]
<1>1. n \in Names /\ n # None
  BY EntitydAssumption DEF Procs
<1>2. CASE u = None \/ Role[u] # "switch"
  <2>1. Switches(n) = <<>> /\ Above(n) = {u} /\ DOMAIN Switches(n) = {}
    BY <1>1, <1>2, AboveTop
  <2> QED BY <2>1 DEF Straight
<1>3. CASE u # None /\ Role[u] = "switch"
  <2> DEFINE S == Switches(n)  T == Switches(u)
  <2>1. /\ u \in Names
        /\ Len(T) \in Nat /\ Len(S) = Len(T) + 1 /\ S[1] = u
        /\ \A i \in 2..Len(S) : i - 1 \in 1..Len(T) /\ S[i] = T[i - 1]
        /\ DOMAIN S = 1..Len(S) /\ DOMAIN T = 1..Len(T)
        /\ Above(n) = {u} \cup Above(u)
    BY <1>1, <1>3, AboveSwitch
  <2>2. PICK q \in Procs : q[1] = u /\ state[q] \in {"up", "aborted"}
    BY <1>3 DEF Spawn
  <2>3. /\ Straight(u)
        /\ \A m \in Above(u) \cap Names : \E y \in Procs : y[1] = m /\ state[y] # "none"
    BY <2>2 DEF ChainOK
  <2>4. ASSUME NEW m \in (Above(u) \cap Names) PROVE Straight(m)
    BY <2>3 DEF ChainOK
  <2>5. n \notin Above(n)
    BY <1>1, <2>1, <2>4 DEF Straight
  <2> HIDE DEF S, T, n, u
  <2>6. ASSUME NEW i \in DOMAIN S 
        PROVE  Role[S[i]] = "switch" /\ S[i] \in Above(n) /\ Above(S[i]) \subseteq Above(n)
    <3>1. i = 1 \/ i \in 2..Len(S)
      BY <2>1
    <3>2. \A j \in DOMAIN T : Role[T[j]] = "switch" /\ T[j] \in Above(u) /\ Above(T[j]) \subseteq Above(u)
      BY <2>3 DEF Straight, T
    <3>3. Role[u] = "switch"
      BY <1>3 DEF u, n
    <3>4. CASE i = 1
      BY <2>1, <3>3, <3>4
    <3>5. CASE i \in 2..Len(S)
      <4>1. i - 1 \in DOMAIN T /\ S[i] = T[i - 1]
        BY <2>1, <3>5
      <4> QED BY <2>1, <3>2, <4>1
    <3> QED BY <3>1, <3>4, <3>5
  <2>7. ASSUME NEW j \in DOMAIN T, Uplink[u] = Uplink[T[j]] PROVE FALSE
    <3> DEFINE s == T[j]
    <3>1. s \in Above(u) /\ s \in Names
      <4>1. T \in Seq(Names)
        BY <2>1 DEF SwitchesEnd, T
      <4> QED BY <2>3, <4>1 DEF Straight, T
    <3>2. s \notin Above(s)
      BY <2>4, <3>1 DEF Straight
    <3>3. Switches(s) = Switches(u)
      BY <2>1, <2>7, <3>1 DEF SwitchesEnd
    <3>4. Above(s) = Above(u)
      BY <2>7, <3>3 DEF Above
    <3> QED BY <3>1, <3>2, <3>4
  <2>8. ASSUME NEW i \in DOMAIN S, NEW j \in DOMAIN S, Uplink[S[i]] = Uplink[S[j]] PROVE i = j
    <3>1. (i = 1 \/ i \in 2..Len(S)) /\ (j = 1 \/ j \in 2..Len(S))
      BY <2>1
    <3>2. CASE i = 1 /\ j = 1
      BY <3>2
    <3>3. CASE i = 1 /\ j \in 2..Len(S)
      BY <2>1, <2>7, <2>8, <3>3
    <3>4. CASE i \in 2..Len(S) /\ j = 1
      BY <2>1, <2>7, <2>8, <3>4
    <3>5. CASE i \in 2..Len(S) /\ j \in 2..Len(S)
      <4>1. \A k, l \in DOMAIN T : Uplink[T[k]] = Uplink[T[l]] => k = l
        BY <2>3 DEF Straight, T
      <4>2. i - 1 \in DOMAIN T /\ j - 1 \in DOMAIN T /\ S[i] = T[i - 1] /\ S[j] = T[j - 1]
        BY <2>1, <3>5
      <4>3. i - 1 = j - 1
        BY <2>8, <4>1, <4>2
      <4> QED BY <3>5, <4>3
    <3> QED BY <3>1, <3>2, <3>3, <3>4, <3>5
  <2> QED BY <2>5, <2>6, <2>8 DEF Straight, S, n
<1> QED BY <1>2, <1>3

LEMMA SpawnChain ==
    ASSUME SwitchesEnd, Base, NEW p \in Procs, Spawn(p), Uplink[p[1]] # p[1],
           \A q \in Procs : ChainOK(q), \A q \in Procs : Ages(q)
    PROVE  ChainOK(p)'
<1> DEFINE n == p[1]  u == Uplink[n]
<1>1. n \in Names /\ state[p] = "none" /\ state' = [state EXCEPT ![p] = "idle"] /\ DOMAIN state = Procs
  BY DEF Procs, Spawn, Goes, Base
<1>2. Straight(n)
  BY SpawnStraight
<1>3. ASSUME NEW m \in (Above(n) \cap Names)
      PROVE  \E q \in Procs : q[1] = m /\ state[q] # "none" /\ (Fine(n) => state[q] = "up")
  <2>1. u # None
    <3>1. u = None => Above(n) = {None}
      BY <1>1, AboveTop
    <3> QED BY <1>3, <3>1, EntitydAssumption
  <2>2. PICK q \in Procs : q[1] = u /\ state[q] \in {"up", "aborted"}
    BY <2>1 DEF Spawn
  <2>3. CASE m = u
    BY <2>2, <2>3 DEF Fine, Above
  <2>4. CASE m # u
    <3>1. Role[u] = "switch"
      <4>1. Role[u] # "switch" => Above(n) = {u}
        BY <1>1, AboveTop
      <4> QED BY <1>3, <2>4, <4>1
    <3>2. Above(n) = {u} \cup Above(u)
      BY <1>1, <2>1, <3>1, AboveSwitch
    <3>3. PICK y \in Procs : y[1] = m /\ state[y] # "none" /\ (Fine(u) => state[y] = "up")
      BY <1>3, <2>2, <2>4, <3>2 DEF ChainOK
    <3>4. Fine(n) => Fine(u)
      BY <3>2, FineAbove
    <3> QED BY <3>3, <3>4
  <2> QED BY <2>3, <2>4
<1>4. ASSUME NEW m \in (Above(n) \cap Names)
      PROVE  \E q \in Procs : q[1] = m /\ state'[q] # "none" /\ (Fine(n)' => state'[q] = "up")
  <2>1. PICK q \in Procs : q[1] = m /\ state[q] # "none" /\ (Fine(n) => state[q] = "up")
    BY <1>3
  <2>2. state'[q] = state[q]
    BY <1>1, <2>1
  <2>3. Fine(n)' => Fine(n)
    BY FineBefore
  <2> QED BY <2>1, <2>2, <2>3
<1>5. Straight(n)' /\ Above(n)' = Above(n)
  BY <1>2 DEF Straight, Above
<1> QED BY <1>4, <1>5 DEF ChainOK

(* What is above a process is up and mounted, as long as all is well. *)
LEMMA AboveUp ==
    ASSUME SwitchesEnd, Base, Tidy, NEW p \in Procs, ChainOK(p), state[p] # "none", Fine(p[1]),
           NEW m \in Names, m \in Above(p[1])
    PROVE  /\ mnt[m] \in Procs /\ mnt[m][1] = m /\ state[mnt[m]] = "up" /\ mnt[m] # None
           /\ \A q \in Procs : q[1] = m /\ Alive(q) => q = mnt[m]
<1>1. PICK q \in Procs : q[1] = m /\ state[q] = "up"
  BY DEF ChainOK
<1>2. Working(q) /\ Alive(q)
  BY <1>1 DEF Working, Alive
<1>3. Done(q) >= 2
  <2>1. Done(q) = Len(add_network(m)) /\ Len(add_network(m)) >= 2
    BY <1>1, <1>2, DoneFacts, NetworkFacts
  <2> QED BY <2>1
<1>4. Holds(q)
  BY <1>2, <1>3 DEF Base, ListsOK, Holds
<1>5. mnt[m] = q
  BY <1>1, <1>4 DEF Tidy, MountOK
<1>6. q # None
  BY EntitydAssumption
<1>7. \A y \in Procs : y[1] = m /\ Alive(y) => y = q
  BY <1>1, <1>2, OneAlive DEF Tidy
<1> QED BY <1>1, <1>5, <1>6, <1>7

-----------------------------------------------------------------------------

LEMMA PastMove ==
    ASSUME SwitchesEnd, Base, NEW p \in Procs, Working(p), Past(p, MoveUp(p[1]))
    PROVE  Uplink[p[1]] \in Names
<1> DEFINE n == p[1]  net == add_network(n)
<1>1. n \in Names /\ Len(net) \in Nat /\ Done(p) \in Nat /\ Done(p) <= Len(net)
  BY DoneFacts
<1>2. PICK j \in 1..Done(p) : net[j] = MoveUp(n)
  BY DEF Past
<1>3. /\ net[1] = Umount /\ net[2] = Mount
      /\ \A i \in 3..Len(net) : net[i] \in Setups(n)
  BY <1>1, NetworkFacts
<1>4. MoveUp(n).do = "move" /\ Umount.do = "umount" /\ Mount.do = "mount"
      /\ MakesPair.do = "add" /\ MakesBridge.do = "add"
  BY DEF MoveUp, SetTo, Umount, Mount, Mounts, MakesPair, MakesBridge, LinkAdd
<1>5. MoveUp(n) \in Setups(n)
  <2>1. j = 1 \/ j = 2 \/ j \in 3..Len(net)
    BY <1>1
  <2> HIDE DEF net
  <2> QED BY <1>2, <1>3, <1>4, <2>1
<1> QED BY <1>1, <1>4, <1>5, SetupCases

(* The links of p and the mount above it stay what they are, as long as all is well. *)
Keeps(p) ==
    Working(p) /\ Fine(p[1])' =>
        /\ \A l \in {nu(p), nd(p)} :
              /\ loc'[l] = loc[l]
              /\ l \in up => l \in up'
              /\ \A v : <<l, v>> \in addrs => <<l, v>> \in addrs'
        /\ Uplink[p[1]] \in Names => mnt'[Uplink[p[1]]] = mnt[Uplink[p[1]]]

LEMMA JoinKept ==
    ASSUME SwitchesEnd, Base, NEW p \in Procs, JoinOK(p), Steady(p), \A q \in Procs : Ages(q), Keeps(p)
    PROVE  JoinOK(p)'
<1> DEFINE n == p[1]  u == Uplink[n]  a1 == <<Address[n], 1>>  a3 == <<Address[u], 3>>
<1>1. SUFFICES ASSUME Working(p)', Fine(n)'
               PROVE  /\ Past(p, MakesPair)' => loc'[nu(p)] = p
                      /\ Past(p, MakesPair)' /\ ~Past(p, MoveUp(n))' => loc'[nd(p)] = p
                      /\ Past(p, MoveUp(n))' => loc'[nd(p)] = mnt'[u] /\ loc'[nd(p)] # None
                      /\ Past(p, PairUp)' => nu(p) \in up'
                      /\ Past(p, LinkUp(n))' => nd(p) \in up'
                      /\ Past(p, AddrAbove(n))' => <<nd(p), a1>> \in addrs'
                      /\ Role[n] = "client" /\ Past(p, AddrClient(n))' => <<nu(p), a3>> \in addrs'
  BY DEF JoinOK, nu, nd, MakesPair, LinkAdd, MoveUp, SetTo, PairUp, LinkUp, Cmd, AddrAbove, AddrClient, Addr
<1>2. CASE Done(p)' = 0
  <2>1. \A c : ~Past(p, c)'
    BY <1>2 DEF Past
  <2> QED BY <2>1
<1>3. CASE Done(p)' # 0
  <2>1. Working(p) /\ todo'[p] = todo[p]
    BY <1>1, <1>3 DEF Steady
  <2>2. \A c : Past(p, c)' <=> Past(p, c)
    BY <2>1, PastFrame
  <2>3. Fine(n)
    BY <1>1, FineBefore
  <2>4. /\ Past(p, MakesPair) => loc[nu(p)] = p
        /\ Past(p, MakesPair) /\ ~Past(p, MoveUp(n)) => loc[nd(p)] = p
        /\ Past(p, MoveUp(n)) => loc[nd(p)] = mnt[u] /\ loc[nd(p)] # None
        /\ Past(p, PairUp) => nu(p) \in up
        /\ Past(p, LinkUp(n)) => nd(p) \in up
        /\ Past(p, AddrAbove(n)) => <<nd(p), a1>> \in addrs
        /\ Role[n] = "client" /\ Past(p, AddrClient(n)) => <<nu(p), a3>> \in addrs
    BY <2>1, <2>3 DEF JoinOK
  <2>5. /\ \A l \in {nu(p), nd(p)} :
              /\ loc'[l] = loc[l]
              /\ l \in up => l \in up'
              /\ \A v : <<l, v>> \in addrs => <<l, v>> \in addrs'
        /\ u \in Names => mnt'[u] = mnt[u]
    BY <1>1, <2>1 DEF Keeps
  <2>6. Past(p, MoveUp(n)) => u \in Names
    BY <2>1, PastMove
  <2> HIDE DEF a1, a3, n, u
  <2> QED BY <2>2, <2>4, <2>5, <2>6
<1> QED BY <1>2, <1>3

LEMMA KeepsAll ==
    ASSUME UNCHANGED netns, NEW p
    PROVE  Keeps(p)
BY DEF Keeps, netns

(* Nobody unmounts what is above a process at work, or mounts something else there. *)
LEMMA MountKept ==
    ASSUME SwitchesEnd, Base, Tidy, NEW p \in Procs, ChainOK(p), Working(p), Fine(p[1]),
           Uplink[p[1]] \in Names,
           NEW x \in Procs, state[x] \in {"adding", "cleaning"},
           \A m \in Names : m # x[1] => mnt'[m] = mnt[m]
    PROVE  mnt'[Uplink[p[1]]] = mnt[Uplink[p[1]]]
<1> DEFINE u == Uplink[p[1]]
<1>1. u \in Above(p[1])
  BY DEF Above
<1>2. state[mnt[u]] = "up" /\ \A q \in Procs : q[1] = u /\ Alive(q) => q = mnt[u]
  BY <1>1, AboveUp DEF Working
<1>3. x[1] # u
  BY <1>2 DEF Alive
<1> QED BY <1>3

(* Where the links of a process at work are, as long as all is well. *)
LEMMA PairWhere ==
    ASSUME SwitchesEnd, AllOwn, SubnetsDistinct, Supported, Base, NEW p \in Procs, JoinOK(p), Working(p), Fine(p[1])
    PROVE  /\ loc[nu(p)] \in {None, p}
           /\ loc[nd(p)] \in {None, p} \/ (Uplink[p[1]] \in Names /\ loc[nd(p)] = mnt[Uplink[p[1]]])
<1> DEFINE n == p[1]
<1>1. ASSUME ~Past(p, MakesPair), NEW k \in {"nu", "nd"} PROVE loc[<<p, k>>] = None
  <2>1. SUFFICES ASSUME loc[<<p, k>>] # None PROVE FALSE
    OBVIOUS
  <2>2. PICK j \in 1..Done(p) : Adds(n, j, k)
    BY <2>1 DEF Base, AddedOK
  <2>3. n \in Names /\ j \in 1..Len(add_network(n))
    BY DoneFacts
  <2>4. add_network(n)[j] = MakesPair \/ add_network(n)[j] = MakesBridge
    BY <2>2, <2>3, NetworkFacts DEF Adds
  <2>5. k \notin MakesBridge.kinds
    BY DEF MakesBridge, LinkAdd
  <2>6. add_network(n)[j] = MakesPair
    BY <2>2, <2>4, <2>5 DEF Adds
  <2> QED BY <1>1, <2>6 DEF Past
<1>2. CASE ~Past(p, MakesPair)
  BY <1>1, <1>2 DEF nu, nd
<1>3. CASE Past(p, MakesPair)
  BY <1>3, PastMove DEF JoinOK
<1> QED BY <1>2, <1>3

LEMMA KernelReapsKeeps ==
    ASSUME SwitchesEnd, AllOwn, SubnetsDistinct, Supported, Base, Tidy, NEW s \in Procs, KernelReaps(s),
           NEW p \in Procs, ChainOK(p), JoinOK(p)
    PROVE  Keeps(p)
<1> DEFINE gone == WithPeers({l \in Links : loc[l] = s})
<1>1. SUFFICES ASSUME Working(p), Fine(p[1])
               PROVE  nu(p) \notin gone /\ nd(p) \notin gone
  <2>1. /\ UNCHANGED <<mnt, state>>
        /\ loc' = [l \in Links |-> IF l \in gone THEN None ELSE loc[l]]
        /\ up' = up \ gone
        /\ addrs' = {a \in addrs : a[1] \notin gone}
    BY DEF KernelReaps, Reap, Delete, procs
  <2>2. Fine(p[1])' => Fine(p[1])
    BY <2>1 DEF Fine, Above
  <2>3. nu(p) \in Links /\ nd(p) \in Links
    BY OwnNetns
  <2> HIDE DEF gone
  <2> QED BY <2>1, <2>2, <2>3 DEF Keeps
<1>2. ~Kept(s) /\ s # None
  BY OwnNetns DEF KernelReaps
<1>3. p # s
  BY <1>1, <1>2 DEF Kept, Working, Alive
<1>4. Uplink[p[1]] \in Names => mnt[Uplink[p[1]]] # s
  BY <1>2 DEF Kept
<1>5. loc[nu(p)] # s /\ loc[nd(p)] # s
  BY <1>1, <1>2, <1>3, <1>4, PairWhere
<1> QED BY <1>5 DEF WithPeers, nu, nd

LEMMA CleansKeeps ==
    ASSUME SwitchesEnd, AllOwn, Base, Tidy, NEW x \in Procs, Cleans(x), NEW p \in Procs, ChainOK(p)
    PROVE  Keeps(p)
<1> DEFINE c == Head(todo[x])
<1>1. /\ state[x] = "cleaning" /\ UNCHANGED <<daemon, state, cleanups, answer>>
      /\ Possible(x, c) => Effect(x, c)
      /\ ~Possible(x, c) => UNCHANGED netns
      /\ c \in Undos(x[1]) \cup {Umount}
  BY CleansFacts
<1> HIDE DEF c
<1>2. CASE ~Possible(x, c)
  BY <1>1, <1>2, KeepsAll
<1>3. CASE Possible(x, c)
  <2>1. SUFFICES ASSUME Working(p), Fine(p[1])'
                 PROVE  /\ \A l \in {nu(p), nd(p)} :
                              /\ loc'[l] = loc[l]
                              /\ l \in up => l \in up'
                              /\ \A v : <<l, v>> \in addrs => <<l, v>> \in addrs'
                        /\ Uplink[p[1]] \in Names => mnt'[Uplink[p[1]]] = mnt[Uplink[p[1]]]
    BY DEF Keeps
  <2>2. \A l \in Links : l[1][1] # x[1] =>
           /\ loc'[l] = loc[l]
           /\ l \in up => l \in up'
           /\ \A v : <<l, v>> \in addrs => <<l, v>> \in addrs'
    BY <1>1, <1>3, CleansNet
  <2>3. p[1] # x[1]
    BY <1>1, <2>1, OneAlive DEF Tidy, Working, Alive
  <2>4. /\ nu(p) \in Links /\ nu(p)[1][1] = p[1]
        /\ nd(p) \in Links /\ nd(p)[1][1] = p[1]
    BY OwnNetns DEF nu, nd
  <2>5. Fine(p[1])
    BY <1>1, <2>1 DEF Fine, Above
  <2>6. \A m \in Names : m # x[1] => mnt'[m] = mnt[m]
    <3>1. /\ c.do = "umount" => mnt' = [mnt EXCEPT ![x[1]] = None]
          /\ c.do \in {"del", "down", "move", "addrDel", "routeDel"} => mnt' = mnt
      BY <1>1, <1>3, EffectFacts
    <3>2. c.do \in {"umount", "del", "down", "move", "addrDel", "routeDel"}
      <4>1. x[1] \in Names
        BY OwnNetns
      <4> QED BY <1>1, <4>1, UndoCases DEF Umount, Mounts, MoveBack, SetTo
    <3>3. DOMAIN mnt = Names
      BY DEF Base, NetOK
    <3> QED BY <3>1, <3>2, <3>3
  <2>7. Uplink[p[1]] \in Names => mnt'[Uplink[p[1]]] = mnt[Uplink[p[1]]]
    BY <1>1, <2>1, <2>5, <2>6, MountKept
  <2> QED BY <2>2, <2>3, <2>4, <2>7
<1> QED BY <1>2, <1>3

(* What a command of x does to its pair, and to the mounts. *)
LEMMA ExecutesPair ==
    ASSUME SwitchesEnd, AllOwn, Base, Tidy, NEW x \in Procs, Executes(x), NEW c, c = Head(todo[x])
    PROVE  /\ c = MakesPair => loc'[nu(x)] = x /\ loc'[nd(x)] = x
           /\ c # MakesPair => loc'[nu(x)] = loc[nu(x)]
           /\ c = MoveUp(x[1]) =>
                 loc'[nd(x)] = mnt[Uplink[x[1]]] /\ mnt[Uplink[x[1]]] # None /\ mnt' = mnt
           /\ c \notin {MakesPair, MoveUp(x[1])} => loc'[nd(x)] = loc[nd(x)]
           /\ \A m \in Names : m # x[1] => mnt'[m] = mnt[m]
<1>1. /\ Possible(x, c) /\ Effect(x, c) /\ c \in Setups(x[1]) \cup {Umount, Mount}
      /\ Done(x) \in Nat
      /\ Done(x) = 0 => c = Umount
      /\ Done(x) = 1 => c = Mount
  BY ExecutesFacts
<1>2. /\ Netns(x) = x /\ x[1] \in Names /\ nu(x) \in Links /\ nd(x) \in Links
      /\ DOMAIN loc = Links /\ DOMAIN mnt = Names
      /\ nu(x)[1] = x /\ nd(x)[1] = x /\ nu(x)[2] = "nu" /\ nd(x)[2] = "nd" /\ nu(x) # nd(x)
  BY OwnNetns DEF Base, NetOK, nu, nd
<1>3. /\ MakesPair.do = "add" /\ MakesBridge.do = "add" /\ MakesPair # MakesBridge
      /\ MakesPair.kinds = {"nu", "nd"} /\ MakesBridge.kinds = {"nb"}
      /\ MoveUp(x[1]).do = "move" /\ Umount.do = "umount" /\ Mount.do = "mount"
  BY DEF MakesPair, MakesBridge, LinkAdd, MoveUp, SetTo, Umount, Mount, Mounts
<1>4. CASE c \in {Umount, Mount}
  <2>1. loc' = loc /\ (mnt' = [mnt EXCEPT ![x[1]] = None] \/ mnt' = [mnt EXCEPT ![x[1]] = Netns(x)])
    BY <1>1, <1>3, <1>4, EffectFacts
  <2>2. c # MakesPair /\ c # MoveUp(x[1])
    BY <1>3, <1>4
  <2> QED BY <1>2, <2>1, <2>2
<1>5. CASE c.do \in {"up", "master", "addrAdd", "routeAdd"}
  <2>1. loc' = loc /\ mnt' = mnt
    BY <1>1, <1>5, EffectFacts
  <2>2. c # MakesPair /\ c # MoveUp(x[1])
    BY <1>3, <1>5
  <2> QED BY <2>1, <2>2
<1>6. CASE c = MakesPair \/ c = MakesBridge
  <2>1. /\ loc' = [l \in Links |-> IF l[1] = x /\ l[2] \in c.kinds THEN x ELSE loc[l]]
        /\ mnt' = mnt
    BY <1>1, <1>2, <1>3, <1>6, EffectFacts
  <2>2. c # MoveUp(x[1])
    BY <1>3, <1>6
  <2>3. c = MakesPair => loc'[nu(x)] = x /\ loc'[nd(x)] = x
    BY <1>2, <1>3, <2>1
  <2>4. c = MakesBridge => loc'[nu(x)] = loc[nu(x)] /\ loc'[nd(x)] = loc[nd(x)]
    BY <1>2, <1>3, <2>1
  <2> QED BY <1>3, <1>6, <2>1, <2>2, <2>3, <2>4
<1>7. CASE c = MoveUp(x[1]) /\ Uplink[x[1]] \in Names
  <2>1. Done(x) >= 2
    BY <1>1, <1>3, <1>7
  <2>2. /\ Move(nd(x), mnt[Uplink[x[1]]]) /\ mnt' = mnt /\ mnt[Uplink[x[1]]] \in Procs
    BY <1>7, <2>1, MoveUpMoves
  <2>3. loc' = [loc EXCEPT ![nd(x)] = mnt[Uplink[x[1]]]]
    BY <2>2 DEF Move
  <2>4. mnt[Uplink[x[1]]] # None
    BY <2>2, OwnNetns
  <2> QED BY <1>2, <1>3, <1>7, <2>2, <2>3, <2>4
<1>8. c.do # "throw"
  BY <1>1, EffectFacts
<1>9. \/ c \in {Umount, Mount} \/ c.do \in {"up", "master", "addrAdd", "routeAdd"}
      \/ c = MakesPair \/ c = MakesBridge
      \/ (c = MoveUp(x[1]) /\ Uplink[x[1]] \in Names)
  BY <1>1, <1>2, <1>8, SetupCases
<1> QED BY <1>4, <1>5, <1>6, <1>7, <1>9

LEMMA ExecutesKeeps ==
    ASSUME SwitchesEnd, AllOwn, Base, Tidy, NEW x \in Procs, Executes(x), NEW p \in Procs, p # x, ChainOK(p)
    PROVE  Keeps(p)
<1> DEFINE c == Head(todo[x])
<1>1. SUFFICES ASSUME Working(p), Fine(p[1])'
               PROVE  /\ \A l \in {nu(p), nd(p)} :
                            /\ loc'[l] = loc[l]
                            /\ l \in up => l \in up'
                            /\ \A v : <<l, v>> \in addrs => <<l, v>> \in addrs'
                      /\ Uplink[p[1]] \in Names => mnt'[Uplink[p[1]]] = mnt[Uplink[p[1]]]
  BY DEF Keeps
<1>2. /\ \A l \in Links : l[1] # x => loc'[l] = loc[l]
      /\ \A l \in up : l \in up' \/ l = nd(x)
      /\ \A a \in addrs : a \in addrs' \/ a[1] = nd(x)
  BY ExecutesNet
<1>3. \A m \in Names : m # x[1] => mnt'[m] = mnt[m]
  BY ExecutesPair
<1>4. /\ nu(p) \in Links /\ nu(p)[1] = p /\ nu(p) # nd(x)
      /\ nd(p) \in Links /\ nd(p)[1] = p /\ nd(p) # nd(x)
  BY OwnNetns DEF nu, nd
<1>5. state[x] = "adding" /\ state' = state
  BY ExecutesFacts
<1>6. Fine(p[1])
  BY <1>1, <1>5 DEF Fine, Above
<1>7. Uplink[p[1]] \in Names => mnt'[Uplink[p[1]]] = mnt[Uplink[p[1]]]
  BY <1>1, <1>3, <1>5, <1>6, MountKept
<1> QED BY <1>2, <1>4, <1>7

LEMMA ExecutesJoin ==
    ASSUME SwitchesEnd, AllOwn, SubnetsDistinct, Supported, Base, Tidy, NEW p \in Procs, Executes(p),
           ChainOK(p), JoinOK(p), Fine(p[1])
    PROVE  JoinOK(p)'
<1> DEFINE n == p[1]  u == Uplink[n]  a1 == <<Address[n], 1>>  a3 == <<Address[u], 3>>  c == Head(todo[p])
<1>1. SUFFICES /\ Past(p, MakesPair)' => loc'[nu(p)] = p
               /\ Past(p, MakesPair)' /\ ~Past(p, MoveUp(n))' => loc'[nd(p)] = p
               /\ Past(p, MoveUp(n))' => loc'[nd(p)] = mnt'[u] /\ loc'[nd(p)] # None
               /\ Past(p, PairUp)' => nu(p) \in up'
               /\ Past(p, LinkUp(n))' => nd(p) \in up'
               /\ Past(p, AddrAbove(n))' => <<nd(p), a1>> \in addrs'
               /\ Role[n] = "client" /\ Past(p, AddrClient(n))' => <<nu(p), a3>> \in addrs'
  BY DEF JoinOK, nu, nd, MakesPair, LinkAdd, MoveUp, SetTo, PairUp, LinkUp, Cmd, AddrAbove, AddrClient, Addr
<1>2. /\ state[p] = "adding" /\ Working(p) /\ Possible(p, c) /\ c = add_network(n)[Done(p) + 1]
      /\ Done(p) \in Nat /\ Done(p) + 1 <= Len(add_network(n))
      /\ Done(p) = 0 => c = Umount
      /\ Done(p) = 1 => c = Mount
  BY ExecutesFacts DEF Working
<1>3. \A d : Past(p, d)' <=> Past(p, d) \/ d = c
  BY PastExecutes
<1>4. /\ Past(p, MakesPair) => loc[nu(p)] = p
      /\ Past(p, MakesPair) /\ ~Past(p, MoveUp(n)) => loc[nd(p)] = p
      /\ Past(p, MoveUp(n)) => loc[nd(p)] = mnt[u] /\ loc[nd(p)] # None
      /\ Past(p, PairUp) => nu(p) \in up
      /\ Past(p, LinkUp(n)) => nd(p) \in up
      /\ Past(p, AddrAbove(n)) => <<nd(p), a1>> \in addrs
      /\ Role[n] = "client" /\ Past(p, AddrClient(n)) => <<nu(p), a3>> \in addrs
  BY <1>2 DEF JoinOK
<1>5. /\ c = MakesPair => loc'[nu(p)] = p /\ loc'[nd(p)] = p
      /\ c # MakesPair => loc'[nu(p)] = loc[nu(p)]
      /\ c = MoveUp(n) => loc'[nd(p)] = mnt[u] /\ mnt[u] # None /\ mnt' = mnt
      /\ c \notin {MakesPair, MoveUp(n)} => loc'[nd(p)] = loc[nd(p)]
      /\ \A m \in Names : m # n => mnt'[m] = mnt[m]
  BY ExecutesPair
<1>6. /\ \A l \in up : l \in up' \/ (c.do = "move" /\ l = nd(p))
      /\ c.do = "up" => Link(p, c) \subseteq up'
      /\ \A a \in addrs : a \in addrs' \/ (c.do = "move" /\ a[1] = nd(p))
      /\ c.do = "addrAdd" => \A l \in Link(p, c) : <<l, c.addr>> \in addrs'
  BY ExecutesNet
<1>7. nu(p) \in Links /\ nd(p) \in Links /\ nu(p) # nd(p) /\ Netns(p) = p /\ n \in Names /\ p # None
  BY OwnNetns DEF nu, nd
<1>8. CASE Role[n] = "root"
  <2>1. c \in {Umount, Mount}
    <3>1. Len(add_network(n)) = 2
      BY <1>7, <1>8, RootList
    <3> QED BY <1>2, <3>1
  <2>2. \A d : Past(p, d)' => d \in {Umount, Mount}
    BY <1>2, <1>3, <1>8, <2>1, RootPast
  <2>3. {Umount, Mount} \cap {MakesPair, MoveUp(n), PairUp, LinkUp(n), AddrAbove(n), AddrClient(n)} = {}
    BY DEF Umount, Mount, Mounts, MakesPair, LinkAdd, MoveUp, SetTo, PairUp, LinkUp, Cmd, AddrAbove,
           AddrClient, Addr
  <2> QED BY <2>2, <2>3
<1>9. CASE Role[n] # "root"
  <2>1. u \in Names /\ u # n
    <3>1. u \in Names
      BY <1>7, <1>9, EntitydAssumption DEF Supported
    <3> QED BY <1>2, <3>1 DEF Tidy, NoSelf
  <2>2. mnt'[u] = mnt[u]
    BY <1>5, <2>1
  <2> DEFINE net == add_network(n)  D == Done(p)
  <2>3. PICK M \in {5, 8} :
           /\ Past(p, MakesPair) <=> D >= 3
           /\ Past(p, PairUp) <=> D >= 4
           /\ Past(p, MoveUp(n)) <=> D >= M
           /\ Past(p, LinkUp(n)) => D > M
           /\ Past(p, AddrAbove(n)) => D > M
           /\ \A j \in 1..Len(net) :
                 /\ net[j] = MakesPair => j = 3
                 /\ net[j] = PairUp => j = 4
                 /\ net[j].do = "move" => j = M /\ net[j] = MoveUp(n)
                 /\ net[j] \in {LinkUp(n), AddrAbove(n), AddrClient(n)} => j > M
    BY <1>2, <1>9, JoinPast
  <2>4. D \in Nat /\ D + 1 \in 1..Len(net) /\ c = net[D + 1]
    <3>1. Len(net) \in Nat
      BY <1>7, NetworkFacts
    <3> QED BY <1>2, <3>1
  <2> HIDE DEF net, D, c
  <2>5. /\ c = MakesPair => ~Past(p, MoveUp(n))
        /\ c = PairUp => Past(p, MakesPair)
        /\ c.do = "move" => /\ c = MoveUp(n) /\ Past(p, MakesPair)
                            /\ ~Past(p, LinkUp(n)) /\ ~Past(p, AddrAbove(n))
        /\ c \in {LinkUp(n), AddrAbove(n), AddrClient(n)} => Past(p, MakesPair) /\ Past(p, MoveUp(n))
    BY <2>3, <2>4
  <2>6. /\ Past(p, MakesPair)' => loc'[nu(p)] = p
        /\ Past(p, MakesPair)' /\ ~Past(p, MoveUp(n))' => loc'[nd(p)] = p
        /\ Past(p, MoveUp(n))' => loc'[nd(p)] = mnt'[u] /\ loc'[nd(p)] # None
    <3>1. MakesPair # MoveUp(n)
      BY DEF MakesPair, LinkAdd, MoveUp, SetTo
    <3> QED BY <1>3, <1>4, <1>5, <2>2, <2>5, <3>1
  <2>7. ASSUME c.at = None, c.kind = "nu", Past(p, MakesPair) PROVE nu(p) \in Link(p, c)
    BY <1>4, <1>7, <2>7 DEF Link, Named, Where, nu
  <2>8. ASSUME c.at = u, c.kind = "nd", Past(p, MoveUp(n)) PROVE nd(p) \in Link(p, c)
    <3>1. u # None
      BY <2>1, EntitydAssumption
    <3> QED BY <1>4, <1>7, <2>8, <3>1 DEF Link, Named, Where, nd
  <2>9. Past(p, PairUp)' => nu(p) \in up'
    <3>1. c = PairUp => c.do = "up" /\ c.at = None /\ c.kind = "nu"
      BY DEF PairUp, Cmd
    <3> QED BY <1>3, <1>4, <1>6, <1>7, <2>5, <2>7, <3>1
  <2>10. Past(p, LinkUp(n))' => nd(p) \in up'
    <3>1. c = LinkUp(n) => c.do = "up" /\ c.at = u /\ c.kind = "nd"
      BY DEF LinkUp, Cmd
    <3> QED BY <1>3, <1>4, <1>6, <2>5, <2>8, <3>1
  <2>11. Past(p, AddrAbove(n))' => <<nd(p), a1>> \in addrs'
    <3>1. c = AddrAbove(n) => c.do = "addrAdd" /\ c.at = u /\ c.kind = "nd" /\ c.addr = a1
      BY DEF AddrAbove, Addr
    <3> HIDE DEF a1
    <3> QED BY <1>3, <1>4, <1>6, <2>5, <2>8, <3>1
  <2>12. Role[n] = "client" /\ Past(p, AddrClient(n))' => <<nu(p), a3>> \in addrs'
    <3>1. c = AddrClient(n) => c.do = "addrAdd" /\ c.at = None /\ c.kind = "nu" /\ c.addr = a3
      BY DEF AddrClient, Addr
    <3> HIDE DEF a3
    <3> QED BY <1>3, <1>4, <1>6, <1>7, <2>5, <2>7, <3>1
  <2> QED BY <2>6, <2>9, <2>10, <2>11, <2>12
<1> QED BY <1>8, <1>9

-----------------------------------------------------------------------------

LEMMA UndoRoute ==
    ASSUME NEW p \in Procs, NEW c \in Setups(p[1]) \cup {Umount, Mount}, NEW a, NEW to,
           NEW j \in 1..Len(Undo(p, c)), Undo(p, c)[j] = RouteDel(a, to)
    PROVE  c.do = "routeAdd" /\ c.at = a /\ c.to = to
<1> DEFINE n == p[1]
<1>1. RouteDel(a, to).do = "routeDel"
  BY DEF RouteDel
<1>2. ASSUME NEW d, Undo(p, c) = <<d>> PROVE d = RouteDel(a, to)
  <2>1. j = 1
    BY <1>2
  <2> QED BY <1>2, <2>1
<1>3. Undo(p, c) # <<>>
  OBVIOUS
<1>4. CASE c.do = "routeAdd"
  <2>1. RouteDel(c.at, c.to) = RouteDel(a, to)
    BY <1>2, <1>4, UndoFacts
  <2> QED BY <1>4, <2>1 DEF RouteDel
<1>5. CASE c.do # "routeAdd"
  <2>1. c = Mount \/ c = Umount \/ c = MoveUp(n) => FALSE
    <3>1. Umount.do # "routeDel" /\ MoveBack(n).do # "routeDel"
      BY DEF Umount, Mounts, MoveBack, SetTo
    <3> QED BY <1>1, <1>2, <1>3, <3>1, UndoFacts
  <2>2. c = MakesPair \/ c = MakesBridge => FALSE
    <3>1. /\ c = MakesPair => Undo(p, c) = <<Cmd("del", None, "nu")>>
          /\ c = MakesBridge => Undo(p, c) = <<Cmd("del", None, "nb")>>
      BY DEF Undo, MakesPair, MakesBridge, LinkAdd
    <3>2. Cmd("del", None, "nu").do # "routeDel" /\ Cmd("del", None, "nb").do # "routeDel"
      BY DEF Cmd
    <3> QED BY <1>1, <1>2, <3>1, <3>2
  <2>3. c.do = "up" => FALSE
    <3>1. c.do = "up" => Undo(p, c) = <<>> \/ Undo(p, c) = <<Cmd("down", c.at, c.kind)>>
      BY DEF Undo
    <3>2. Cmd("down", c.at, c.kind).do # "routeDel"
      BY DEF Cmd
    <3> QED BY <1>1, <1>2, <1>3, <3>1, <3>2
  <2>4. c.do \in {"master", "throw"} => FALSE
    <3>1. c.do \in {"master", "throw"} => Undo(p, c) = <<>>
      BY DEF Undo
    <3> QED BY <1>3, <3>1
  <2>5. c.do = "addrAdd" => FALSE
    <3>1. c.do = "addrAdd" => c = AddrAbove(n) \/ c = AddrBridge(n) \/ c = AddrClient(n)
      BY DEF Setups, Makes, Joins, Umount, Mount, Mounts, MakesPair, MakesBridge, LinkAdd, PairUp,
             BridgeUp, LinkUp, Cmd, MoveUp, SetTo, Throw, RouteAdd
    <3>2. /\ c = AddrAbove(n) => Undo(p, c) = <<Addr("addrDel", Uplink[n], "nd", Address[n], 1)>>
          /\ c = AddrBridge(n) => Undo(p, c) = <<Addr("addrDel", None, "nb", Address[n], 2)>>
          /\ c = AddrClient(n) => Undo(p, c) = <<Addr("addrDel", None, "nu", Address[Uplink[n]], 3)>>
      BY DEF Undo, AddrAbove, AddrBridge, AddrClient, Addr
    <3>3. /\ Addr("addrDel", Uplink[n], "nd", Address[n], 1).do # "routeDel"
          /\ Addr("addrDel", None, "nb", Address[n], 2).do # "routeDel"
          /\ Addr("addrDel", None, "nu", Address[Uplink[n]], 3).do # "routeDel"
      BY DEF Addr
    <3> QED BY <1>1, <1>2, <3>1, <3>2, <3>3
  <2>6. n \in Names
    BY DEF Procs
  <2> QED BY <1>5, <2>1, <2>2, <2>3, <2>4, <2>5, <2>6, SetupCases
<1> QED BY <1>4, <1>5

LEMMA CleanKept ==
    ASSUME Base', NEW p \in Procs, CleanPast(p), Steady(p)
    PROVE  CleanPast(p)'
<1> DEFINE n == p[1]  to == Address[n]
<1>1. SUFFICES ASSUME Working(p)', NEW a \in Names, Pending(p, RouteDel(a, to))'
               PROVE  \E i \in 1..Done(p)' : LET c == add_network(n)[i] IN
                         c.do = "routeAdd" /\ c.at = a /\ c.to = to
  BY DEF CleanPast, RouteDel
<1>2. cleanups'[p] # <<>>
  BY <1>1 DEF Pending, Working
<1>3. Done(p)' # 0
  BY <1>1, <1>2 DEF Base, ListsOK
<1>4. Working(p) /\ todo'[p] = todo[p] /\ cleanups'[p] = cleanups[p]
  BY <1>1, <1>3 DEF Steady
<1>5. Pending(p, RouteDel(a, to))
  BY <1>1, <1>4 DEF Pending, Working, RouteDel
<1>6. Done(p)' = Done(p)
  BY <1>4 DEF Done
<1> QED BY <1>1, <1>4, <1>5, <1>6 DEF CleanPast

LEMMA ExecutesClean ==
    ASSUME SwitchesEnd, Base, NEW p \in Procs, CleanPast(p), Executes(p)
    PROVE  CleanPast(p)'
<1> DEFINE n == p[1]  to == Address[n]  c == Head(todo[p])
<1>1. SUFFICES ASSUME NEW a \in Names, Pending(p, RouteDel(a, to))'
               PROVE  \E i \in 1..Done(p)' : LET d == add_network(n)[i] IN
                         d.do = "routeAdd" /\ d.at = a /\ d.to = to
  BY DEF CleanPast, RouteDel
<1>2. /\ c = add_network(n)[Done(p) + 1] /\ c \in Setups(n) \cup {Umount, Mount}
      /\ Done(p) \in Nat /\ Done(p)' = Done(p) + 1 /\ state[p] = "adding"
  BY ExecutesFacts
<1>3. Pending(p, RouteDel(a, to)) \/ \E j \in 1..Len(Undo(p, c)) : Undo(p, c)[j] = RouteDel(a, to)
  <2>1. \A d : Pending(p, d)' => Pending(p, d) \/ \E j \in 1..Len(Undo(p, c)) : Undo(p, c)[j] = d
    BY ExecutesProc
  <2>2. \E d : d = RouteDel(a, to) /\ Pending(p, d)'
    BY <1>1 DEF Pending, RouteDel
  <2> QED BY <2>1, <2>2
<1> HIDE DEF c
<1>4. CASE Pending(p, RouteDel(a, to))
  <2>1. PICK i \in 1..Done(p) : LET d == add_network(n)[i] IN d.do = "routeAdd" /\ d.at = a /\ d.to = to
    BY <1>2, <1>4 DEF CleanPast, Working
  <2>2. i \in 1..Done(p)'
    BY <1>2
  <2> QED BY <2>1, <2>2
<1>5. CASE \E j \in 1..Len(Undo(p, c)) : Undo(p, c)[j] = RouteDel(a, to)
  <2>1. c.do = "routeAdd" /\ c.at = a /\ c.to = to
    BY <1>2, <1>5, UndoRoute
  <2>2. Done(p) + 1 \in 1..Done(p)'
    BY <1>2
  <2> QED BY <1>2, <2>1, <2>2
<1> QED BY <1>3, <1>4, <1>5

LEMMA FreshKept ==
    ASSUME AllOwn, Base, NEW p \in Procs, FreshOK(p), Steady(p), addrs' \subseteq addrs, routes' \subseteq routes
    PROVE  FreshOK(p)'
<1> DEFINE n == p[1]  a1 == <<nd(p), <<Address[n], 1>>>>  a3 == <<nu(p), <<Address[Uplink[n]], 3>>>>
<1>1. ASSUME state[p] = "idle" PROVE a1 \notin addrs /\ a3 \notin addrs
  <2>1. loc[nd(p)] = None /\ loc[nu(p)] = None
    BY <1>1 DEF Base, AddedOK, nd, nu
  <2>2. a1[1] = nd(p) /\ a3[1] = nu(p)
    OBVIOUS
  <2> QED BY <2>1, <2>2 DEF Base, NetOK
<1>2. ASSUME Working(p)'
      PROVE  /\ a1 \in addrs' => Past(p, AddrAbove(n))'
             /\ Role[n] = "client" /\ a3 \in addrs' => Past(p, AddrClient(n))'
  <2>1. CASE state[p] = "idle"
    BY <1>1, <2>1
  <2>2. CASE Working(p) /\ todo'[p] = todo[p]
    <3>1. /\ a1 \in addrs => Past(p, AddrAbove(n))
          /\ Role[n] = "client" /\ a3 \in addrs => Past(p, AddrClient(n))
      BY <2>2 DEF FreshOK
    <3>2. \A c : Past(p, c)' <=> Past(p, c)
      BY <2>2, PastFrame
    <3> HIDE DEF a1, a3
    <3> QED BY <3>1, <3>2
  <2> QED BY <1>2, <2>1, <2>2 DEF Steady
<1> DEFINE Early == state[p] \in {"none", "idle"} \/ (state[p] = "adding" /\ todo[p] # <<>>)
<1>3. ASSUME state'[p] \in {"none", "idle"} \/ (state'[p] = "adding" /\ todo'[p] # <<>>) PROVE Early
  <2>1. CASE state'[p] \in {"none", "idle"}
    BY <2>1 DEF Steady
  <2>2. CASE state'[p] = "adding" /\ todo'[p] # <<>>
    <3>1. Working(p) => (state[p] = "up" => todo[p] = <<>>)
      BY DEF Base, ListsOK
    <3> QED BY <2>2, <3>1 DEF Steady, Working
  <2> QED BY <1>3, <2>1, <2>2
<1>4. Early => ~\E r \in routes : r.in = p /\ r.to = "default"
  BY DEF FreshOK
<1> HIDE DEF Early
<1>5. state'[p] \in {"none", "idle"} \/ (state'[p] = "adding" /\ todo'[p] # <<>>) =>
         ~\E r \in routes' : r.in = p /\ r.to = "default"
  BY <1>3, <1>4
<1> QED BY <1>2, <1>5 DEF FreshOK, nd, nu, AddrAbove, AddrClient, Addr

LEMMA ExecutesFresh ==
    ASSUME SwitchesEnd, AllOwn, SubnetsDistinct, Supported, Base, Tidy, NEW x \in Procs, Executes(x),
           NEW p \in Procs, FreshOK(p)
    PROVE  FreshOK(p)'
<1> DEFINE n == p[1]  c == Head(todo[x])
           b1 == <<Address[n], 1>>  b3 == <<Address[Uplink[n]], 3>>
           a1 == <<nd(p), b1>>  a3 == <<nu(p), b3>>
<1>1. /\ state[x] = "adding" /\ state' = state /\ c = add_network(x[1])[Done(x) + 1]
      /\ c \in Setups(x[1]) \cup {Umount, Mount}
      /\ Done(x) \in Nat /\ Done(x) + 1 <= Len(add_network(x[1])) /\ Done(x)' = Done(x) + 1
      /\ Done(x) = 0 => c = Umount
      /\ Done(x) = 1 => c = Mount
  BY ExecutesFacts
<1>2. /\ \A a \in addrs' : a \in addrs \/ (c.do = "addrAdd" /\ a[1] \in Link(x, c) /\ a[2] = c.addr)
      /\ c.do # "routeAdd" => routes' \subseteq routes
      /\ c.do = "routeAdd" => \E l \in Gateways(Where(x, c), c.via) :
            routes' = routes \cup {[in |-> Where(x, c), to |-> c.to, dev |-> l]}
  BY ExecutesNet
<1>3. /\ \A d : Past(x, d)' <=> Past(x, d) \/ d = c
      /\ \A q \in Procs : \A d : q # x => (Past(q, d)' <=> Past(q, d))
      /\ \A q \in Procs : (Working(q)' <=> Working(q))
  BY PastExecutes
<1>4. \A q \in Procs : q # x => todo'[q] = todo[q]
  BY ExecutesProc
<1>5. x[1] \in Names /\ Netns(x) = x
  BY OwnNetns
<1>6. Done(x) + 1 \in 1..Len(add_network(x[1])) /\ Len(add_network(x[1])) \in Nat
  BY <1>1, <1>5, NetworkFacts
<1>7. \A l \in Link(x, c) : l[1][1] = x[1] /\ l[2] = c.kind
  BY LinkIs
<1> HIDE DEF c
<1>8. /\ c.do = "addrAdd" /\ c.kind = "nd" => c = AddrAbove(x[1])
      /\ c.do = "addrAdd" /\ c.kind = "nu" => c = AddrClient(x[1])
      /\ c.do = "routeAdd" /\ c.to = "default" => Done(x) + 1 = Len(add_network(x[1]))
  <2>1. CASE Role[x[1]] = "root"
    <3>1. c \in {Umount, Mount}
      <4>1. Len(add_network(x[1])) = 2
        BY <1>5, <2>1, RootList
      <4> QED BY <1>1, <4>1
    <3> QED BY <3>1 DEF Umount, Mount, Mounts
  <2>2. CASE Role[x[1]] # "root"
    <3> DEFINE net == add_network(x[1])
    <3>1. \A j \in 1..Len(net) :
             /\ net[j].do = "addrAdd" /\ net[j].kind = "nd" => net[j] = AddrAbove(x[1])
             /\ net[j].do = "addrAdd" /\ net[j].kind = "nu" => net[j] = AddrClient(x[1])
             /\ net[j].do = "routeAdd" /\ net[j].to = "default" => j = Len(net)
      BY <1>5, <2>2, JoinList
    <3> HIDE DEF net
    <3> QED BY <1>1, <1>6, <3>1 DEF net
  <2> QED BY <2>1, <2>2
<1>9. ASSUME Working(p)'
      PROVE  /\ a1 \in addrs' => Past(p, AddrAbove(n))'
             /\ Role[n] = "client" /\ a3 \in addrs' => Past(p, AddrClient(n))'
  <2>1. Working(p)
    BY <1>3, <1>9
  <2>2. /\ a1 \in addrs => Past(p, AddrAbove(n))
        /\ Role[n] = "client" /\ a3 \in addrs => Past(p, AddrClient(n))
    BY <2>1 DEF FreshOK
  <2>3. \A d : Past(p, d) => Past(p, d)'
    BY <1>3
  <2>4. p[1] = x[1] => p = x
    BY <1>1, <2>1, OneAlive DEF Tidy, Working, Alive
  <2>5. /\ a1[1] = nd(p) /\ nd(p)[1][1] = n /\ nd(p)[2] = "nd"
        /\ a3[1] = nu(p) /\ nu(p)[1][1] = n /\ nu(p)[2] = "nu"
    BY DEF nu, nd
  <2>6. a1 \in addrs' => a1 \in addrs \/ (p = x /\ c = AddrAbove(n))
    BY <1>2, <1>7, <1>8, <2>4, <2>5
  <2>7. a3 \in addrs' => a3 \in addrs \/ (p = x /\ c = AddrClient(n))
    BY <1>2, <1>7, <1>8, <2>4, <2>5
  <2> HIDE DEF a1, a3
  <2> QED BY <1>3, <2>2, <2>3, <2>6, <2>7
<1>10. ASSUME state'[p] \in {"none", "idle"} \/ (state'[p] = "adding" /\ todo'[p] # <<>>),
              NEW r \in routes', r.in = p, r.to = "default"
       PROVE  FALSE
  <2>1. state[p] \in {"none", "idle"} \/ (state[p] = "adding" /\ todo[p] # <<>>)
    <3>1. p = x => todo[p] # <<>>
      BY DEF Executes
    <3> QED BY <1>1, <1>4, <1>10, <3>1
  <2>2. r \notin routes
    BY <1>10, <2>1 DEF FreshOK
  <2>3. c.do = "routeAdd" /\ r.in = Where(x, c) /\ c.to = "default"
    BY <1>2, <1>10, <2>2
  <2>4. c.at = None
    <3>1. c \in Setups(x[1])
      BY <1>1, <2>3 DEF Umount, Mount, Mounts
    <3>2. Address[x[1]] # "default"
      BY <1>5 DEF SubnetsDistinct
    <3> QED BY <1>5, <2>3, <3>1, <3>2, SetupCases DEF RouteAdd, MakesPair, MakesBridge, LinkAdd, MoveUp, SetTo
  <2>5. p = x
    BY <1>5, <1>10, <2>3, <2>4 DEF Where
  <2>6. Done(x)' = Len(add_network(x[1]))
    BY <1>1, <1>8, <2>3
  <2>7. Done(x)' = Len(add_network(x[1])) - Len(todo'[x])
    BY DEF Done
  <2>8. todo'[x] \in Seq(Commands)
    <3>1. todo' = [todo EXCEPT ![x] = Tail(todo[x])] /\ Tail(todo[x]) \in Seq(Commands)
      BY ExecutesFacts
    <3>2. DOMAIN todo = Procs
      BY DEF Base
    <3> QED BY <3>1, <3>2
  <2>9. Len(todo'[x]) = 0
    <3>1. Len(todo'[x]) \in Nat
      BY <2>8
    <3> DEFINE L == Len(add_network(x[1]))  T == Len(todo'[x])
    <3>2. L \in Nat /\ T \in Nat /\ L = L - T
      BY <1>6, <2>6, <2>7, <3>1
    <3> HIDE DEF L, T
    <3>3. T = 0
      BY <3>2
    <3> QED BY <3>3 DEF T
  <2>10. todo'[x] = <<>>
    BY <2>8, <2>9
  <2> QED BY <1>1, <1>10, <2>5, <2>10
<1> QED BY <1>9, <1>10 DEF FreshOK, nd, nu, AddrAbove, AddrClient, Addr

-----------------------------------------------------------------------------
(* When a command succeeds. *)

LEMMA PossibleIf ==
    ASSUME NEW p, NEW c
    PROVE  /\ c.do \in {"umount", "mount"} => Possible(p, c)
           /\ c.do = "add" => (Possible(p, c) <=> \A k \in c.kinds : Named(Where(p, c), k, p[1]) = {})
           /\ c.do = "up" => (Possible(p, c) <=> Link(p, c) # {})
           /\ c.do = "master" => (Possible(p, c) <=> Link(p, c) # {} /\ Named(Where(p, c), "nb", c.to) # {})
           /\ c.do = "move" => (Possible(p, c) <=>
                 Link(p, c) # {} /\ mnt[c.to] # None /\ Named(mnt[c.to], c.kind, p[1]) = {})
           /\ c.do = "addrAdd" => (Possible(p, c) <=> \E l \in Link(p, c) : <<l, c.addr>> \notin addrs)
           /\ c.do = "routeAdd" => (Possible(p, c) <=>
                 Gateways(Where(p, c), c.via) # {} /\ Routed(Where(p, c), c.to) = {})
<1>1. c.do \in {"umount", "mount"} => Possible(p, c)
  BY Zenon DEF Possible
<1>2. c.do = "add" => (Possible(p, c) <=> \A k \in c.kinds : Named(Where(p, c), k, p[1]) = {})
  BY Zenon DEF Possible
<1>3. c.do = "up" => (Possible(p, c) <=> Link(p, c) # {})
  BY Zenon DEF Possible
<1>4. c.do = "master" => (Possible(p, c) <=> Link(p, c) # {} /\ Named(Where(p, c), "nb", c.to) # {})
  BY Zenon DEF Possible
<1>5. c.do = "move" => (Possible(p, c) <=>
         Link(p, c) # {} /\ mnt[c.to] # None /\ Named(mnt[c.to], c.kind, p[1]) = {})
  BY Zenon DEF Possible
<1>6. c.do = "addrAdd" => (Possible(p, c) <=> \E l \in Link(p, c) : <<l, c.addr>> \notin addrs)
  BY Zenon DEF Possible
<1>7. c.do = "routeAdd" => (Possible(p, c) <=>
         Gateways(Where(p, c), c.via) # {} /\ Routed(Where(p, c), c.to) = {})
  BY Zenon DEF Possible
<1> QED BY <1>1, <1>2, <1>3, <1>4, <1>5, <1>6, <1>7

(* No process of the same entity has left a link in the namespace of p. *)
LEMMA OwnLinks ==
    ASSUME AllOwn, Base, Tidy, NEW p \in Procs, state[p] # "none", NEW k, NEW l \in Named(p, k, p[1])
    PROVE  l = <<p, k>> /\ loc[<<p, k>>] # None
<1>1. l \in Links /\ l[1][1] = p[1] /\ l[2] = k /\ loc[l] = p /\ p # None
  BY OwnNetns DEF Named
<1>2. PICK y \in Procs, e \in {"nu", "nd", "nb"} : l = <<y, e>>
  BY <1>1 DEF Links
<1>3. y[1] = p[1] /\ e = k /\ loc[<<y, e>>] = p
  BY <1>1, <1>2
<1>4. LinkOK(y) /\ Uplink[p[1]] # p[1]
  BY DEF Tidy, NoSelf
<1>5. y = p
  BY <1>1, <1>3, <1>4 DEF LinkOK, nu, nd, nb
<1> QED BY <1>1, <1>2, <1>3, <1>5

(* A pair, or a bridge, can be added by a process that has not added it yet. *)
LEMMA PossibleAdd ==
    ASSUME SwitchesEnd, AllOwn, Base, Tidy, NEW p \in Procs, state[p] = "adding", todo[p] # <<>>,
           Head(todo[p]).do = "add"
    PROVE  Possible(p, Head(todo[p]))
<1> DEFINE n == p[1]  c == Head(todo[p])  net == add_network(n)  D == Done(p)
<1>1. n \in Names /\ Netns(p) = p
  BY OwnNetns
<1>2. D \in Nat /\ Len(net) \in Nat /\ D + 1 <= Len(net) /\ c = net[D + 1]
  BY <1>1, NextCommand, NetworkFacts
<1>3. \A j \in 1..Len(net) : net[j].do = "add" =>
         (j = 3 /\ net[j] = MakesPair) \/ (j = 5 /\ net[j] = MakesBridge)
  BY <1>1, NetworkFacts
<1>4. /\ MakesPair.at = None /\ MakesPair.kinds = {"nu", "nd"}
      /\ MakesBridge.at = None /\ MakesBridge.kinds = {"nb"}
  BY DEF MakesPair, MakesBridge, LinkAdd
<1>5. D + 1 \in 1..Len(net) /\ \A j \in 1..D : j \in 1..Len(net) /\ j # D + 1
  BY <1>2
<1>6. c \in {MakesPair, MakesBridge}
  BY <1>2, <1>3, <1>5
<1>7. Where(p, c) = p
  BY <1>1, <1>4, <1>6 DEF Where
<1>8. ASSUME NEW k \in c.kinds, NEW l \in Named(p, k, n) PROVE FALSE
  <2>1. loc[<<p, k>>] # None
    BY <1>8, OwnLinks
  <2>2. k \in {"nu", "nd", "nb"}
    BY <1>4, <1>6
  <2>3. PICK j \in 1..D : Adds(n, j, k)
    BY <2>1, <2>2 DEF Base, AddedOK, Working
  <2>4. net[j].do = "add" /\ k \in net[j].kinds
    BY <2>3 DEF Adds
  <2>5. net[j] = c
    BY <1>3, <1>4, <1>5, <1>6, <1>8, <2>4
  <2>6. (j = 3 /\ D + 1 = 3) \/ (j = 5 /\ D + 1 = 5)
    <3>1. MakesPair # MakesBridge
      BY <1>4
    <3> QED BY <1>2, <1>3, <1>5, <2>4, <2>5, <3>1
  <2> QED BY <1>5, <2>6
<1>9. \A k \in c.kinds : Named(Where(p, c), k, n) = {}
  BY <1>7, <1>8
<1> QED BY <1>9, PossibleIf

(* While all is well nobody else of the entity has anything left to undo. *)
LEMMA OwesMe ==
    ASSUME Base, Tidy, AddSucceeds, NEW p \in Procs, Alive(p), Fine(p[1]),
           NEW y \in Procs, y[1] = p[1], NEW c, Owes(y, c)
    PROVE  y = p /\ Pending(p, c)
<1>1. state[y] # "aborted"
  BY DEF AddSucceeds, Fine
<1>2. Pending(y, c)
  BY <1>1 DEF Owes
<1>3. Alive(y)
  BY <1>2, PendingFacts
<1>4. y = p
  BY <1>3, OneAlive DEF Tidy
<1> QED BY <1>2, <1>4

(* The lower end of the pair can be moved to the uplink. *)
LEMMA PossibleMove ==
    ASSUME SwitchesEnd, AllOwn, SubnetsDistinct, Supported, Base, Tidy, Ready,
           NEW p \in Procs, state[p] = "adding", Fine(p[1]),
           Uplink[p[1]] \in Names, Past(p, MakesPair), ~Past(p, MoveUp(p[1]))
    PROVE  Possible(p, MoveUp(p[1]))
<1> DEFINE n == p[1]  u == Uplink[n]  c == MoveUp(n)
<1>1. Working(p) /\ Alive(p) /\ n \in Names /\ Netns(p) = p /\ nd(p) \in Links /\ p # None /\ u # n
  BY OwnNetns DEF Working, Alive, Tidy, NoSelf
<1>2. loc[nd(p)] = p
  BY <1>1 DEF Ready, JoinOK
<1>3. c.do = "move" /\ c.at = None /\ c.kind = "nd" /\ c.to = u
  BY DEF MoveUp, SetTo
<1> HIDE DEF c
<1>4. nd(p) \in Link(p, c)
  BY <1>1, <1>2, <1>3 DEF Link, Named, Where, nd
<1>5. mnt[u] \in Procs /\ mnt[u][1] = u /\ mnt[u] # None
  <2>1. u \in Above(n)
    BY DEF Above
  <2> QED BY <2>1, AboveUp DEF Ready
<1>6. ASSUME NEW l \in Named(mnt[u], "nd", n) PROVE FALSE
  <2>1. l \in Links /\ l[1][1] = n /\ l[2] = "nd" /\ loc[l] = mnt[u]
    BY <1>6 DEF Named
  <2>2. PICK y \in Procs : l = nd(y)
    BY <2>1 DEF Links, nd
  <2>3. y[1] = n /\ loc[nd(y)] = mnt[u] /\ mnt[u] # y
    BY <1>1, <1>5, <2>1, <2>2 DEF nd
  <2>4. Owes(y, MoveBack(n))
    BY <1>5, <2>3 DEF Tidy, LinkOK
  <2>5. y = p
    BY <1>1, <2>3, <2>4, OwesMe DEF Ready
  <2> QED BY <1>1, <1>2, <1>5, <2>3, <2>5
<1>7. Link(p, c) # {} /\ mnt[c.to] # None /\ Named(mnt[c.to], c.kind, n) = {}
  BY <1>3, <1>4, <1>5, <1>6
<1> QED BY <1>3, <1>7, PossibleIf DEF c

(* What is executed in the own namespace. *)
LEMMA PossibleOwn ==
    ASSUME AllOwn, Base, Sound, Ready, NEW p \in Procs, state[p] = "adding", Fine(p[1])
    PROVE  /\ Past(p, MakesPair) => Possible(p, PairUp)
           /\ Past(p, MakesBridge) => Possible(p, BridgeUp)
           /\ Past(p, MakesPair) /\ Past(p, MakesBridge) =>
                 Possible(p, SetTo("master", None, "nu", p[1]))
<1> DEFINE n == p[1]  m == SetTo("master", None, "nu", n)
<1>1. Working(p) /\ Netns(p) = p /\ nu(p) \in Links /\ nb(p) \in Links /\ p # None
  BY OwnNetns DEF Working
<1>2. Past(p, MakesPair) => loc[nu(p)] = p
  BY <1>1 DEF Ready, JoinOK
<1>3. Past(p, MakesBridge) => loc[nb(p)] = p
  BY <1>1 DEF Sound, BridgeOK
<1>4. /\ PairUp.do = "up" /\ PairUp.at = None /\ PairUp.kind = "nu"
      /\ BridgeUp.do = "up" /\ BridgeUp.at = None /\ BridgeUp.kind = "nb"
      /\ m.do = "master" /\ m.at = None /\ m.kind = "nu" /\ m.to = n
  BY DEF PairUp, BridgeUp, Cmd, SetTo
<1> HIDE DEF m
<1>5. loc[nu(p)] = p => nu(p) \in Link(p, PairUp) /\ nu(p) \in Link(p, m)
  BY <1>1, <1>4 DEF Link, Named, Where, nu
<1>6. loc[nb(p)] = p => nb(p) \in Link(p, BridgeUp) /\ nb(p) \in Named(Where(p, m), "nb", m.to)
  BY <1>1, <1>4 DEF Link, Named, Where, nb
<1>7. Past(p, MakesPair) => Possible(p, PairUp)
  BY <1>2, <1>4, <1>5, PossibleIf
<1>8. Past(p, MakesBridge) => Possible(p, BridgeUp)
  BY <1>3, <1>4, <1>6, PossibleIf
<1>9. Past(p, MakesPair) /\ Past(p, MakesBridge) => Possible(p, m)
  BY <1>2, <1>3, <1>4, <1>5, <1>6, PossibleIf
<1> QED BY <1>7, <1>8, <1>9 DEF m

(* What is done to the lower end of the pair after it was moved. *)
LEMMA PossibleAbove ==
    ASSUME SwitchesEnd, AllOwn, Base, Ready, NEW p \in Procs, state[p] = "adding", Fine(p[1]),
           Past(p, MoveUp(p[1]))
    PROVE  /\ Possible(p, LinkUp(p[1]))
           /\ ~Past(p, AddrAbove(p[1])) => Possible(p, AddrAbove(p[1]))
           /\ nd(p) \in Named(mnt[Uplink[p[1]]], "nd", p[1])
<1> DEFINE n == p[1]  u == Uplink[n]  c == LinkUp(n)  d == AddrAbove(n)  a1 == <<Address[n], 1>>
<1>1. Working(p) /\ nd(p) \in Links /\ u \in Names /\ u # None
  BY OwnNetns, PastMove, EntitydAssumption DEF Working
<1>2. loc[nd(p)] = mnt[u] /\ loc[nd(p)] # None
  BY <1>1 DEF Ready, JoinOK
<1>3. /\ c.do = "up" /\ c.at = u /\ c.kind = "nd"
      /\ d.do = "addrAdd" /\ d.at = u /\ d.kind = "nd" /\ d.addr = a1
  BY DEF LinkUp, Cmd, AddrAbove, Addr
<1>4. nd(p) \in Named(mnt[u], "nd", n)
  BY <1>1, <1>2 DEF Named, nd
<1>5. ~Past(p, d) => <<nd(p), a1>> \notin addrs
  BY <1>1 DEF Ready, FreshOK
<1> HIDE DEF c, d, a1
<1>6. nd(p) \in Link(p, c) /\ nd(p) \in Link(p, d)
  BY <1>1, <1>3, <1>4 DEF Link, Where
<1>7. Possible(p, c)
  BY <1>3, <1>6, PossibleIf
<1>8. ~Past(p, d) => Possible(p, d)
  BY <1>3, <1>5, <1>6, PossibleIf
<1> QED BY <1>4, <1>7, <1>8 DEF c, d

(* What a process that is up has done. *)
LEMMA UpPast ==
    ASSUME SwitchesEnd, Base, NEW q \in Procs, state[q] = "up", NEW j \in 1..Len(add_network(q[1]))
    PROVE  Past(q, add_network(q[1])[j])
<1>1. Done(q) = Len(add_network(q[1]))
  BY DoneFacts DEF Working
<1> QED BY <1>1 DEF Past

(* A switch above a process, as long as all is well. *)
LEMMA SwitchUp ==
    ASSUME SwitchesEnd, AllOwn, SubnetsDistinct, Supported, Base, Tidy, Sound, Ready,
           NEW q \in Procs, state[q] = "up", Fine(q[1]), Role[q[1]] = "switch"
    PROVE  /\ Uplink[q[1]] \in Names
           /\ loc[nb(q)] = q
           /\ nd(q) \in Gateways(mnt[Uplink[q[1]]], Address[q[1]])
<1> DEFINE n == q[1]  net == add_network(n)  k == Len(Switches(n))
<1>1. n \in Names /\ Connected(n) /\ Uplink[n] \in Names /\ Working(q)
  BY EntitydAssumption DEF Supported, Connected, Procs, Working
<1>2. /\ k \in Nat /\ Len(net) = k + 12 /\ net[5] = MakesBridge /\ net[8] = MoveUp(n)
      /\ net[9] = AddrAbove(n) /\ net[10 + k] = LinkUp(n)
  BY <1>1, SwitchList
<1>3. \A j \in 1..Len(net) : Past(q, net[j])
  BY UpPast
<1> HIDE DEF net, k
<1>4. 5 \in 1..Len(net) /\ 8 \in 1..Len(net) /\ 9 \in 1..Len(net) /\ 10 + k \in 1..Len(net)
  BY <1>2
<1>5. Past(q, MakesBridge) /\ Past(q, MoveUp(n)) /\ Past(q, AddrAbove(n)) /\ Past(q, LinkUp(n))
  BY <1>2, <1>3, <1>4
<1>6. loc[nb(q)] = q
  BY <1>1, <1>5 DEF Sound, BridgeOK
<1>7. loc[nd(q)] = mnt[Uplink[n]] /\ nd(q) \in up /\ <<nd(q), <<Address[n], 1>>>> \in addrs
  BY <1>1, <1>5 DEF Ready, JoinOK
<1>8. nd(q) \in Gateways(mnt[Uplink[n]], Address[n])
  <2>1. 1 \in 1..3
    OBVIOUS
  <2> QED BY <1>7, <2>1 DEF Gateways
<1> QED BY <1>1, <1>6, <1>8

(* The routes to a switch can be added, one after the other. *)
LEMMA PossibleRoute ==
    ASSUME SwitchesEnd, AllOwn, SubnetsDistinct, Supported, Base, Tidy, Sound, Ready,
           NEW p \in Procs, state[p] = "adding", Fine(p[1]), Role[p[1]] = "switch",
           NEW i \in 1..Len(Switches(p[1])), Done(p) = i + 8, NEW s, s = Switches(p[1])[i]
    PROVE  Possible(p, RouteAdd(Uplink[s], Address[p[1]], Address[s]))
<1> DEFINE n == p[1]  m == Uplink[s]  to == Address[n]  c == RouteAdd(m, to, Address[s])
           k == Len(Switches(n))  net == add_network(n)
<1>1. n \in Names /\ Connected(n) /\ Working(p) /\ Alive(p) /\ to # None /\ to # "default"
  BY DEF Supported, Connected, Procs, Working, Alive, SubnetsDistinct
<1>2. Switches(n) \in Seq(Names) /\ i \in DOMAIN Switches(n) /\ s \in Names
  <2>1. Switches(n) \in Seq(Names)
    BY <1>1 DEF SwitchesEnd
  <2> QED BY <2>1
<1>3. Straight(n) /\ Role[s] = "switch" /\ s \in Above(n) /\ Above(s) \subseteq Above(n) /\ n \notin Above(n)
  <2>1. Straight(n)
    BY DEF Ready, ChainOK
  <2> QED BY <1>2, <2>1 DEF Straight
<1>4. m \in Names /\ m \in Above(n) /\ m # None
  BY <1>2, <1>3, EntitydAssumption DEF Supported, Above
<1>5. mnt[s] \in Procs /\ mnt[s][1] = s /\ state[mnt[s]] = "up" /\ Fine(s)
  <2>1. mnt[s] \in Procs /\ mnt[s][1] = s /\ state[mnt[s]] = "up"
    BY <1>2, <1>3, AboveUp DEF Ready
  <2> QED BY <1>3, <2>1, FineAbove
<1>6. mnt[m] \in Procs /\ mnt[m][1] = m /\ mnt[m] # None
  BY <1>4, AboveUp DEF Ready
<1>7. nd(mnt[s]) \in Gateways(mnt[m], Address[s])
  BY <1>3, <1>5, SwitchUp
<1>8. ASSUME NEW r \in routes, r.in = mnt[m], r.to = to PROVE FALSE
  <2>1. PICK y \in Procs :
           /\ Address[y[1]] = to
           /\ r.in = y \/ (mnt[r.in[1]] = r.in => Owes(y, RouteDel(r.in[1], r.to)))
    BY <1>1, <1>8 DEF Tidy, RouteOK
  <2>2. y[1] = n
    BY <1>1, <2>1 DEF SubnetsDistinct, Procs
  <2>3. r.in # y
    BY <1>3, <1>4, <1>6, <1>8, <2>2
  <2>4. Owes(y, RouteDel(m, to))
    BY <1>6, <1>8, <2>1, <2>3
  <2>5. Pending(p, RouteDel(m, to))
    BY <1>1, <2>2, <2>4, OwesMe DEF Ready
  <2>6. PICK j \in 1..Done(p) : net[j].do = "routeAdd" /\ net[j].at = m /\ net[j].to = to
    BY <1>1, <1>4, <2>5 DEF Ready, CleanPast
  <2>7. /\ k \in Nat /\ Len(net) = k + 12
        /\ \A h \in 1..k : net[9 + h] = RouteAdd(Uplink[Switches(n)[h]], to, Address[Switches(n)[h]])
    BY <1>1, SwitchList
  <2>8. j \in 1..Len(net)
    <3> HIDE DEF k, net
    <3>1. i \in 1..k
      BY DEF k
    <3> QED BY <2>7, <3>1
  <2>9. j = k + 12 \/ j \in 10..(k + 9)
    BY <1>1, <2>6, <2>8, SwitchOrder
  <2>10. j - 9 \in 1..k /\ 9 + (j - 9) = j /\ j - 9 < i
    <3> HIDE DEF k, net
    <3>1. i \in 1..k
      BY DEF k
    <3> QED BY <2>7, <2>9, <3>1
  <2>11. Uplink[Switches(n)[j - 9]] = m
    <3>1. net[j] = RouteAdd(Uplink[Switches(n)[j - 9]], to, Address[Switches(n)[j - 9]])
      BY <2>7, <2>10
    <3> QED BY <2>6, <3>1 DEF RouteAdd
  <2>12. j - 9 \in DOMAIN Switches(n)
    BY <1>2, <2>10
  <2>13. j - 9 = i
    BY <1>2, <1>3, <2>11, <2>12 DEF Straight
  <2> QED BY <2>10, <2>13
<1>9. Routed(mnt[m], to) = {}
  BY <1>8 DEF Routed
<1>10. c.do = "routeAdd" /\ Where(p, c) = mnt[m] /\ c.via = Address[s] /\ c.to = to
  BY <1>4 DEF RouteAdd, Where
<1> HIDE DEF c
<1>11. Possible(p, c)
  BY <1>7, <1>9, <1>10, PossibleIf
<1> QED BY <1>11 DEF c

(* The end of the set-up of a client. *)
LEMMA PossibleClient ==
    ASSUME SwitchesEnd, AllOwn, SubnetsDistinct, Supported, Base, Tidy, Sound, Ready,
           NEW p \in Procs, state[p] = "adding", todo[p] # <<>>, Fine(p[1]), Role[p[1]] = "client",
           Past(p, MakesPair)
    PROVE  LET n == p[1]  u == Uplink[n] IN
           /\ Past(p, MoveUp(n)) => Possible(p, SetTo("master", u, "nd", u))
           /\ ~Past(p, AddrClient(n)) => Possible(p, AddrClient(n))
           /\ Past(p, PairUp) /\ Past(p, AddrClient(n)) => Possible(p, RouteAdd(None, "default", Address[u]))
<1> DEFINE n == p[1]  u == Uplink[n]  m == SetTo("master", u, "nd", u)  d == AddrClient(n)
           r == RouteAdd(None, "default", Address[u])  a3 == <<Address[u], 3>>
<1>1. /\ Working(p) /\ n \in Names /\ Netns(p) = p /\ nu(p) \in Links /\ p # None
      /\ u \in Names /\ u # None /\ Role[u] = "switch"
  BY OwnNetns, EntitydAssumption DEF Working, Supported
<1>2. /\ m.do = "master" /\ m.at = u /\ m.kind = "nd" /\ m.to = u
      /\ d.do = "addrAdd" /\ d.at = None /\ d.kind = "nu" /\ d.addr = a3
      /\ r.do = "routeAdd" /\ r.at = None /\ r.to = "default" /\ r.via = Address[u]
  BY DEF SetTo, AddrClient, Addr, RouteAdd
<1>3. loc[nu(p)] = p
  BY <1>1 DEF Ready, JoinOK
<1>4. Past(p, PairUp) => nu(p) \in up
  BY <1>1 DEF Ready, JoinOK
<1>5. Past(p, d) <=> <<nu(p), a3>> \in addrs
  BY <1>1 DEF Ready, JoinOK, FreshOK
<1>6. ~\E x \in routes : x.in = p /\ x.to = "default"
  BY DEF Ready, FreshOK
<1>7. loc[nb(mnt[u])] = mnt[u] /\ mnt[u] \in Procs /\ mnt[u][1] = u /\ mnt[u] # None
  <2>1. Role[u] = "switch" /\ u \in Above(n) /\ Above(u) \subseteq Above(n)
    <3>1. Above(n) = {u} \cup Above(u)
      BY <1>1, AboveSwitch
    <3> QED BY <1>1, <3>1
  <2>2. mnt[u] \in Procs /\ mnt[u][1] = u /\ state[mnt[u]] = "up" /\ mnt[u] # None
    BY <1>1, <2>1, AboveUp DEF Ready
  <2>3. Fine(u)
    BY <2>1, FineAbove
  <2> QED BY <2>1, <2>2, <2>3, SwitchUp
<1> HIDE DEF m, d, r, a3
<1>8. ASSUME Past(p, MoveUp(n)) PROVE Possible(p, m)
  <2>1. nd(p) \in Named(mnt[u], "nd", n)
    BY <1>8, PossibleAbove
  <2>2. nd(p) \in Link(p, m) /\ Where(p, m) = mnt[u]
    BY <1>1, <1>2, <2>1 DEF Link, Where
  <2>3. nb(mnt[u]) \in Named(mnt[u], "nb", u)
    BY <1>7, OwnNetns DEF Named, nb
  <2> QED BY <1>2, <2>2, <2>3, PossibleIf
<1>9. ASSUME ~Past(p, d) PROVE Possible(p, d)
  <2>1. nu(p) \in Link(p, d)
    BY <1>1, <1>2, <1>3 DEF Link, Named, Where, nu
  <2> QED BY <1>2, <1>5, <1>9, <2>1, PossibleIf
<1>10. ASSUME Past(p, PairUp), Past(p, d) PROVE Possible(p, r)
  <2>1. Where(p, r) = p
    BY <1>1, <1>2 DEF Where
  <2>2. nu(p) \in Gateways(p, Address[u])
    <3>1. 3 \in 1..3
      OBVIOUS
    <3> QED BY <1>3, <1>4, <1>5, <1>10, <3>1 DEF Gateways, a3
  <2>3. Routed(p, "default") = {}
    BY <1>6 DEF Routed
  <2> QED BY <1>2, <2>1, <2>2, <2>3, PossibleIf
<1> QED BY <1>8, <1>9, <1>10 DEF m, d, r

LEMMA ClientPossible ==
    ASSUME SwitchesEnd, AllOwn, SubnetsDistinct, Supported, Base, Tidy, Sound, Ready,
           NEW p \in Procs, state[p] = "adding", todo[p] # <<>>, Fine(p[1]), Role[p[1]] = "client"
    PROVE  Possible(p, Head(todo[p]))
<1> DEFINE n == p[1]  u == Uplink[n]  net == add_network(n)  D == Done(p)  c == Head(todo[p])
<1>1. n \in Names /\ u \in Names /\ Working(p)
  BY EntitydAssumption DEF Procs, Supported, Working
<1>2. /\ Len(net) = 9
      /\ net[1] = Umount /\ net[2] = Mount /\ net[3] = MakesPair /\ net[4] = PairUp
      /\ net[5] = MoveUp(n) /\ net[6] = SetTo("master", u, "nd", u)
      /\ net[7] = LinkUp(n) /\ net[8] = AddrClient(n)
      /\ net[9] = RouteAdd(None, "default", Address[u])
  BY <1>1, ClientList
<1>3. D \in Nat /\ D + 1 <= Len(net) /\ c = net[D + 1]
  BY NextCommand
<1>4. \A d : Past(p, d) <=> \E j \in 1..D : net[j] = d
  BY DEF Past
<1> HIDE DEF net, D, c
<1>5. D \in 0..8
  BY <1>2, <1>3
<1>6. CASE D \in {0, 1}
  <2>1. c \in {Umount, Mount}
    BY <1>2, <1>3, <1>6
  <2>2. c.do \in {"umount", "mount"}
    BY <2>1 DEF Umount, Mount, Mounts
  <2> QED BY <2>2, PossibleIf DEF c
<1>7. CASE D = 2
  <2>1. c.do = "add"
    BY <1>2, <1>3, <1>7 DEF MakesPair, LinkAdd
  <2> QED BY <2>1, PossibleAdd DEF c
<1>8. CASE D \in 3..8
  <2>1. Past(p, MakesPair)
    <3>1. 3 \in 1..D
      BY <1>8
    <3> QED BY <1>2, <1>4, <3>1
  <2>2. CASE D = 3
    BY <1>2, <1>3, <2>1, <2>2, PossibleOwn DEF c
  <2>3. CASE D = 4
    <3>1. ~Past(p, MoveUp(n))
      <4>1. \A j \in 1..4 : net[j].do # "move"
        BY <1>2 DEF Umount, Mount, Mounts, MakesPair, LinkAdd, PairUp, Cmd
      <4>2. MoveUp(n).do = "move"
        BY DEF MoveUp, SetTo
      <4> QED BY <1>4, <2>3, <4>1, <4>2
    <3> QED BY <1>1, <1>2, <1>3, <2>1, <2>3, <3>1, PossibleMove DEF c
  <2>4. CASE D \in 5..8
    <3>1. Past(p, MoveUp(n)) /\ Past(p, PairUp)
      <4>1. 5 \in 1..D /\ 4 \in 1..D
        BY <2>4
      <4> QED BY <1>2, <1>4, <4>1
    <3>2. CASE D = 5
      BY <1>2, <1>3, <2>1, <3>1, <3>2, PossibleClient DEF c
    <3>3. CASE D = 6
      BY <1>2, <1>3, <3>1, <3>3, PossibleAbove DEF c
    <3>4. CASE D = 7
      <4>1. ~Past(p, AddrClient(n))
        <5>1. \A j \in 1..7 : net[j].do # "addrAdd"
          BY <1>2 DEF Umount, Mount, Mounts, MakesPair, LinkAdd, PairUp, LinkUp, Cmd, MoveUp, SetTo
        <5>2. AddrClient(n).do = "addrAdd"
          BY DEF AddrClient, Addr
        <5> QED BY <1>4, <3>4, <5>1, <5>2
      <4> QED BY <1>2, <1>3, <2>1, <3>4, <4>1, PossibleClient DEF c
    <3>5. CASE D = 8
      <4>1. Past(p, AddrClient(n))
        <5>1. 8 \in 1..D
          BY <3>5
        <5> QED BY <1>2, <1>4, <5>1
      <4> QED BY <1>2, <1>3, <2>1, <3>1, <3>5, <4>1, PossibleClient DEF c
    <3> QED BY <2>4, <3>2, <3>3, <3>4, <3>5
  <2> QED BY <1>8, <2>2, <2>3, <2>4
<1> QED BY <1>5, <1>6, <1>7, <1>8

LEMMA SwitchPossible ==
    ASSUME SwitchesEnd, AllOwn, SubnetsDistinct, Supported, Base, Tidy, Sound, Ready,
           NEW p \in Procs, state[p] = "adding", todo[p] # <<>>, Fine(p[1]), Role[p[1]] = "switch"
    PROVE  Possible(p, Head(todo[p]))
<1> DEFINE n == p[1]  u == Uplink[n]  net == add_network(n)  D == Done(p)  c == Head(todo[p])
           k == Len(Switches(n))
<1>1. n \in Names /\ u \in Names /\ Working(p) /\ Connected(n)
  BY EntitydAssumption DEF Procs, Supported, Working, Connected
<1>2. /\ k \in Nat /\ Len(net) = k + 12
      /\ net[1] = Umount /\ net[2] = Mount /\ net[3] = MakesPair /\ net[4] = PairUp
      /\ net[5] = MakesBridge /\ net[6] = BridgeUp
      /\ net[7] = SetTo("master", None, "nu", n)
      /\ net[8] = MoveUp(n) /\ net[9] = AddrAbove(n)
      /\ \A j \in 1..k : net[9 + j] = RouteAdd(Uplink[Switches(n)[j]], Address[n], Address[Switches(n)[j]])
      /\ net[10 + k] = LinkUp(n) /\ net[11 + k] = AddrBridge(n)
      /\ net[12 + k] = RouteAdd(None, "default", Address[n])
  BY <1>1, SwitchList
<1>3. D \in Nat /\ D + 1 <= Len(net) /\ c = net[D + 1]
  BY NextCommand
<1>4. \A d : Past(p, d) <=> \E j \in 1..D : net[j] = d
  BY DEF Past
<1>5. \A j \in 1..Len(net) :
         /\ net[j].do = "move" => j = 8
         /\ net[j].do = "addrAdd" => j = 9 \/ j = k + 11
  BY <1>1, SwitchOrder
<1> HIDE DEF net, D, c, k
<1>6. \/ D \in {0, 1} \/ D \in {2, 4} \/ D = 3 \/ D = 5 \/ D = 6 \/ D = 7 \/ D = 8
      \/ D \in 9..(k + 8) \/ D = k + 9 \/ D \in {k + 10, k + 11}
  BY <1>2, <1>3, SMTT(60)
<1>7. CASE D \in {0, 1}
  <2>1. c \in {Umount, Mount}
    BY <1>2, <1>3, <1>7
  <2>2. c.do \in {"umount", "mount"}
    BY <2>1 DEF Umount, Mount, Mounts
  <2> QED BY <2>2, PossibleIf DEF c
<1>8. CASE D \in {2, 4}
  <2>1. c.do = "add"
    BY <1>2, <1>3, <1>8 DEF MakesPair, MakesBridge, LinkAdd
  <2> QED BY <2>1, PossibleAdd DEF c
<1>9. /\ D >= 3 => Past(p, MakesPair)
      /\ D >= 5 => Past(p, MakesBridge)
      /\ D >= 8 => Past(p, MoveUp(n))
      /\ D >= k + 10 => Past(p, LinkUp(n))
  <2>1. /\ D >= 3 => 3 \in 1..D
        /\ D >= 5 => 5 \in 1..D
        /\ D >= 8 => 8 \in 1..D
        /\ D >= k + 10 => 10 + k \in 1..D
    BY <1>2, <1>3
  <2> QED BY <1>2, <1>4, <2>1
<1>10. CASE D = 3 \/ D = 5 \/ D = 6
  <2>1. D >= 3 /\ (D # 3 => D >= 5)
    BY <1>10
  <2>2. c = IF D = 3 THEN PairUp ELSE IF D = 5 THEN BridgeUp ELSE SetTo("master", None, "nu", n)
    BY <1>2, <1>3, <1>10
  <2> QED BY <1>9, <1>10, <2>1, <2>2, PossibleOwn DEF c
<1>11. CASE D = 7
  <2>1. ~Past(p, MoveUp(n))
    <3>1. MoveUp(n).do = "move"
      BY DEF MoveUp, SetTo
    <3>2. \A j \in 1..D : j \in 1..Len(net) /\ j # 8
      BY <1>2, <1>11
    <3> QED BY <1>4, <1>5, <3>1, <3>2
  <2>2. D >= 3 /\ c = MoveUp(n)
    BY <1>2, <1>3, <1>11
  <2> QED BY <1>1, <1>9, <2>1, <2>2, PossibleMove DEF c
<1>12. CASE D = 8
  <2>1. ~Past(p, AddrAbove(n))
    <3>1. AddrAbove(n).do = "addrAdd"
      BY DEF AddrAbove, Addr
    <3>2. \A j \in 1..D : j \in 1..Len(net) /\ j # 9 /\ j # k + 11
      BY <1>2, <1>12
    <3> QED BY <1>4, <1>5, <3>1, <3>2
  <2>2. D >= 8 /\ c = AddrAbove(n)
    BY <1>2, <1>3, <1>12
  <2> QED BY <1>9, <2>1, <2>2, PossibleAbove DEF c
<1>13. CASE D \in 9..(k + 8)
  <2>1. PICK i \in 1..k : D = i + 8
    <3>1. D - 8 \in 1..k /\ D = (D - 8) + 8
      BY <1>2, <1>3, <1>13
    <3> QED BY <3>1
  <2>2. 9 + i = D + 1
    BY <1>2, <2>1
  <2>3. c = RouteAdd(Uplink[Switches(n)[i]], Address[n], Address[Switches(n)[i]])
    BY <1>2, <1>3, <2>1, <2>2
  <2> QED BY <2>1, <2>3, PossibleRoute DEF c, k, D
<1>14. CASE D = k + 9
  <2>1. D >= 8 /\ D + 1 = 10 + k
    BY <1>2, <1>14
  <2>2. c = LinkUp(n)
    BY <1>2, <1>3, <2>1
  <2> QED BY <1>9, <2>1, <2>2, PossibleAbove DEF c
<1>15. CASE D \in {k + 10, k + 11}
  <2>1. D >= k + 10
    BY <1>2, <1>15
  <2>2. nd(p) \in up
    BY <1>1, <1>9, <2>1 DEF Ready, JoinOK
  <2> QED BY <2>2, SwitchEnds DEF c
<1> QED BY <1>6, <1>7, <1>8, <1>10, <1>11, <1>12, <1>13, <1>14, <1>15

(* While nothing above the entity has been taken down, its set-up does not fail. *)
LEMMA FinePossible ==
    ASSUME SwitchesEnd, AllOwn, SubnetsDistinct, Supported, Base, Tidy, Sound, Ready,
           NEW p \in Procs, state[p] = "adding", todo[p] # <<>>, Fine(p[1])
    PROVE  Possible(p, Head(todo[p]))
<1> DEFINE n == p[1]  c == Head(todo[p])
<1>1. n \in Names
  BY DEF Procs
<1>2. CASE Role[n] = "root"
  <2>1. Len(add_network(n)) = 2
    BY <1>1, <1>2, RootList
  <2>2. c \in {Umount, Mount}
    <3>1. /\ Done(p) \in Nat /\ Done(p) + 1 <= 2
          /\ c = IF Done(p) = 0 THEN Umount ELSE IF Done(p) = 1 THEN Mount ELSE c
      BY <2>1, NextCommand
    <3> HIDE DEF c
    <3> QED BY <3>1
  <2>3. c.do \in {"umount", "mount"}
    BY <2>2 DEF Umount, Mount, Mounts
  <2> QED BY <2>3, PossibleIf
<1> QED BY <1>1, <1>2, ClientPossible, SwitchPossible DEF Supported

-----------------------------------------------------------------------------

LEMMA ReadyInit ==
    ASSUME Init
    PROVE  Ready
<1>1. routes = {} /\ \A p \in Procs : state[p] = "none" /\ ~Working(p)
  BY DEF Init, NetnsInit, Working
<1> QED BY <1>1 DEF Ready, ChainOK, JoinOK, FreshOK, CleanPast, AddSucceeds

(* A step that undoes nothing of a process at work. *)
LEMMA ReadyKept ==
    ASSUME SwitchesEnd, AllOwn, Base, Base', Ready,
           \A q \in Procs : Ages(q) /\ Steady(q) /\ Keeps(q) /\ ChainOK(q)',
           addrs' \subseteq addrs, routes' \subseteq routes,
           \A q \in Procs : state'[q] = "aborted" => state[q] = "aborted" \/ ~Fine(q[1])
    PROVE  Ready'
<1>1. ASSUME NEW q \in Procs PROVE JoinOK(q)' /\ FreshOK(q)' /\ CleanPast(q)'
  <2>1. JoinOK(q)'
    BY <1>1, JoinKept DEF Ready
  <2>2. FreshOK(q)'
    BY <1>1, FreshKept DEF Ready
  <2>3. CleanPast(q)'
    BY <1>1, CleanKept DEF Ready
  <2> QED BY <2>1, <2>2, <2>3
<1>2. ASSUME NEW q \in Procs, state'[q] = "aborted"
      PROVE  \E y \in Procs : y[1] \in Above(q[1]) /\ state'[y] \in {"cleaning", "exited", "aborted"}
  <2>1. PICK y \in Procs : y[1] \in Above(q[1]) /\ state[y] \in {"cleaning", "exited", "aborted"}
    BY <1>2 DEF Ready, AddSucceeds, Fine
  <2>2. state'[y] \in {"cleaning", "exited", "aborted"}
    BY <2>1 DEF Ages, Bad
  <2> QED BY <2>1, <2>2
<1>3. AddSucceeds'
  BY <1>2 DEF AddSucceeds, Above
<1> QED BY <1>1, <1>3 DEF Ready

LEMMA ReadyQuiet ==
    ASSUME SwitchesEnd, AllOwn, Base, Base', Ready, UNCHANGED netns, NEW p \in Procs,
           \A q \in Procs : Ages(q),
           \A q \in Procs : q # p =>
               state'[q] = state[q] /\ todo'[q] = todo[q] /\ cleanups'[q] = cleanups[q],
           Steady(p), ChainOK(p)',
           state'[p] = "aborted" => ~Fine(p[1])
    PROVE  Ready'
<1>1. \A q \in Procs : Steady(q)
  BY SteadyFrame
<1>2. \A q \in Procs : Keeps(q)
  BY KeepsAll
<1>3. ASSUME NEW q \in Procs PROVE ChainOK(q)'
  BY <1>3, ChainStep DEF Ready
<1>4. addrs' \subseteq addrs /\ routes' \subseteq routes
  BY DEF netns
<1>5. \A q \in Procs : state'[q] = "aborted" => state[q] = "aborted" \/ ~Fine(q[1])
  OBVIOUS
<1> QED BY <1>1, <1>2, <1>3, <1>4, <1>5, ReadyKept

LEMMA SpawnReady ==
    ASSUME SwitchesEnd, AllOwn, Base, Base', Tidy', Ready, NEW p \in Procs, Spawn(p),
           \A q \in Procs : Ages(q)
    PROVE  Ready'
<1>1. /\ UNCHANGED <<netns, todo, cleanups>> /\ state[p] = "none"
      /\ state' = [state EXCEPT ![p] = "idle"] /\ DOMAIN state = Procs
  BY DEF Spawn, Goes, Base
<1>2. state'[p] = "idle" /\ \A q \in Procs : q # p => state'[q] = state[q]
  BY <1>1
<1>3. Steady(p)
  BY <1>1, <1>2 DEF Steady, Working
<1>4. Uplink[p[1]] # p[1]
  BY <1>2 DEF Tidy, NoSelf
<1>5. ChainOK(p)'
  BY <1>4, SpawnChain DEF Ready
<1> QED BY <1>1, <1>2, <1>3, <1>5, ReadyQuiet

(* AddComponent, Answers, Exits, Shutdown and HangsUp. *)
LEMMA GoesReady ==
    ASSUME SwitchesEnd, AllOwn, Base, Base', Ready, NEW p \in Procs, \A q \in Procs : Ages(q),
           AddComponent(p) \/ Answers(p) \/ Exits(p) \/ Shutdown(p) \/ HangsUp(p)
    PROVE  Ready'
<1>1. DOMAIN state = Procs /\ DOMAIN todo = Procs /\ DOMAIN cleanups = Procs
  BY DEF Base
<1>2. ASSUME AddComponent(p) PROVE Ready'
  <2>1. /\ UNCHANGED <<netns, cleanups>> /\ state[p] = "idle"
        /\ state' = [state EXCEPT ![p] = "adding"]
        /\ todo' = [todo EXCEPT ![p] = add_network(p[1])]
    BY <1>2 DEF AddComponent, Goes
  <2>2. /\ state'[p] = "adding" /\ todo'[p] = add_network(p[1])
        /\ \A q \in Procs : q # p => state'[q] = state[q] /\ todo'[q] = todo[q]
    BY <1>1, <2>1
  <2>3. Len(add_network(p[1])) \in Nat
    BY NetworkFacts DEF Procs
  <2>4. Done(p)' = 0
    <3>1. Done(p)' = Len(add_network(p[1])) - Len(todo'[p])
      BY DEF Done
    <3> QED BY <2>2, <2>3, <3>1
  <2>5. Steady(p)
    BY <2>1, <2>2, <2>4 DEF Steady
  <2>6. ChainOK(p)'
    BY <2>1, ChainStep DEF Ready
  <2> QED BY <2>1, <2>2, <2>5, <2>6, ReadyQuiet
<1>3. ASSUME Answers(p) \/ Exits(p) PROVE Ready'
  <2>1. /\ UNCHANGED <<netns, todo, cleanups>> /\ state[p] \in {"adding", "cleaning"}
        /\ \/ state[p] = "adding" /\ state' = [state EXCEPT ![p] = "up"]
           \/ state' = [state EXCEPT ![p] = "exited"]
    BY <1>3 DEF Answers, Exits, Goes
  <2>2. /\ state'[p] = "exited" \/ (state[p] = "adding" /\ state'[p] = "up")
        /\ \A q \in Procs : q # p => state'[q] = state[q]
    BY <1>1, <2>1
  <2>3. Steady(p)
    BY <2>1, <2>2 DEF Steady, Working
  <2>4. ChainOK(p)'
    BY <2>1, ChainStep DEF Ready
  <2> QED BY <2>1, <2>2, <2>3, <2>4, ReadyQuiet
<1>4. ASSUME Shutdown(p) \/ HangsUp(p) PROVE Ready'
  <2>1. RunsCleanups(p) /\ state[p] \in {"idle", "up"}
    BY <1>4 DEF Shutdown, HangsUp
  <2>2. /\ UNCHANGED netns
        /\ state' = [state EXCEPT ![p] = "cleaning"]
        /\ todo' = [todo EXCEPT ![p] = Reverse(cleanups[p])]
        /\ cleanups' = [cleanups EXCEPT ![p] = <<>>]
    BY <2>1 DEF RunsCleanups, Goes
  <2>3. /\ state'[p] = "cleaning"
        /\ \A q \in Procs : q # p =>
              state'[q] = state[q] /\ todo'[q] = todo[q] /\ cleanups'[q] = cleanups[q]
    BY <1>1, <2>2
  <2>4. Steady(p)
    BY <2>2, <2>3 DEF Steady, Working
  <2>5. ChainOK(p)'
    BY <2>1, ChainStep DEF Ready
  <2> QED BY <2>2, <2>3, <2>4, <2>5, ReadyQuiet
<1> QED BY <1>2, <1>3, <1>4

LEMMA AbortsReady ==
    ASSUME SwitchesEnd, AllOwn, SubnetsDistinct, Supported, "command" \notin Faults,
           Base, Base', Tidy, Sound, Ready, NEW p \in Procs, Aborts(p), \A q \in Procs : Ages(q)
    PROVE  Ready'
<1>1. /\ UNCHANGED netns /\ state[p] = "adding" /\ todo[p] # <<>> /\ ~Possible(p, Head(todo[p]))
      /\ state' = [state EXCEPT ![p] = "aborted"] /\ DOMAIN state = Procs
      /\ todo' = [todo EXCEPT ![p] = <<>>] /\ DOMAIN todo = Procs
      /\ cleanups' = [cleanups EXCEPT ![p] = <<>>] /\ DOMAIN cleanups = Procs
  BY DEF Aborts, Goes, Base
<1>2. /\ state'[p] = "aborted"
      /\ \A q \in Procs : q # p =>
            state'[q] = state[q] /\ todo'[q] = todo[q] /\ cleanups'[q] = cleanups[q]
  BY <1>1
<1>3. Steady(p)
  BY <1>1, <1>2 DEF Steady, Working
<1>4. ~Fine(p[1])
  BY <1>1, FinePossible
<1>5. ChainOK(p)'
  BY <1>1, ChainStep DEF Ready
<1> QED BY <1>1, <1>2, <1>3, <1>4, <1>5, ReadyQuiet

LEMMA CleansReady ==
    ASSUME SwitchesEnd, AllOwn, Base, Base', Tidy, Ready, NEW x \in Procs, Cleans(x),
           \A q \in Procs : Ages(q)
    PROVE  Ready'
<1> DEFINE c == Head(todo[x])
<1>1. /\ state[x] = "cleaning" /\ UNCHANGED <<daemon, state, cleanups, answer>>
      /\ Possible(x, c) => Effect(x, c)
      /\ ~Possible(x, c) => UNCHANGED netns
      /\ c \in Undos(x[1]) \cup {Umount}
      /\ \A q \in Procs : q # x => todo'[q] = todo[q]
  <2>1. \A q \in Procs : q # x => todo'[q] = todo[q]
    BY CleansProc
  <2> QED BY <2>1, CleansFacts
<1> HIDE DEF c
<1>2. \A q \in Procs : Steady(q)
  <2>1. Steady(x)
    BY <1>1 DEF Steady, Working
  <2> QED BY <1>1, <2>1, SteadyFrame
<1>3. \A q \in Procs : Keeps(q)
  BY CleansKeeps DEF Ready
<1>4. addrs' \subseteq addrs /\ routes' \subseteq routes
  BY <1>1, CleansNet DEF netns
<1>5. ASSUME NEW q \in Procs PROVE ChainOK(q)'
  BY <1>1, <1>5, ChainStep DEF Ready
<1> QED BY <1>1, <1>2, <1>3, <1>4, <1>5, ReadyKept

LEMMA KernelReapsReady ==
    ASSUME SwitchesEnd, AllOwn, SubnetsDistinct, Supported, Base, Base', Tidy, Ready,
           NEW s \in Procs, KernelReaps(s), \A q \in Procs : Ages(q)
    PROVE  Ready'
<1>1. UNCHANGED <<daemon, state, todo, cleanups, answer>> /\ addrs' \subseteq addrs /\ routes' \subseteq routes
  BY DEF KernelReaps, Reap, Delete, procs
<1>2. \A q \in Procs : Steady(q)
  BY <1>1, SteadyFrame
<1>3. \A q \in Procs : Keeps(q)
  BY KernelReapsKeeps DEF Ready
<1>4. ASSUME NEW q \in Procs PROVE ChainOK(q)'
  BY <1>1, <1>4, ChainStep DEF Ready
<1> QED BY <1>1, <1>2, <1>3, <1>4, ReadyKept

LEMMA NoProcReady ==
    ASSUME SwitchesEnd, AllOwn, Base, Base', Ready, UNCHANGED <<netns, state, todo, cleanups>>,
           \A q \in Procs : Ages(q)
    PROVE  Ready'
<1>1. \A q \in Procs : Steady(q) /\ Keeps(q)
  BY SteadyFrame, KeepsAll
<1>2. ASSUME NEW q \in Procs PROVE ChainOK(q)'
  BY <1>2, ChainStep DEF Ready
<1>3. addrs' \subseteq addrs /\ routes' \subseteq routes
  BY DEF netns
<1> QED BY <1>1, <1>2, <1>3, ReadyKept

LEMMA ExecutesReady ==
    ASSUME SwitchesEnd, AllOwn, SubnetsDistinct, Supported, Base, Base', Tidy, Ready,
           NEW x \in Procs, Executes(x), \A q \in Procs : Ages(q)
    PROVE  Ready'
<1>1. /\ state' = state
      /\ \A q \in Procs : q # x => todo'[q] = todo[q] /\ cleanups'[q] = cleanups[q]
  BY ExecutesProc
<1>2. ASSUME NEW q \in Procs PROVE ChainOK(q)'
  BY <1>1, <1>2, ChainStep DEF Ready
<1>3. ASSUME NEW q \in Procs PROVE FreshOK(q)'
  BY <1>3, ExecutesFresh DEF Ready
<1>4. ASSUME NEW q \in Procs, q # x PROVE JoinOK(q)' /\ CleanPast(q)'
  <2>1. Steady(q)
    BY <1>1, <1>4, SteadyFrame
  <2>2. Keeps(q)
    BY <1>4, ExecutesKeeps DEF Ready
  <2>3. JoinOK(q)'
    BY <1>4, <2>1, <2>2, JoinKept DEF Ready
  <2>4. CleanPast(q)'
    BY <1>4, <2>1, CleanKept DEF Ready
  <2> QED BY <2>3, <2>4
<1>5. JoinOK(x)'
  <2>1. CASE Fine(x[1])
    BY <2>1, ExecutesJoin DEF Ready
  <2>2. CASE ~Fine(x[1])
    <3>1. ~Fine(x[1])'
      BY <1>1, <2>2 DEF Fine, Above
    <3> QED BY <3>1 DEF JoinOK
  <2> QED BY <2>1, <2>2
<1>6. CleanPast(x)'
  BY ExecutesClean DEF Ready
<1>7. AddSucceeds'
  BY <1>1 DEF Ready, AddSucceeds, Above
<1> QED BY <1>2, <1>3, <1>4, <1>5, <1>6, <1>7 DEF Ready

LEMMA NextReady ==
    ASSUME SwitchesEnd, AllOwn, SubnetsDistinct, Supported, "command" \notin Faults,
           Base, Base', Tidy, Tidy', Sound, Ready, [Next]_vars
    PROVE  Ready'
<1>1. \A q \in Procs : Ages(q)
  BY NextAges
<1>2. ASSUME NEW p \in Procs, Spawn(p) \/ Executes(p) \/ Aborts(p) \/ Cleans(p) PROVE Ready'
  BY <1>1, <1>2, SpawnReady, ExecutesReady, AbortsReady, CleansReady
<1>3. ASSUME NEW p \in Procs,
             AddComponent(p) \/ Answers(p) \/ Exits(p) \/ Shutdown(p) \/ HangsUp(p)
      PROVE  Ready'
  BY <1>1, <1>3, GoesReady
<1>4. ASSUME NEW s \in Procs, KernelReaps(s) PROVE Ready'
  BY <1>1, <1>4, KernelReapsReady
<1>5. DaemonDies \/ UNCHANGED vars => Ready'
  BY <1>1, NoProcReady DEF DaemonDies, vars, procs
<1> QED BY <1>2, <1>3, <1>4, <1>5 DEF Next, EntitydStep

(***************************************************************************)
(* The commands of add_network() of an entityd succeed, as long as none of *)
(* the entities above has been shut down or has failed: whatever has been  *)
(* started and stopped before, and is going on below and beside it, leaves *)
(* nothing in the way of a link, an address or a route.                    *)
(***************************************************************************)
THEOREM EntitydAddSucceeds ==
    ASSUME SwitchesEnd, AllOwn, SubnetsDistinct, Supported, "command" \notin Faults
    PROVE  Spec => []AddSucceeds
<1> DEFINE Inv == Base /\ Tidy /\ Sound /\ Ready
<1>1. Init => Inv
  BY BaseInit, TidyInit, SoundInit, ReadyInit
<1>2. Inv /\ [Next]_vars => Inv'
  <2> SUFFICES ASSUME Inv, [Next]_vars PROVE Inv'
    OBVIOUS
  <2>1. Calm
    BY DEF Calm
  <2>2. Base' /\ Tidy' /\ Sound'
    BY <2>1, NextBase, NextTidy, NextSound
  <2>3. Ready'
    BY <2>2, NextReady
  <2> QED BY <2>2, <2>3
<1>3. Inv => AddSucceeds
  BY DEF Ready
<1> QED BY <1>1, <1>2, <1>3, PTL DEF Spec

=============================================================================
