--------------------------- MODULE ServiceProofs ---------------------------
(***************************************************************************)
(* Proofs about the loop and its buses, for any number of entities and     *)
(* messages.                                                               *)
(*                                                                         *)
(* That the loop uses no freed bus is not inductive. A bus is freed by the *)
(* handler of a "stopped" message, so such a message must find its bus     *)
(* kept by its entity and no longer registered; the bus has got there by a *)
(* "shutdown" message, and was created by a "start" message. Each message  *)
(* therefore has to find its bus in the state its handler expects, and for *)
(* that to survive the handling of another message no message may come     *)
(* twice. A blocking call moves messages from the socket to the read       *)
(* queue, where they keep their order: the two together are the inbox of a *)
(* bus.                                                                    *)
(***************************************************************************)
EXTENDS Service, SequenceTheorems, TLAPS

(* The messages of the loop. *)
Messages == [what : What, bus : All]

(* What a bus object has to dispatch, oldest first. *)
Inbox(b) == rqueue[b] \o sock[b]

(* A message finds the bus it is about as its handler expects it, and comes by the right bus. *)
Expected(m, b) ==
    /\ m.what = "start"    => b = Main /\ m.bus \in Buses /\ life[m.bus] = "none"
    /\ m.what = "shutdown" => b = m.bus /\ m.bus \in Buses /\ life[m.bus] = "live" /\ m.bus \in eof
    /\ m.what = "stopped"  => b = Main /\ m.bus \in Buses /\ life[m.bus] = "kept"

(* Every message is one its handler expects. *)
AllExpected == \A b \in All : \A i \in 1..Len(Inbox(b)) : Expected(Inbox(b)[i], b)

(* No message that changes the buses comes twice. *)
Once ==
    \A b \in All : \A i, j \in 1..Len(Inbox(b)) :
        Inbox(b)[i] = Inbox(b)[j] /\ Inbox(b)[i].what # "other" => i = j

(* The inductive invariant. *)
IInv ==
    /\ TypeOK
    /\ life[Main] = "live"
    /\ NoFreedBus
    /\ AllExpected
    /\ Once
-----------------------------------------------------------------------------
(* An element is appended to the later part of a queue. *)
LEMMA ConcatAppend ==
    ASSUME NEW S, NEW r \in Seq(S), NEW s \in Seq(S), NEW m \in S
    PROVE  r \o Append(s, m) = Append(r \o s, m)
BY SMT

(* The oldest element is in the earlier part of a queue. *)
LEMMA ConcatTail ==
    ASSUME NEW S, NEW r \in Seq(S), NEW s \in Seq(S), r # <<>>
    PROVE  /\ r \o s # <<>>
           /\ Head(r \o s) = Head(r)
           /\ Tail(r) \o s = Tail(r \o s)
BY SMT

-----------------------------------------------------------------------------
(* Inboxes are sequences of messages. *)
LEMMA InboxType ==
    ASSUME TypeOK, NEW b \in All
    PROVE  /\ sock[b] \in Seq(Messages) /\ rqueue[b] \in Seq(Messages)
           /\ Inbox(b) \in Seq(Messages)
           /\ Len(Inbox(b)) \in Nat
           /\ \A i \in 1..Len(Inbox(b)) : Inbox(b)[i] \in Messages
<1>1. sock[b] \in Seq(Messages) /\ rqueue[b] \in Seq(Messages)
  BY DEF TypeOK, Messages
<1>2. Inbox(b) \in Seq(Messages)
  BY <1>1, ConcatProperties DEF Inbox
<1> QED BY <1>1, <1>2

(* A message that is sent is the last in the inbox of its bus. *)
LEMMA SendsInbox ==
    ASSUME TypeOK, NEW b \in All, NEW m \in Messages, Sends(b, m), UNCHANGED rqueue
    PROVE  /\ sock' \in [All -> Seq(Messages)]
           /\ Inbox(b)' = Append(Inbox(b), m)
           /\ \A d \in All : d # b => Inbox(d)' = Inbox(d)
<1>1. sock \in [All -> Seq(Messages)] /\ rqueue \in [All -> Seq(Messages)]
  BY DEF TypeOK, Messages
<1>2. sock' = [sock EXCEPT ![b] = Append(sock[b], m)] /\ Append(sock[b], m) \in Seq(Messages)
  BY <1>1, AppendProperties DEF Sends
<1>3. sock' \in [All -> Seq(Messages)] /\ sock'[b] = Append(sock[b], m) /\ \A d \in All : d # b => sock'[d] = sock[d]
  BY <1>1, <1>2
<1>4. rqueue[b] \o Append(sock[b], m) = Append(rqueue[b] \o sock[b], m)
  BY <1>1, ConcatAppend
<1> QED BY <1>3, <1>4 DEF Inbox

(* A blocking call moves messages from the socket to the queue, but loses and reorders none. *)
LEMMA SubscribesInbox ==
    ASSUME NEW sock0 \in [All -> Seq(Messages)], NEW rqueue0 \in [All -> Seq(Messages)],
           Subscribes(sock0, rqueue0)
    PROVE  /\ sock' \in [All -> Seq(Messages)] /\ rqueue' \in [All -> Seq(Messages)]
           /\ \A b \in All : Inbox(b)' = rqueue0[b] \o sock0[b]
<1>0. Main \in All
  BY DEF All
<1>1. PICK r \in Seq(Messages) : r = rqueue0[Main]
  BY <1>0
<1>2. PICK s \in Seq(Messages) : s = sock0[Main]
  BY <1>0
<1>3. PICK k \in 0..Len(s) :
        /\ rqueue' = [rqueue0 EXCEPT ![Main] = r \o SubSeq(s, 1, k)]
        /\ sock' = [sock0 EXCEPT ![Main] = SubSeq(s, k + 1, Len(s))]
  BY <1>0, <1>1, <1>2 DEF Subscribes
<1> DEFINE taken == SubSeq(s, 1, k)
           s1 == SubSeq(s, k + 1, Len(s))
           r1 == r \o taken
<1>4. Len(s) \in Nat /\ k \in Nat
  BY LenProperties
<1>5. taken \in Seq(Messages) /\ s1 \in Seq(Messages)
  BY <1>4, SubSeqProperties, SMT
<1>6. taken \o s1 = s
  <2>1. 1 \in 1..(Len(s) + 1) /\ k \in (1 - 1)..Len(s) /\ Len(s) \in k..Len(s)
    BY <1>4, SMT
  <2>2. taken \o s1 = SubSeq(s, 1, Len(s))
    BY <2>1, ConcatAdjacentSubSeq, Zenon
  <2> QED BY <2>2, SubSeqFull
<1>7. r1 \in Seq(Messages) /\ r1 \o s1 = r \o s
  <2> HIDE DEF taken, s1
  <2>1. (r \o taken) \o s1 = r \o (taken \o s1)
    <3>1. \A t, u \in Seq(Messages) : (r \o t) \o u = r \o (t \o u)
      BY ConcatAssociative, SMTT(30)
    <3> QED BY <1>5, <3>1, Zenon
  <2> QED BY <1>5, <1>6, <2>1, ConcatProperties
<1>8. rqueue' = [rqueue0 EXCEPT ![Main] = r1] /\ sock' = [sock0 EXCEPT ![Main] = s1]
  BY <1>3
<1> HIDE DEF r1, s1, taken
<1>9. /\ rqueue'[Main] = r1 /\ sock'[Main] = s1
      /\ \A b \in All : b # Main => rqueue'[b] = rqueue0[b] /\ sock'[b] = sock0[b]
  BY <1>0, <1>8
<1>10. sock' \in [All -> Seq(Messages)] /\ rqueue' \in [All -> Seq(Messages)]
  BY <1>0, <1>5, <1>7, <1>8
<1>11. \A b \in All : Inbox(b)' = rqueue0[b] \o sock0[b]
  BY <1>1, <1>2, <1>7, <1>9 DEF Inbox
<1> QED BY <1>10, <1>11

(* No handler does anything else to the inboxes. *)
LEMMA HandlesInbox ==
    ASSUME NEW sock0 \in [All -> Seq(Messages)], NEW rqueue0 \in [All -> Seq(Messages)],
           NEW m, Handles(m, sock0, rqueue0)
    PROVE  /\ sock' \in [All -> Seq(Messages)] /\ rqueue' \in [All -> Seq(Messages)]
           /\ \A b \in All : Inbox(b)' = rqueue0[b] \o sock0[b]
<1>1. CASE Subscribes(sock0, rqueue0)
  BY <1>1, SubscribesInbox
<1>2. CASE sock' = sock0 /\ rqueue' = rqueue0
  BY <1>2 DEF Inbox
<1> QED BY <1>1, <1>2 DEF Handles, HandlesStart, HandlesShutdown, HandlesStopped

(* What a handler does to the life of the bus its message is about. *)
HandlesLife(m) ==
    \/ /\ m.what = "start"
       /\ life' = [life EXCEPT ![m.bus] = "live"]
       /\ registered' = registered \cup {m.bus}
    \/ /\ m.what = "shutdown"
       /\ life' = [life EXCEPT ![m.bus] = "kept"]
       /\ registered' = registered \ {m.bus}
    \/ /\ m.what = "stopped"
       /\ life' = [life EXCEPT ![m.bus] = "freed"]
       /\ UNCHANGED registered
    \/ m.what = "other" /\ UNCHANGED <<life, registered>>

(* sd_bus_process dispatches the oldest message of the current bus, whether or not it was read ahead. *)
LEMMA ProcessInbox ==
    ASSUME TypeOK, ProcessQueued \/ ProcessRead
    PROVE  /\ Inbox(current) # <<>>
           /\ HandlesLife(Head(Inbox(current)))
           /\ sock' \in [All -> Seq(Messages)] /\ rqueue' \in [All -> Seq(Messages)]
           /\ Inbox(current)' = Tail(Inbox(current))
           /\ \A d \in All : d # current => Inbox(d)' = Inbox(d)
<1>0. /\ sock \in [All -> Seq(Messages)] /\ rqueue \in [All -> Seq(Messages)]
      /\ current \in All /\ current' = current
      /\ sock[current] \in Seq(Messages) /\ rqueue[current] \in Seq(Messages)
  BY DEF TypeOK, Messages, ProcessQueued, ProcessRead
<1>1. ASSUME NEW m, NEW s0, NEW r0, Handles(m, s0, r0) PROVE HandlesLife(m)
  BY <1>1 DEF Handles, HandlesLife, HandlesStart, HandlesShutdown, HandlesStopped, register_bus, unregister_bus
<1>2. CASE ProcessQueued
  <2> DEFINE r0 == [rqueue EXCEPT ![current] = Tail(rqueue[current])]
  <2>1. rqueue[current] # <<>> /\ Handles(Head(rqueue[current]), sock, r0)
    BY <1>2 DEF ProcessQueued
  <2>2. r0 \in [All -> Seq(Messages)] /\ r0[current] = Tail(rqueue[current]) /\ \A d \in All : d # current => r0[d] = rqueue[d]
    BY <1>0, <2>1, HeadTailProperties
  <2> HIDE DEF r0
  <2>3. /\ sock' \in [All -> Seq(Messages)] /\ rqueue' \in [All -> Seq(Messages)]
        /\ \A b \in All : Inbox(b)' = r0[b] \o sock[b]
    BY <1>0, <2>1, <2>2, HandlesInbox
  <2>4. Inbox(current) # <<>> /\ Head(Inbox(current)) = Head(rqueue[current])
        /\ Tail(rqueue[current]) \o sock[current] = Tail(Inbox(current))
    BY <1>0, <2>1, ConcatTail DEF Inbox
  <2>5. Inbox(current)' = r0[current] \o sock[current]
    BY <1>0, <2>3 DEF Inbox
  <2>6. \A d \in All : d # current => Inbox(d)' = Inbox(d)
    BY <2>2, <2>3 DEF Inbox
  <2> QED BY <1>1, <2>1, <2>2, <2>3, <2>4, <2>5, <2>6
<1>3. CASE ProcessRead
  <2> DEFINE s0 == [sock EXCEPT ![current] = Tail(sock[current])]
  <2>1. rqueue[current] = <<>> /\ sock[current] # <<>> /\ Handles(Head(sock[current]), s0, rqueue)
    BY <1>3 DEF ProcessRead
  <2>2. s0 \in [All -> Seq(Messages)] /\ s0[current] = Tail(sock[current]) /\ \A d \in All : d # current => s0[d] = sock[d]
    BY <1>0, <2>1, HeadTailProperties
  <2> HIDE DEF s0
  <2>3. /\ sock' \in [All -> Seq(Messages)] /\ rqueue' \in [All -> Seq(Messages)]
        /\ \A b \in All : Inbox(b)' = rqueue[b] \o s0[b]
    BY <1>0, <2>1, <2>2, HandlesInbox
  <2>4. Inbox(current) = sock[current]
    BY <1>0, <2>1, ConcatEmptySeq DEF Inbox
  <2>5. Inbox(current)' = Tail(sock[current])
    <3>1. Tail(sock[current]) \in Seq(Messages)
      BY <1>0, <2>1, HeadTailProperties
    <3>2. Inbox(current)' = <<>> \o Tail(sock[current])
      BY <1>0, <2>1, <2>2, <2>3 DEF Inbox
    <3> QED BY <3>1, <3>2, ConcatEmptySeq
  <2>6. \A d \in All : d # current => Inbox(d)' = Inbox(d)
    BY <2>2, <2>3 DEF Inbox
  <2> QED BY <1>1, <2>1, <2>3, <2>4, <2>5, <2>6
<1> QED BY <1>2, <1>3

-----------------------------------------------------------------------------
(* A message that is neither in the socket nor in the queue is not in the inbox. *)
LEMMA InboxLacks ==
    ASSUME TypeOK, NEW b \in All, NEW m,
           \A i \in DOMAIN sock[b] : sock[b][i] # m,
           \A i \in DOMAIN rqueue[b] : rqueue[b][i] # m
    PROVE  \A i \in 1..Len(Inbox(b)) : Inbox(b)[i] # m
<1>1. PICK s \in Seq(Messages) : s = sock[b]
  BY InboxType
<1>2. PICK r \in Seq(Messages) : r = rqueue[b]
  BY InboxType
<1>3. (\A i \in 1..Len(s) : s[i] # m) /\ (\A i \in 1..Len(r) : r[i] # m) /\ Len(s) \in Nat /\ Len(r) \in Nat
  BY <1>1, <1>2
<1>4. SUFFICES ASSUME NEW i \in 1..Len(r \o s) PROVE (r \o s)[i] # m
  BY <1>1, <1>2 DEF Inbox
<1>5. /\ i \in 1..(Len(r) + Len(s))
      /\ (r \o s)[i] = IF i <= Len(r) THEN r[i] ELSE s[i - Len(r)]
  BY ConcatProperties
<1>6. CASE i <= Len(r)
  BY <1>3, <1>5, <1>6
<1>7. CASE ~(i <= Len(r))
  <2>1. i - Len(r) \in 1..Len(s)
    BY <1>3, <1>5, <1>7
  <2> QED BY <1>3, <1>5, <1>7, <2>1
<1> QED BY <1>6, <1>7

(* Neither the inboxes change nor the buses. *)
LEMMA SameKeeps ==
    ASSUME IInv, UNCHANGED <<life, sock, rqueue>>, eof \subseteq eof'
    PROVE  AllExpected' /\ Once'
<1>1. \A b \in All : Inbox(b)' = Inbox(b)
  BY DEF Inbox
<1> QED BY <1>1 DEF IInv, AllExpected, Expected, Once

(* A message joins an inbox: nothing in the inboxes is about the same bus in another state. *)
LEMMA SendKeeps ==
    ASSUME IInv, NEW b \in All, NEW m \in Messages, 
           Inbox(b)' = Append(Inbox(b), m), \A d \in All : d # b => Inbox(d)' = Inbox(d),
           UNCHANGED life, eof \subseteq eof', Expected(m, b)',
           m.what # "other" => \A i \in 1..Len(Inbox(b)) : Inbox(b)[i] # m
    PROVE  AllExpected' /\ Once'
<1>1. Inbox(b) \in Seq(Messages) /\ Len(Inbox(b)) \in Nat
  BY InboxType DEF IInv
<1>2. /\ Len(Inbox(b)') = Len(Inbox(b)) + 1
      /\ \A i \in 1..Len(Inbox(b)) : Inbox(b)'[i] = Inbox(b)[i]
      /\ Inbox(b)'[Len(Inbox(b)) + 1] = m
  BY <1>1, AppendProperties
<1>3. ASSUME NEW x, NEW d, Expected(x, d) PROVE Expected(x, d)'
  BY <1>3 DEF Expected
<1>4. AllExpected'
  <2> SUFFICES ASSUME NEW d \in All, NEW i \in 1..Len(Inbox(d)') PROVE Expected(Inbox(d)[i], d)'
    BY DEF AllExpected
  <2>1. ASSUME NEW x, x = Inbox(d)'[i] PROVE Expected(x, d)'
    <3>1. CASE d # b \/ i \in 1..Len(Inbox(b))
      <4>1. i \in 1..Len(Inbox(d)) /\ x = Inbox(d)[i]
        BY <1>2, <2>1, <3>1
      <4> QED BY <1>3, <4>1 DEF IInv, AllExpected
    <3>2. CASE d = b /\ i = Len(Inbox(b)) + 1
      BY <1>2, <2>1, <3>2
    <3> QED BY <1>1, <1>2, <3>1, <3>2
  <2> QED BY <2>1 DEF Expected
<1>5. Once'
  <2> SUFFICES ASSUME NEW d \in All, NEW i \in 1..Len(Inbox(d)'), NEW j \in 1..Len(Inbox(d)'),
                      Inbox(d)'[i] = Inbox(d)'[j], Inbox(d)'[i].what # "other"
               PROVE  i = j
    BY DEF Once
  <2>1. CASE d # b
    BY <2>1 DEF IInv, Once
  <2>2. CASE d = b /\ i \in 1..Len(Inbox(b)) /\ j \in 1..Len(Inbox(b))
    BY <1>2, <2>2 DEF IInv, Once
  <2>3. CASE d = b /\ (i = Len(Inbox(b)) + 1 \/ j = Len(Inbox(b)) + 1)
    BY <1>1, <1>2, <2>3
  <2> QED BY <1>1, <1>2, <2>1, <2>2, <2>3
<1> QED BY <1>4, <1>5

(* The oldest message leaves an inbox: no other is about the bus that it changes. *)
LEMMA DispatchKeeps ==
    ASSUME IInv, Inbox(current) # <<>>, NEW m, m = Head(Inbox(current)),
           Inbox(current)' = Tail(Inbox(current)), \A d \in All : d # current => Inbox(d)' = Inbox(d),
           UNCHANGED <<current, eof>>,
           \A d \in All : d # m.bus => life'[d] = life[d],
           m.what = "other" => UNCHANGED life
    PROVE  AllExpected' /\ Once'
<1> DEFINE q == Inbox(current)
<1>1. current \in All /\ q \in Seq(Messages)
  BY InboxType DEF IInv, TypeOK
<1>2. /\ Len(q) \in Nat \ {0} /\ m = q[1] /\ m \in Messages
      /\ Len(Tail(q)) = Len(q) - 1
      /\ \A i \in 1..Len(Tail(q)) : Tail(q)[i] = q[i + 1]
  BY <1>1, HeadTailProperties
<1>3. Expected(m, current)
  BY <1>1, <1>2 DEF IInv, AllExpected
<1>4. ASSUME NEW d \in All, NEW i \in 1..Len(Inbox(d)'), Inbox(d)'[i].what # "other"
      PROVE  \E j \in 1..Len(Inbox(d)) :
                /\ Inbox(d)[j] = Inbox(d)'[i]
                /\ d = current => j = i + 1
                /\ d # current => j = i
  <2>1. CASE d = current
    <3>1. i + 1 \in 1..Len(q) /\ Inbox(d)'[i] = q[i + 1]
      BY <1>2, <2>1
    <3> QED BY <2>1, <3>1
  <2>2. CASE d # current
    BY <2>2
  <2> QED BY <2>1, <2>2
<1> HIDE DEF q
<1>5. AllExpected'
  <2> SUFFICES ASSUME NEW d \in All, NEW i \in 1..Len(Inbox(d)') PROVE Expected(Inbox(d)[i], d)'
    BY DEF AllExpected
  <2>1. ASSUME NEW x, x = Inbox(d)'[i] PROVE Expected(x, d)'
    <3>1. CASE x.what = "other"
      BY <3>1 DEF Expected
    <3>2. CASE x.what # "other"
      <4>1. PICK j \in 1..Len(Inbox(d)) : Inbox(d)[j] = x /\ (d = current => j = i + 1)
        BY <1>4, <2>1, <3>2
      <4>2. Expected(x, d) /\ x \in Messages
        BY <4>1, InboxType DEF IInv, AllExpected
      <4>3. CASE m.what = "other"
        BY <4>2, <4>3 DEF Expected
      <4>4. CASE m.what # "other" /\ x.bus # m.bus
        BY <4>2, <4>4 DEF Expected, Messages
      <4>5. CASE m.what # "other" /\ x.bus = m.bus
        <5>1. x.what = m.what /\ d = current
          BY <1>2, <1>3, <3>2, <4>2, <4>5 DEF Expected, Messages, What
        <5>2. x = m
          BY <1>2, <4>2, <4>5, <5>1 DEF Messages
        <5>3. j = 1
          <6>1. 1 \in 1..Len(Inbox(current)) /\ Inbox(current)[1] = m
            BY <1>2 DEF q
          <6> QED BY <1>1, <4>1, <4>5, <5>1, <5>2, <6>1 DEF IInv, Once
        <5> QED BY <4>1, <5>1, <5>3
      <4> QED BY <4>3, <4>4, <4>5
    <3> QED BY <3>1, <3>2
  <2> QED BY <2>1 DEF Expected
<1>6. Once'
  <2> SUFFICES ASSUME NEW d \in All, NEW i \in 1..Len(Inbox(d)'), NEW j \in 1..Len(Inbox(d)'),
                      Inbox(d)'[i] = Inbox(d)'[j], Inbox(d)'[i].what # "other"
               PROVE  i = j
    BY DEF Once
  <2>1. PICK k \in 1..Len(Inbox(d)) : Inbox(d)[k] = Inbox(d)'[i] /\ (d = current => k = i + 1) /\ (d # current => k = i)
    BY <1>4
  <2>2. PICK l \in 1..Len(Inbox(d)) : Inbox(d)[l] = Inbox(d)'[j] /\ (d = current => l = j + 1) /\ (d # current => l = j)
    BY <1>4
  <2>3. k = l
    BY <2>1, <2>2 DEF IInv, Once
  <2>4. CASE d = current
    <3>1. i + 1 = j + 1
      BY <2>1, <2>2, <2>3, <2>4
    <3> QED BY <3>1
  <2> QED BY <2>1, <2>2, <2>3, <2>4
<1> QED BY <1>5, <1>6

-----------------------------------------------------------------------------
(* The loop begins on the system bus, with nothing to dispatch. *)
LEMMA InitIInv == Init => IInv
<1> SUFFICES ASSUME Init PROVE IInv
  OBVIOUS
<1> USE DEF Init
<1>1. Main \in All /\ Buses \subseteq All
  BY DEF All
<1>2. TypeOK
  <2>1. waiting \in BOOLEAN
    BY Zenon
  <2>2. /\ sock \in [All -> Seq([what : What, bus : All])]
        /\ rqueue \in [All -> Seq([what : What, bus : All])]
    OBVIOUS
  <2> QED BY <1>1, <2>1, <2>2, ServiceAssumption DEF TypeOK
<1>3. \A b \in All : Inbox(b) = <<>>
  BY ConcatEmptySeq DEF Inbox
<1>4. AllExpected /\ Once
  BY <1>3 DEF AllExpected, Once
<1> QED BY <1>1, <1>2, <1>4 DEF IInv, NoFreedBus, Valid

(* A step that changes nothing. *)
LEMMA StutterIInv == IInv /\ UNCHANGED vars => IInv'
<1> SUFFICES ASSUME IInv, UNCHANGED vars PROVE IInv'
  OBVIOUS
<1>1. AllExpected' /\ Once'
  BY SameKeeps DEF vars
<1> QED BY <1>1 DEF IInv, TypeOK, NoFreedBus, Valid, vars

(* The world changes inboxes and connections, never the buses. *)
LEMMA EnvironmentIInv ==
    ASSUME IInv, Environment, sock' \in [All -> Seq(Messages)], eof' \subseteq All, others' \in 0..MaxOthers,
           AllExpected', Once'
    PROVE  IInv'
BY DEF Environment, IInv, TypeOK, Messages, NoFreedBus, Valid

(* A start is asked for once, before its bus exists. *)
LEMMA ClientStartsIInv == ASSUME IInv, NEW b \in Buses, ClientStarts(b) PROVE IInv'
<1> DEFINE m == Message("start", b)
<1>1. m \in Messages /\ Main \in All /\ m.what = "start" /\ m.bus = b
  BY DEF Message, Messages, What, All
<1>2. /\ sock[Main] \in Seq(Messages) /\ rqueue[Main] \in Seq(Messages)
      /\ sock' \in [All -> Seq(Messages)]
      /\ Inbox(Main)' = Append(Inbox(Main), m) /\ \A d \in All : d # Main => Inbox(d)' = Inbox(d)
  BY <1>1, InboxType, SendsInbox DEF IInv, ClientStarts, Environment
<1>3. \A i \in 1..Len(Inbox(Main)) : Inbox(Main)[i] # m
  BY <1>1, InboxLacks DEF ClientStarts, IInv
<1>4. Expected(m, Main)'
  BY <1>1 DEF Expected, ClientStarts, Environment
<1>5. AllExpected' /\ Once'
  <2> HIDE DEF m
  <2> QED BY <1>1, <1>2, <1>3, <1>4, SendKeeps DEF ClientStarts, Environment
<1> QED BY <1>2, <1>5, EnvironmentIInv DEF ClientStarts, IInv, TypeOK

(* StopUnit is answered once, for a bus that entity::stop has given up. *)
LEMMA SystemdAnswersStopIInv == ASSUME IInv, NEW b \in Buses, SystemdAnswersStop(b) PROVE IInv'
<1> DEFINE m == Message("stopped", b)
<1>1. m \in Messages /\ Main \in All /\ m.what = "stopped" /\ m.bus = b
  BY DEF Message, Messages, What, All
<1>2. /\ sock[Main] \in Seq(Messages) /\ rqueue[Main] \in Seq(Messages)
      /\ sock' \in [All -> Seq(Messages)]
      /\ Inbox(Main)' = Append(Inbox(Main), m) /\ \A d \in All : d # Main => Inbox(d)' = Inbox(d)
  BY <1>1, InboxType, SendsInbox DEF IInv, SystemdAnswersStop, Environment
<1>3. \A i \in 1..Len(Inbox(Main)) : Inbox(Main)[i] # m
  BY <1>1, InboxLacks DEF SystemdAnswersStop, IInv
<1>4. Expected(m, Main)'
  BY <1>1 DEF Expected, SystemdAnswersStop, Environment
<1>5. AllExpected' /\ Once'
  <2> HIDE DEF m
  <2> QED BY <1>1, <1>2, <1>3, <1>4, SendKeeps DEF SystemdAnswersStop, Environment
<1> QED BY <1>2, <1>5, EnvironmentIInv DEF SystemdAnswersStop, IInv, TypeOK

(* An entityd answers Shutdown once, for it exits: a second answer would find it gone. *)
LEMMA EntitydAnswersShutdownIInv == ASSUME IInv, NEW b \in Buses, EntitydAnswersShutdown(b) PROVE IInv'
<1> DEFINE m == Message("shutdown", b)
<1>1. m \in Messages /\ b \in All /\ m.what = "shutdown" /\ m.bus = b
  BY DEF Message, Messages, What, All
<1>2. /\ sock' \in [All -> Seq(Messages)]
      /\ Inbox(b)' = Append(Inbox(b), m) /\ \A d \in All : d # b => Inbox(d)' = Inbox(d)
  BY <1>1, SendsInbox DEF IInv, EntitydAnswersShutdown, Environment
<1> HIDE DEF m
<1>3. \A i \in 1..Len(Inbox(b)) : Inbox(b)[i] # m
  BY <1>1 DEF EntitydAnswersShutdown, IInv, AllExpected, Expected
<1>4. Expected(m, b)'
  BY <1>1 DEF Expected, EntitydAnswersShutdown, Environment
<1>5. AllExpected' /\ Once'
  BY <1>1, <1>2, <1>3, <1>4, SendKeeps DEF EntitydAnswersShutdown, Environment
<1> QED BY <1>1, <1>2, <1>5, EnvironmentIInv DEF EntitydAnswersShutdown, IInv, TypeOK

(* A message that is not about a bus. *)
LEMMA SendsOtherIInv == ASSUME IInv, NEW b \in All, SendsOther(b) PROVE IInv'
<1> DEFINE m == Message("other", b)
<1>1. m \in Messages /\ m.what = "other"
  BY DEF Message, Messages, What
<1>2. /\ sock' \in [All -> Seq(Messages)]
      /\ Inbox(b)' = Append(Inbox(b), m) /\ \A d \in All : d # b => Inbox(d)' = Inbox(d)
  BY <1>1, SendsInbox DEF IInv, SendsOther, Environment
<1> HIDE DEF m
<1>3. Expected(m, b)'
  BY <1>1 DEF Expected
<1>4. AllExpected' /\ Once'
  BY <1>1, <1>2, <1>3, SendKeeps DEF SendsOther, Environment
<1>5. others' \in 0..MaxOthers /\ eof' \subseteq All
  BY ServiceAssumption DEF SendsOther, IInv, TypeOK
<1> QED BY <1>2, <1>4, <1>5, EnvironmentIInv DEF SendsOther

(* A connection closes. *)
LEMMA ClosesIInv ==
    ASSUME IInv, SystemBusCloses \/ \E b \in Buses : EntitydDies(b)
    PROVE  IInv'
<1>1. Environment /\ UNCHANGED <<sock, others>> /\ eof \subseteq eof' /\ eof' \subseteq All
  BY DEF SystemBusCloses, EntitydDies, IInv, TypeOK, All
<1>2. AllExpected' /\ Once'
  BY <1>1, SameKeeps DEF Environment
<1> QED BY <1>1, <1>2, EnvironmentIInv DEF IInv, TypeOK, Messages

(* A handler runs: the one that gives up a bus is called by another. *)
LEMMA DispatchIInv == ASSUME IInv, ProcessQueued \/ ProcessRead PROVE IInv'
<1>0. PICK m : m = Head(Inbox(current))
  OBVIOUS
<1>1. /\ Inbox(current) # <<>> /\ HandlesLife(m)
      /\ sock' \in [All -> Seq(Messages)] /\ rqueue' \in [All -> Seq(Messages)]
      /\ Inbox(current)' = Tail(Inbox(current)) /\ \A d \in All : d # current => Inbox(d)' = Inbox(d)
  BY <1>0, ProcessInbox DEF IInv
<1>2. /\ current \in All /\ m \in Messages /\ Expected(m, current)
  <2>1. current \in All /\ Inbox(current) \in Seq(Messages)
    BY InboxType DEF IInv, TypeOK
  <2>2. 1 \in 1..Len(Inbox(current)) /\ m = Inbox(current)[1] /\ m \in Messages
    BY <1>0, <1>1, <2>1, HeadTailProperties
  <2> QED BY <2>1, <2>2 DEF IInv, AllExpected
<1>3. UNCHANGED <<daemon, current, waiting, eof, others>>
  BY DEF ProcessQueued, ProcessRead
<1>4. AllExpected' /\ Once'
  <2>1. life \in [All -> {"none", "live", "kept", "freed"}] /\ m.bus \in All
    BY <1>2 DEF IInv, TypeOK, Messages
  <2>2. (\A d \in All : d # m.bus => life'[d] = life[d]) /\ (m.what = "other" => UNCHANGED life)
    BY <1>1, <2>1 DEF HandlesLife
  <2> QED BY <1>0, <1>1, <1>3, <2>2, DispatchKeeps
<1>5. TypeOK'
  <2>1. life' \in [All -> {"none", "live", "kept", "freed"}] /\ registered' \subseteq All
    BY <1>1, <1>2 DEF HandlesLife, IInv, TypeOK, Messages
  <2>2. \A b \in registered' : life'[b] = "live"
    <3>1. SUFFICES ASSUME NEW b \in registered' PROVE life'[b] = "live"
      OBVIOUS
    <3>2. /\ life \in [All -> {"none", "live", "kept", "freed"}] /\ m.bus \in All /\ registered \subseteq All
          /\ \A d \in registered : life[d] = "live"
      BY <1>2 DEF IInv, TypeOK, Messages
    <3>3. CASE b = m.bus
      BY <1>1, <1>2, <3>1, <3>2, <3>3 DEF HandlesLife, Expected
    <3>4. CASE b # m.bus
      BY <1>1, <3>1, <3>2, <3>4 DEF HandlesLife
    <3> QED BY <3>3, <3>4
  <2> QED BY <1>1, <1>3, <2>1, <2>2 DEF IInv, TypeOK, Messages
<1>6. life'[Main] = "live"
  BY <1>1, <1>2, ServiceAssumption DEF HandlesLife, IInv, TypeOK, Messages, Expected, All
<1>7. NoFreedBus'
  <2>1. ~waiting => Valid(current)'
    BY <1>1, <1>2, <1>3, <1>6, ServiceAssumption
    DEF HandlesLife, IInv, NoFreedBus, TypeOK, Messages, Expected, Valid, ProcessQueued, ProcessRead, Processing
  <2> QED BY <1>3, <1>5, <2>1 DEF NoFreedBus, TypeOK, Valid
<1> QED BY <1>4, <1>5, <1>6, <1>7 DEF IInv

(* The loop goes to wait, exits, or turns to a bus that epoll_wait reports: a registered one. *)
LEMMA WaitIInv ==
    ASSUME IInv, ProcessNothing \/ ProcessFails \/ \E b \in All : Wakes(b)
    PROVE  IInv'
<1>1. UNCHANGED <<life, sock, rqueue, eof, others>> /\ registered' \subseteq registered
  BY DEF ProcessNothing, ProcessFails, Wakes, worldVars
<1>2. waiting' \in BOOLEAN
  BY DEF ProcessNothing, ProcessFails, Wakes, IInv, TypeOK
<1>3. daemon' \in {"up", "exited"} /\ current' \in All
  BY DEF ProcessNothing, ProcessFails, Wakes, IInv, TypeOK
<1>4. TypeOK'
  BY <1>1, <1>2, <1>3 DEF IInv, TypeOK
<1>5. NoFreedBus'
  <2>1. CASE \E b \in All : Wakes(b)
    BY <1>1, <2>1 DEF Wakes, Ready, IInv, NoFreedBus, Valid
  <2>2. CASE ProcessNothing
    BY <1>1, <2>2 DEF ProcessNothing, IInv, NoFreedBus, Valid
  <2>3. CASE ProcessFails
    BY <1>1, <2>3 DEF ProcessFails, IInv, NoFreedBus, Valid
  <2> QED BY <2>1, <2>2, <2>3
<1>6. AllExpected' /\ Once'
  BY <1>1, SameKeeps
<1> QED BY <1>1, <1>4, <1>5, <1>6 DEF IInv

(* Every step of the loop and of the world keeps the invariant. *)
LEMMA NextIInv == IInv /\ [Next]_vars => IInv'
<1> SUFFICES ASSUME IInv, [Next]_vars PROVE IInv'
  OBVIOUS
<1>1. CASE UNCHANGED vars
  BY <1>1, StutterIInv
<1>2. CASE \E b \in Buses : ClientStarts(b) \/ EntitydAnswersShutdown(b) \/ SystemdAnswersStop(b)
  BY <1>2, ClientStartsIInv, EntitydAnswersShutdownIInv, SystemdAnswersStopIInv
<1>3. CASE \E b \in All : SendsOther(b)
  BY <1>3, SendsOtherIInv
<1>4. CASE SystemBusCloses \/ \E b \in Buses : EntitydDies(b)
  BY <1>4, ClosesIInv
<1>5. CASE ProcessQueued \/ ProcessRead
  BY <1>5, DispatchIInv
<1>6. CASE ProcessNothing \/ ProcessFails \/ \E b \in All : Wakes(b)
  BY <1>6, WaitIInv
<1> QED BY <1>1, <1>2, <1>3, <1>4, <1>5, <1>6 DEF Next, Process

(* The inductive invariant holds in every reachable state. *)
LEMMA Invariance == Spec => []IInv
BY InitIInv, NextIInv, PTL DEF Spec

-----------------------------------------------------------------------------
(* The variables of the loop keep to their types, and only live buses are registered. *)
THEOREM TypeCorrect == Spec => []TypeOK
<1>1. IInv => TypeOK
  BY DEF IInv
<1> QED BY <1>1, Invariance, PTL

(* service::loop never processes a bus object that entity::stop has freed. *)
THEOREM LoopUsesNoFreedBus == Spec => []NoFreedBus
<1>1. IInv => NoFreedBus
  BY DEF IInv
<1> QED BY <1>1, Invariance, PTL

(***************************************************************************)
(* The handlers of start, of the answer to Shutdown and of the answer to   *)
(* StopUnit each find the bus in the state they assume, and are called at  *)
(* most once for it, even if their messages were read ahead by a blocking  *)
(* call and are dispatched much later.                                     *)
(***************************************************************************)
THEOREM HandlersFindTheirBus == Spec => [](AllExpected /\ Once)
<1>1. IInv => AllExpected /\ Once
  BY DEF IInv
<1> QED BY <1>1, Invariance, PTL
=============================================================================
