----------------------- MODULE EntityLifecycleProofs -----------------------
(***************************************************************************)
(* Proofs about the coroutines of the lifecycle, for any entities,         *)
(* requests and uplinks: a start or stop coroutine uses the queue as       *)
(* EntityQueue says, on every path, and no entityd is forgotten.           *)
(*                                                                         *)
(* The frames that have a token are those of a chain that are past the     *)
(* queue, and those that are being destroyed and whose destructor has not  *)
(* run yet. The second kind is to be found on the call stack only, so the  *)
(* invariant is about the stack as much as about the chains: a queued      *)
(* frame is the last one of its chain, a destroyed frame lies deeper than  *)
(* what is left of its chain, and each entity has at most one token. That  *)
(* a chain has at most one frame more than there are entities follows from *)
(* the tokens too, since the frames that wait for their uplink all have    *)
(* one, of different entities.                                             *)
(***************************************************************************)
EXTENDS EntityLifecycle, FiniteSetTheorems, TLAPS

(* Where a coroutine runs, and where it is suspended with a token and not in its uplink. *)
RunPcs  == {"enqueue", "entered", "spawn", "components"}
HoldPcs == Pcs \ {"enqueue", "queued", "uplink"}

(* All frames but the innermost wait for the frame of their uplink, which is the next one. *)
ChainOK ==
    /\ DOMAIN chain = Requests
    /\ \A r \in Requests :
          /\ chain[r] \in Seq(Frames)
          /\ Depth(r) \in 0..(Cardinality(Names) + 1)
          /\ \A i \in 1..Depth(r) : chain[r][i].pc = "uplink" <=> i < Depth(r)
          /\ \A i \in 1..Depth(r) : i < Depth(r) => Uplink[chain[r][i].ent] = chain[r][i + 1].ent
          /\ reply[r] = "none" => chain[r] = <<>>

(* Is item i of the call stack the destruction of a frame? *)
IsDrop(i) == stack[i].kind = "drop"

(* At most the innermost call runs; a frame that is being destroyed is no longer in its chain. *)
StackOK ==
    /\ stack \in Seq(StackItems)
    /\ \A i \in DOMAIN stack : i # 1 => IsDrop(i)
    /\ \A i \in DOMAIN stack : ~IsDrop(i) =>
          chain[stack[i].req] # <<>> /\ Frame(stack[i].req).pc \in RunPcs
    /\ \A i \in DOMAIN stack : IsDrop(i) =>
          /\ Depth(stack[i].req) < stack[i].depth
          /\ chain[stack[i].req] # <<>> => Frame(stack[i].req).pc \in {"spawn", "slice"}
    /\ \A i, j \in DOMAIN stack :
          IsDrop(i) /\ IsDrop(j) /\ stack[i].req = stack[j].req /\ stack[i].depth = stack[j].depth
             => i = j

(* A queue holds the distinct innermost frames that are suspended in it, and is empty if nobody
   holds the token. *)
QueueOK ==
    /\ held \in [Names -> BOOLEAN]
    /\ queue \in [Names -> Seq(Coroutines)]
    /\ \A n \in Names : queue[n] # <<>> => held[n]
    /\ \A n \in Names : \A i, j \in DOMAIN queue[n] : queue[n][i] = queue[n][j] => i = j
    /\ \A n \in Names : \A i \in DOMAIN queue[n] :
          /\ chain[queue[n][i][1]] # <<>>
          /\ queue[n][i][2] = Depth(queue[n][i][1])
          /\ Frame(queue[n][i][1]).ent = n
          /\ Frame(queue[n][i][1]).pc = "queued"

(* An entity has at most one token, and none while it is not held. *)
TokenOK ==
    \A n \in Names :
        /\ \A c, d \in Tokens(n) : c = d
        /\ ~held[n] => Tokens(n) = {}

(* The invariant of the coroutines. *)
CInv == ChainOK /\ StackOK /\ QueueOK /\ TokenOK

(* No token is taken or given back. *)
SameTokens == \A n \in Names : Tokens(n)' = Tokens(n)
(* No request becomes a new one. *)
RepliesKept == \A s \in Requests : reply[s] # "none" => reply'[s] # "none"

-----------------------------------------------------------------------------
(* The number of entities is a number. *)
LEMMA CardType == Cardinality(Names) \in Nat
BY LifecycleAssumption, FS_CardinalityType

(* A sequence that is not empty, without its first element. *)
LEMMA TailFacts ==
    ASSUME NEW T, NEW s \in Seq(T), s # <<>>
    PROVE  /\ Len(s) \in Nat /\ Len(s) > 0 /\ DOMAIN s = 1..Len(s)
           /\ Head(s) = s[1] /\ Head(s) \in T /\ 1 \in DOMAIN s
           /\ Tail(s) \in Seq(T)
           /\ Len(Tail(s)) = Len(s) - 1
           /\ DOMAIN Tail(s) = 1..(Len(s) - 1)
           /\ \A i \in DOMAIN Tail(s) : i + 1 \in DOMAIN s /\ Tail(s)[i] = s[i + 1]
BY SMT

(* A sequence with one more element at its end. *)
LEMMA AppendFacts ==
    ASSUME NEW T, NEW s \in Seq(T), NEW e \in T
    PROVE  /\ Append(s, e) \in Seq(T)
           /\ Append(s, e) # <<>>
           /\ Len(Append(s, e)) = Len(s) + 1
           /\ DOMAIN Append(s, e) = 1..(Len(s) + 1)
           /\ \A i \in 1..Len(s) : Append(s, e)[i] = s[i]
           /\ Append(s, e)[Len(s) + 1] = e
BY SMT

(* One sequence after another. *)
LEMMA ConcatFacts ==
    ASSUME NEW T, NEW s \in Seq(T), NEW t \in Seq(T)
    PROVE  /\ s \o t \in Seq(T)
           /\ Len(s \o t) = Len(s) + Len(t)
           /\ DOMAIN (s \o t) = 1..(Len(s) + Len(t))
           /\ \A i \in 1..Len(s) : (s \o t)[i] = s[i]
           /\ \A i \in 1..Len(t) : (s \o t)[i + Len(s)] = t[i]
BY SMT

(* A sequence of one element. *)
LEMMA OneElement ==
    ASSUME NEW T, NEW x \in T
    PROVE  <<x>> \in Seq(T)
OBVIOUS

(* A sequence over a set is one over a larger set. *)
LEMMA SeqMonotone ==
    ASSUME NEW S, NEW T, S \subseteq T, NEW s \in Seq(S)
    PROVE  s \in Seq(T)
OBVIOUS

(* A function on an initial segment of the naturals is a sequence. *)
LEMMA IsSeq ==
    ASSUME NEW T, NEW k \in Nat, NEW t, t = [i \in 1..k |-> t[i]], \A i \in 1..k : t[i] \in T
    PROVE  t \in Seq(T) /\ Len(t) = k
OBVIOUS

(* The program counter of the last frame is set. *)
WithPc(s, k, pc) == [s EXCEPT ![k].pc = pc]

(* Only the pc of one frame of a chain changes. *)
LEMMA PcFacts ==
    ASSUME NEW s \in Seq(Frames), NEW k, k = Len(s), k # 0, NEW pc \in Pcs
    PROVE  LET t == WithPc(s, k, pc) IN
           /\ t \in Seq(Frames)
           /\ Len(t) = k
           /\ \A i \in 1..k : i # k => t[i] = s[i]
           /\ t[k].ent = s[k].ent
           /\ t[k].tree = s[k].tree
           /\ t[k].pc = pc
<1> DEFINE t == WithPc(s, k, pc)
<1>1. k \in 1..Len(s) /\ s[k] \in Frames /\ DOMAIN s = 1..k
  BY SMT
<1>2. /\ DOMAIN t = 1..k
      /\ \A i \in 1..k : i # k => t[i] = s[i]
      /\ t[k] = [s[k] EXCEPT !.pc = pc]
  BY <1>1 DEF WithPc
<1>3. t[k] \in Frames /\ t[k].ent = s[k].ent /\ t[k].tree = s[k].tree /\ t[k].pc = pc
  BY <1>1, <1>2 DEF Frames
<1>6. t = [i \in 1..k |-> t[i]]
  BY <1>1, <1>2 DEF WithPc
<1> HIDE DEF t
<1>4. \A i \in 1..k : t[i] \in Frames
  BY <1>1, <1>2, <1>3
<1>5. t \in Seq(Frames) /\ Len(t) = k
  <2>1. k \in Nat
    BY <1>1
  <2> QED BY <1>4, <1>6, <2>1, IsSeq
<1> QED BY <1>2, <1>3, <1>5 DEF t

(* The same, for the chain of a request. *)
LEMMA AtFacts ==
    ASSUME ChainOK, NEW r \in Requests, chain[r] # <<>>, NEW pc \in Pcs, chain' = At(r, pc)
    PROVE  /\ DOMAIN chain' = Requests
           /\ \A s \in Requests : s # r => chain'[s] = chain[s]
           /\ chain'[r] \in Seq(Frames)
           /\ chain'[r] # <<>>
           /\ Len(chain'[r]) = Len(chain[r])
           /\ \A i \in 1..Len(chain[r]) : i # Len(chain[r]) => chain'[r][i] = chain[r][i]
           /\ \A i \in 1..Len(chain[r]) : chain'[r][i].ent = chain[r][i].ent
           /\ chain'[r][Len(chain[r])].pc = pc
           /\ Len(chain[r]) \in 1..Len(chain[r])
           /\ Len(chain[r]) \in Nat
<1> DEFINE k == Len(chain[r])
           t == WithPc(chain[r], k, pc)
<1>1. chain[r] \in Seq(Frames) /\ k # 0 /\ k \in Nat /\ k \in 1..k
  BY DEF ChainOK
<1>2. /\ DOMAIN chain' = Requests
      /\ \A s \in Requests : s # r => chain'[s] = chain[s]
      /\ chain'[r] = t
  BY DEF At, Depth, ChainOK, WithPc
<1>3. /\ t \in Seq(Frames)
      /\ Len(t) = k
      /\ \A i \in 1..k : i # k => t[i] = chain[r][i]
      /\ t[k].ent = chain[r][k].ent
      /\ t[k].pc = pc
  BY <1>1, PcFacts
<1> HIDE DEF t
<1>4. t # <<>>
  BY <1>1, <1>3
<1> QED BY <1>1, <1>2, <1>3, <1>4

(* A frame that contains a token, and one that is about to destroy one. *)
Holds(c, n) ==
    /\ c[2] \in DOMAIN chain[c[1]]
    /\ chain[c[1]][c[2]].ent = n
    /\ chain[c[1]][c[2]].pc \notin {"enqueue", "queued"}

(* Is frame c, with its token of n, being destroyed, now or after the first item? *)
Dropping(c, n) ==
    \E i \in DOMAIN stack : IsDrop(i) /\ stack[i].ent = n /\ c = <<stack[i].req, stack[i].depth>>

Drops(rest, c, n) ==
    \E i \in DOMAIN rest : rest[i].ent = n /\ c = <<rest[i].req, rest[i].depth>>

DropsFirst(c, n) == IsDrop(1) /\ stack[1].ent = n /\ c = <<stack[1].req, stack[1].depth>>

(* The fields of what is on the call stack. *)
LEMMA ItemFacts ==
    ASSUME NEW x \in StackItems, x.kind = "drop"
    PROVE  /\ x.req \in Requests /\ x.depth \in Depths /\ x.ent \in Names
           /\ <<x.req, x.depth>> \in Coroutines
BY DEF StackItems, Coroutines

(* An item of the call stack is a Run or a Drop. *)
LEMMA StackItem ==
    ASSUME stack \in Seq(StackItems), NEW i \in DOMAIN stack
    PROVE  stack[i] \in StackItems
OBVIOUS

(* Who holds a token of n: a frame of a chain, or a frame that is being destroyed. *)
LEMMA TokensIff ==
    ASSUME stack \in Seq(StackItems), NEW n, NEW c
    PROVE  c \in Tokens(n) <=> (c \in Coroutines /\ Holds(c, n)) \/ Dropping(c, n)
BY DEF Tokens, Holds, Dropping, IsDrop

(* The same after a step. *)
LEMMA TokensIffPrime ==
    ASSUME stack' \in Seq(StackItems), NEW n, NEW c
    PROVE  c \in Tokens(n)' <=> (c \in Coroutines /\ Holds(c, n)') \/ Dropping(c, n)'
BY DEF Tokens, Holds, Dropping, IsDrop

(* A coroutine gets its token. *)
LEMMA HoldsAt ==
    ASSUME ChainOK, NEW r \in Requests, chain[r] # <<>>, NEW k, k = Len(chain[r]),
           chain[r][k].pc \in {"enqueue", "queued"}, chain' = At(r, "entered"),
           NEW n, n = chain[r][k].ent, NEW m, NEW d \in Coroutines
    PROVE  Holds(d, m)' <=> Holds(d, m) \/ (m = n /\ d = <<r, k>>)
<1>1. PICK s \in Requests, j \in Depths : d = <<s, j>>
  BY DEF Coroutines
<1>2. /\ \A t \in Requests : t # r => chain'[t] = chain[t]
      /\ chain'[r] \in Seq(Frames)
      /\ Len(chain'[r]) = k
      /\ \A i \in 1..k : i # k => chain'[r][i] = chain[r][i]
      /\ \A i \in 1..k : chain'[r][i].ent = chain[r][i].ent
      /\ chain'[r][k].pc = "entered"
      /\ k \in 1..k
  BY AtFacts DEF Pcs
<1>3. DOMAIN chain'[r] = 1..k /\ DOMAIN chain[r] = 1..k
  BY <1>2 DEF ChainOK
<1>4. CASE s # r
  BY <1>1, <1>2, <1>4 DEF Holds
<1>5. CASE s = r /\ j = k
  BY <1>1, <1>2, <1>3, <1>5 DEF Holds
<1>6. CASE s = r /\ j # k
  BY <1>1, <1>2, <1>3, <1>6 DEF Holds
<1> QED BY <1>4, <1>5, <1>6

(* No token changes hands if those that are held or dropped are the same. *)
LEMMA TokensKept ==
    ASSUME stack \in Seq(StackItems), stack' \in Seq(StackItems),
           \A n \in Names, c \in Coroutines :
              (Holds(c, n) \/ Dropping(c, n))' <=> (Holds(c, n) \/ Dropping(c, n))
    PROVE  SameTokens
<1> SUFFICES ASSUME NEW n \in Names PROVE Tokens(n)' = Tokens(n)
  BY DEF SameTokens
<1>1. ASSUME NEW c PROVE (Dropping(c, n) => c \in Coroutines) /\ (Dropping(c, n)' => c \in Coroutines)
  BY ItemFacts DEF Dropping, IsDrop
<1>2. ASSUME NEW c PROVE c \in Tokens(n)' <=> c \in Tokens(n)
  BY <1>1, TokensIff, TokensIffPrime
<1> QED BY <1>2

-----------------------------------------------------------------------------
(* The invariant of the queues, if no token changes hands. *)
LEMMA TokenKept ==
    ASSUME TokenOK, SameTokens, held' = held
    PROVE  TokenOK'
BY DEF TokenOK, SameTokens

(* A step that leaves all coroutines alone. *)
LEMMA Still ==
    ASSUME CInv, UNCHANGED <<chain, stack, held, queue>>, RepliesKept
    PROVE  CInv' /\ SameTokens
<1>1. ChainOK'
  BY DEF CInv, ChainOK, Depth, RepliesKept
<1>2. StackOK'
  BY DEF CInv, StackOK, Depth, Frame, IsDrop
<1>3. QueueOK'
  BY DEF CInv, QueueOK, Depth, Frame
<1>4. SameTokens
  BY DEF SameTokens, Tokens
<1> QED BY <1>1, <1>2, <1>3, <1>4, TokenKept DEF CInv

(* The queues are as they were, and so is every frame that is queued. *)
LEMMA QueueHeld ==
    ASSUME QueueOK, queue' = queue, NEW r \in Requests,
           held' \in [Names -> BOOLEAN], \A n \in Names : held[n] => held'[n],
           chain[r] # <<>> => Frame(r).pc # "queued",
           \A s \in Requests : s # r => chain'[s] = chain[s]
    PROVE  QueueOK'
<1>1. ASSUME NEW n \in Names, NEW i \in DOMAIN queue[n]
      PROVE  /\ chain'[queue[n][i][1]] # <<>>
             /\ queue[n][i][2] = Len(chain'[queue[n][i][1]])
             /\ chain'[queue[n][i][1]][Len(chain'[queue[n][i][1]])].ent = n
             /\ chain'[queue[n][i][1]][Len(chain'[queue[n][i][1]])].pc = "queued"
  <2>1. queue[n][i] \in Coroutines
    BY DEF QueueOK
  <2>2. PICK s \in Requests : s = queue[n][i][1]
    BY <2>1 DEF Coroutines
  <2>3. /\ chain[s] # <<>> /\ queue[n][i][2] = Len(chain[s])
        /\ chain[s][Len(chain[s])].ent = n
        /\ chain[s][Len(chain[s])].pc = "queued"
    BY <2>2 DEF QueueOK, Depth, Frame
  <2>4. s # r
    BY <2>3 DEF Frame, Depth
  <2> QED BY <2>2, <2>3, <2>4
<1> QED BY <1>1 DEF QueueOK, Depth, Frame

(* The same when no lock is taken either. *)
LEMMA QueueKept ==
    ASSUME QueueOK, UNCHANGED <<held, queue>>, NEW r \in Requests,
           chain[r] # <<>> => Frame(r).pc # "queued",
           \A s \in Requests : s # r => chain'[s] = chain[s]
    PROVE  QueueOK'
<1>1. queue' = queue /\ held' \in [Names -> BOOLEAN] /\ \A n \in Names : held[n] => held'[n]
  BY DEF QueueOK
<1> QED BY <1>1, QueueHeld

(* Every chain but that of r is as it was. *)
LEMMA ChainKept ==
    ASSUME ChainOK, RepliesKept, NEW r \in Requests, DOMAIN chain' = Requests,
           \A s \in Requests : s # r => chain'[s] = chain[s],
           chain'[r] \in Seq(Frames),
           Len(chain'[r]) \in 0..(Cardinality(Names) + 1),
           \A i \in 1..Len(chain'[r]) : chain'[r][i].pc = "uplink" <=> i < Len(chain'[r]),
           \A i \in 1..Len(chain'[r]) : i < Len(chain'[r]) =>
              Uplink[chain'[r][i].ent] = chain'[r][i + 1].ent,
           reply'[r] = "none" => chain'[r] = <<>>
    PROVE  ChainOK'
<1>1. ASSUME NEW s \in Requests
      PROVE  /\ chain'[s] \in Seq(Frames)
             /\ Len(chain'[s]) \in 0..(Cardinality(Names) + 1)
             /\ \A i \in 1..Len(chain'[s]) : chain'[s][i].pc = "uplink" <=> i < Len(chain'[s])
             /\ \A i \in 1..Len(chain'[s]) : i < Len(chain'[s]) =>
                   Uplink[chain'[s][i].ent] = chain'[s][i + 1].ent
             /\ reply'[s] = "none" => chain'[s] = <<>>
  <2>1. CASE s = r
    BY <2>1
  <2>2. CASE s # r
    <3>1. /\ chain[s] \in Seq(Frames)
          /\ Len(chain[s]) \in 0..(Cardinality(Names) + 1)
          /\ \A i \in 1..Len(chain[s]) : chain[s][i].pc = "uplink" <=> i < Len(chain[s])
          /\ \A i \in 1..Len(chain[s]) : i < Len(chain[s]) =>
                Uplink[chain[s][i].ent] = chain[s][i + 1].ent
          /\ reply[s] = "none" => chain[s] = <<>>
      BY DEF ChainOK, Depth
    <3>2. chain'[s] = chain[s]
      BY <2>2
    <3> QED BY <3>1, <3>2 DEF RepliesKept
  <2> QED BY <2>1, <2>2
<1> QED BY <1>1 DEF ChainOK, Depth

(* The frame on top of a chain goes on or suspends, and awaits no other one. *)
LEMMA ChainAt ==
    ASSUME ChainOK, RepliesKept, NEW r \in Requests, chain[r] # <<>>,
           NEW pc \in Pcs \ {"uplink"}, chain' = At(r, pc)
    PROVE  ChainOK'
<1> PICK k : k = Len(chain[r])
  OBVIOUS
<1>1. /\ DOMAIN chain' = Requests
      /\ \A s \in Requests : s # r => chain'[s] = chain[s]
      /\ chain'[r] \in Seq(Frames)
      /\ chain'[r] # <<>>
      /\ Len(chain'[r]) = k
      /\ \A i \in 1..k : i # k => chain'[r][i] = chain[r][i]
      /\ \A i \in 1..k : chain'[r][i].ent = chain[r][i].ent
      /\ chain'[r][k].pc = pc
      /\ k \in Nat
  BY AtFacts
<1>2. k \in 0..(Cardinality(Names) + 1)
  BY DEF ChainOK, Depth
<1>3. ASSUME NEW i \in 1..k PROVE chain'[r][i].pc = "uplink" <=> i < k
  <2>1. CASE i = k
    BY <1>1, <2>1
  <2>2. CASE i # k
    BY <1>1, <2>2 DEF ChainOK, Depth
  <2> QED BY <2>1, <2>2
<1>4. ASSUME NEW i \in 1..k, i < k PROVE Uplink[chain'[r][i].ent] = chain'[r][i + 1].ent
  <2>1. i + 1 \in 1..k
    BY <1>1, <1>4
  <2>2. Uplink[chain[r][i].ent] = chain[r][i + 1].ent
    BY <1>4 DEF ChainOK, Depth
  <2> QED BY <1>1, <2>1, <2>2
<1>5. reply'[r] # "none"
  BY DEF ChainOK, RepliesKept
<1> QED BY <1>1, <1>2, <1>3, <1>4, <1>5, ChainKept

(* What is left of the call stack under the coroutine of r. *)
RestOf(r, rest) ==
    \/ stack # <<>> /\ Head(stack) = Run(r) /\ rest = Tail(stack)
    \/ stack = <<>> /\ rest = <<>>

(* The call stack without its innermost call. *)
LEMMA TailStack ==
    ASSUME CInv, stack # <<>>, NEW rest, rest = Tail(stack)
    PROVE  /\ rest \in Seq(StackItems)
           /\ \A i \in DOMAIN rest :
                 /\ rest[i].kind = "drop" /\ rest[i].req \in Requests
                 /\ Len(chain[rest[i].req]) < rest[i].depth
                 /\ chain[rest[i].req] # <<>> =>
                       chain[rest[i].req][Len(chain[rest[i].req])].pc \in {"spawn", "slice"}
           /\ \A i, j \in DOMAIN rest :
                 rest[i].req = rest[j].req /\ rest[i].depth = rest[j].depth => i = j
           /\ IsDrop(1) => \A i \in DOMAIN rest :
                 <<rest[i].req, rest[i].depth>> # <<stack[1].req, stack[1].depth>>
           /\ \A n, c : Dropping(c, n) <=> Drops(rest, c, n) \/ DropsFirst(c, n)
<1>1. /\ 1 \in DOMAIN stack
      /\ DOMAIN stack = 1..Len(stack) /\ Len(stack) \in Nat
      /\ rest \in Seq(StackItems)
      /\ DOMAIN rest = 1..(Len(stack) - 1)
      /\ \A i \in DOMAIN rest : i + 1 \in DOMAIN stack /\ rest[i] = stack[i + 1]
  BY TailFacts DEF CInv, StackOK
<1>2. ASSUME NEW i \in DOMAIN rest
      PROVE  /\ rest[i].kind = "drop" /\ rest[i].req \in Requests
             /\ Len(chain[rest[i].req]) < rest[i].depth
             /\ chain[rest[i].req] # <<>> =>
                   chain[rest[i].req][Len(chain[rest[i].req])].pc \in {"spawn", "slice"}
  <2>1. PICK j \in DOMAIN stack : j = i + 1 /\ rest[i] = stack[j] /\ j # 1
    BY <1>1
  <2>2. stack[j].kind = "drop"
    BY <2>1 DEF CInv, StackOK, IsDrop
  <2>3. /\ Len(chain[stack[j].req]) < stack[j].depth
        /\ chain[stack[j].req] # <<>> =>
              chain[stack[j].req][Len(chain[stack[j].req])].pc \in {"spawn", "slice"}
    BY <2>2 DEF CInv, StackOK, IsDrop, Depth, Frame
  <2>4. stack[j].req \in Requests
    BY <2>2, ItemFacts, StackItem DEF CInv, StackOK
  <2> QED BY <2>1, <2>2, <2>3, <2>4
<1>3. ASSUME NEW i \in DOMAIN rest, NEW j \in DOMAIN rest,
             rest[i].req = rest[j].req, rest[i].depth = rest[j].depth
      PROVE  i = j
  <2>1. i + 1 = j + 1
    BY <1>1, <1>2, <1>3 DEF CInv, StackOK, IsDrop
  <2> QED BY <1>1, <2>1
<1>4. ASSUME IsDrop(1), NEW i \in DOMAIN rest
      PROVE  <<rest[i].req, rest[i].depth>> # <<stack[1].req, stack[1].depth>>
  <2>1. i + 1 # 1 /\ i + 1 \in DOMAIN stack /\ stack[i + 1].kind = "drop" /\ rest[i] = stack[i + 1]
    BY <1>1, <1>2
  <2> QED BY <1>1, <1>4, <2>1 DEF CInv, StackOK, IsDrop
<1>5. ASSUME NEW i \in DOMAIN stack, stack[i].kind = "drop", i # 1
      PROVE  i - 1 \in DOMAIN rest /\ rest[i - 1] = stack[i]
  <2>1. i - 1 \in DOMAIN rest /\ (i - 1) + 1 = i
    BY <1>1, <1>5
  <2> QED BY <1>1, <2>1
<1>6. ASSUME NEW n, NEW c
      PROVE  Dropping(c, n) <=> Drops(rest, c, n) \/ DropsFirst(c, n)
  <2>1. Dropping(c, n) => Drops(rest, c, n) \/ DropsFirst(c, n)
    BY <1>5 DEF Dropping, IsDrop, Drops, DropsFirst
  <2>2. ASSUME NEW i \in DOMAIN rest, rest[i].ent = n, c = <<rest[i].req, rest[i].depth>>
        PROVE  Dropping(c, n)
    BY <1>1, <1>2, <2>2 DEF Dropping, IsDrop
  <2> QED BY <1>1, <2>1, <2>2 DEF Dropping, Drops, DropsFirst
<1> QED BY <1>1, <1>2, <1>3, <1>4, <1>6

(* The same, under the coroutine that is running, or for an empty stack. *)
LEMMA RestFacts ==
    ASSUME CInv, NEW r \in Requests, NEW rest, RestOf(r, rest)
    PROVE  /\ rest \in Seq(StackItems)
           /\ \A i \in DOMAIN rest :
                 /\ rest[i].kind = "drop" /\ rest[i].req \in Requests
                 /\ Len(chain[rest[i].req]) < rest[i].depth
                 /\ chain[rest[i].req] # <<>> =>
                       chain[rest[i].req][Len(chain[rest[i].req])].pc \in {"spawn", "slice"}
           /\ \A i, j \in DOMAIN rest :
                 rest[i].req = rest[j].req /\ rest[i].depth = rest[j].depth => i = j
           /\ \A n, c : Dropping(c, n) <=> Drops(rest, c, n)
<1>1. CASE stack # <<>> /\ Head(stack) = Run(r) /\ rest = Tail(stack)
  <2>1. ~IsDrop(1)
    BY <1>1, TailFacts DEF CInv, StackOK, IsDrop, Run
  <2>2. /\ rest \in Seq(StackItems)
        /\ \A i \in DOMAIN rest :
              /\ rest[i].kind = "drop" /\ rest[i].req \in Requests
              /\ Len(chain[rest[i].req]) < rest[i].depth
              /\ chain[rest[i].req] # <<>> =>
                    chain[rest[i].req][Len(chain[rest[i].req])].pc \in {"spawn", "slice"}
        /\ \A i, j \in DOMAIN rest :
              rest[i].req = rest[j].req /\ rest[i].depth = rest[j].depth => i = j
    BY <1>1, TailStack
  <2>3. \A n, c : Dropping(c, n) <=> Drops(rest, c, n) \/ DropsFirst(c, n)
    BY <1>1, TailStack
  <2> QED BY <2>1, <2>2, <2>3 DEF DropsFirst
<1>2. CASE stack = <<>> /\ rest = <<>>
  BY <1>2 DEF Dropping, Drops
<1> QED BY <1>1, <1>2 DEF RestOf

(* The coroutine of r goes from one place where it has its token to another. *)
LEMMA PcMove ==
    ASSUME CInv, RepliesKept, UNCHANGED <<held, queue>>,
           NEW r \in Requests, NEW pc \in HoldPcs, chain[r] # <<>>,
           Frame(r).pc \in HoldPcs,
           chain' = At(r, pc),
           \/ /\ stack # <<>> /\ Head(stack) = Run(r)
              /\ \/ stack' = Tail(stack) /\ (Frame(r).pc = "spawn" => pc = "slice")
                 \/ stack' = stack /\ pc = "spawn"
           \/ stack = <<>> /\ stack' = <<>>
           \/ stack = <<>> /\ stack' = <<Run(r)>> /\ pc \in RunPcs
    PROVE  CInv' /\ SameTokens
<1> DEFINE k == Len(chain[r])
<1>1. /\ DOMAIN chain' = Requests
      /\ \A s \in Requests : s # r => chain'[s] = chain[s]
      /\ chain'[r] \in Seq(Frames)
      /\ chain'[r] # <<>>
      /\ Len(chain'[r]) = k
      /\ \A i \in 1..k : i # k => chain'[r][i] = chain[r][i]
      /\ \A i \in 1..k : chain'[r][i].ent = chain[r][i].ent
      /\ chain'[r][k].pc = pc
      /\ k \in 1..k
      /\ k \in Nat
  BY AtFacts DEF CInv, HoldPcs
<1>2. chain[r][k].pc \in HoldPcs
  BY DEF Frame, Depth
<1>3. ChainOK'
  BY ChainAt DEF CInv, HoldPcs
<1>4. QueueOK'
  BY <1>1, QueueKept DEF CInv, HoldPcs
<1>5. StackOK'
  <2>1. CASE RestOf(r, stack') /\ (stack # <<>> /\ Frame(r).pc = "spawn" => pc = "slice")
    <3>1. /\ stack' \in Seq(StackItems)
          /\ \A i \in DOMAIN stack' :
                /\ stack'[i].kind = "drop" /\ stack'[i].req \in Requests
                /\ Len(chain[stack'[i].req]) < stack'[i].depth
                /\ chain[stack'[i].req] # <<>> =>
                      chain[stack'[i].req][Len(chain[stack'[i].req])].pc \in {"spawn", "slice"}
          /\ \A i, j \in DOMAIN stack' :
                stack'[i].req = stack'[j].req /\ stack'[i].depth = stack'[j].depth => i = j
      BY <2>1, RestFacts
    <3>2. ASSUME NEW i \in DOMAIN stack'
          PROVE  /\ Len(chain'[stack'[i].req]) < stack'[i].depth
                 /\ chain'[stack'[i].req] # <<>> =>
                      chain'[stack'[i].req][Len(chain'[stack'[i].req])].pc \in {"spawn", "slice"}
      <4>1. CASE stack'[i].req # r
        BY <1>1, <3>1, <4>1
      <4>2. CASE stack'[i].req = r
        <5>1. stack # <<>> /\ Head(stack) = Run(r)
          BY <2>1 DEF RestOf
        <5>2. Frame(r).pc \in RunPcs
          <6>1. 1 \in DOMAIN stack /\ stack[1] = Run(r)
            BY <5>1, TailFacts DEF CInv, StackOK
          <6> QED BY <6>1 DEF CInv, StackOK, IsDrop, Run
        <5>3. Frame(r).pc = "spawn"
          BY <3>1, <4>2, <5>2 DEF RunPcs, Frame, Depth
        <5> QED BY <1>1, <2>1, <3>1, <4>2, <5>1, <5>3
      <4> QED BY <4>1, <4>2
    <3> QED BY <3>1, <3>2 DEF StackOK, IsDrop, Depth, Frame
  <2>2. CASE stack # <<>> /\ Head(stack) = Run(r) /\ stack' = stack /\ pc = "spawn"
    <3>1. 1 \in DOMAIN stack /\ stack[1] = Run(r) 
      BY <2>2, TailFacts DEF CInv, StackOK
    <3>2. stack' \in Seq(StackItems) /\ \A i \in DOMAIN stack' : i # 1 => stack'[i].kind = "drop"
      BY <2>2 DEF CInv, StackOK, IsDrop
    <3>3. ASSUME NEW i \in DOMAIN stack'
          PROVE  IF stack'[i].kind = "drop"
                 THEN /\ Len(chain'[stack'[i].req]) < stack'[i].depth
                      /\ chain'[stack'[i].req] # <<>> =>
                         chain'[stack'[i].req][Len(chain'[stack'[i].req])].pc \in {"spawn", "slice"}
                 ELSE /\ chain'[stack'[i].req] # <<>>
                      /\ chain'[stack'[i].req][Len(chain'[stack'[i].req])].pc \in RunPcs
      <4>1. CASE stack[i].kind # "drop"
        <5>1. stack'[i].req = r
          BY <2>2, <3>1, <3>2, <4>1 DEF Run
        <5> QED BY <1>1, <2>2, <4>1, <5>1 DEF RunPcs
      <4>2. CASE stack[i].kind = "drop"
        <5>1. PICK s \in Requests : s = stack[i].req
          BY <2>2, <4>2, ItemFacts, StackItem DEF CInv, StackOK
        <5>2. /\ Len(chain[s]) < stack[i].depth
              /\ chain[s] # <<>> => chain[s][Len(chain[s])].pc \in {"spawn", "slice"}
          BY <2>2, <4>2, <5>1 DEF CInv, StackOK, IsDrop, Depth, Frame
        <5> QED BY <1>1, <2>2, <4>2, <5>1, <5>2
      <4> QED BY <4>1, <4>2
    <3>4. \A i, j \in DOMAIN stack' :
             stack'[i].kind = "drop" /\ stack'[j].kind = "drop" /\
             stack'[i].req = stack'[j].req /\ stack'[i].depth = stack'[j].depth => i = j
      BY <2>2 DEF CInv, StackOK, IsDrop
    <3> QED BY <3>2, <3>3, <3>4 DEF StackOK, IsDrop, Depth, Frame
  <2>3. CASE stack = <<>> /\ stack' = <<Run(r)>> /\ pc \in RunPcs
    <3>1. stack' \in Seq(StackItems) /\ DOMAIN stack' = {1} /\ stack'[1] = Run(r)
      BY <2>3 DEF Run, StackItems
    <3> QED BY <1>1, <2>3, <3>1 DEF StackOK, IsDrop, Run, Frame, Depth
  <2> QED BY <2>1, <2>2, <2>3 DEF RestOf
<1>6. ASSUME NEW n, NEW c \in Coroutines PROVE Holds(c, n)' <=> Holds(c, n)
  <2>1. PICK s \in Requests, j \in Depths : c = <<s, j>>
    BY DEF Coroutines
  <2>2. CASE s # r
    BY <1>1, <2>1, <2>2 DEF Holds
  <2>3. CASE s = r
    <3>1. DOMAIN chain[r] = 1..k /\ DOMAIN chain'[r] = 1..k
      BY <1>1 DEF CInv, ChainOK
    <3> QED BY <1>1, <1>2, <2>1, <2>3, <3>1 DEF Holds, HoldPcs
  <2> QED BY <2>2, <2>3
<1>7. ASSUME NEW n, NEW c PROVE Dropping(c, n)' <=> Dropping(c, n)
  <2>1. CASE RestOf(r, stack')
    <3>1. /\ \A i \in DOMAIN stack' : stack'[i].kind = "drop"
          /\ Dropping(c, n) <=> Drops(stack', c, n)
      BY <2>1, RestFacts
    <3>2. Dropping(c, n)' <=> Drops(stack', c, n)
      BY <3>1 DEF Dropping, IsDrop, Drops
    <3> QED BY <3>1, <3>2
  <2>2. CASE stack' = stack
    BY <2>2 DEF Dropping, IsDrop
  <2>3. CASE stack = <<>> /\ stack' = <<Run(r)>>
    BY <2>3 DEF Dropping, IsDrop, Run
  <2> QED BY <2>1, <2>2, <2>3 DEF RestOf
<1>8. SameTokens
  BY <1>5, <1>6, <1>7, TokensKept DEF CInv, StackOK
<1> QED BY <1>3, <1>4, <1>5, <1>8, TokenKept DEF CInv

(* Items put on top of the call stack. *)
LEMMA PushFacts ==
    ASSUME NEW front \in Seq(StackItems), NEW rest \in Seq(StackItems), NEW new, new = front \o rest
    PROVE  /\ new \in Seq(StackItems)
           /\ Len(front) \in Nat
           /\ \A i \in 1..Len(front) : i \in DOMAIN new /\ new[i] = front[i]
           /\ \A i \in DOMAIN rest : i + Len(front) \in DOMAIN new /\ new[i + Len(front)] = rest[i]
           /\ \A i \in DOMAIN new : i \notin 1..Len(front) =>
                 i - Len(front) \in DOMAIN rest /\ new[i] = rest[i - Len(front)]
<1>1. /\ new \in Seq(StackItems)
      /\ DOMAIN new = 1..(Len(front) + Len(rest))
      /\ \A i \in 1..Len(front) : new[i] = front[i]
      /\ \A i \in 1..Len(rest) : new[i + Len(front)] = rest[i]
  BY ConcatFacts
<1>2. Len(front) \in Nat /\ Len(rest) \in Nat /\ DOMAIN rest = 1..Len(rest)
  OBVIOUS
<1>3. \A i \in DOMAIN rest : i + Len(front) \in DOMAIN new
  BY <1>1, <1>2
<1>4. ASSUME NEW i \in DOMAIN new, i \notin 1..Len(front)
      PROVE  i - Len(front) \in DOMAIN rest /\ new[i] = rest[i - Len(front)]
  <2>1. i - Len(front) \in 1..Len(rest) /\ (i - Len(front)) + Len(front) = i
    BY <1>1, <1>2, <1>4
  <2> QED BY <1>1, <1>2, <2>1
<1>5. \A i \in 1..Len(front) : i \in DOMAIN new
  BY <1>1, <1>2
<1> QED BY <1>1, <1>2, <1>3, <1>4, <1>5

(* An error: every frame of r is destroyed, with its token. *)
LEMMA UnwindMove ==
    ASSUME CInv, RepliesKept, UNCHANGED <<held, queue>>,
           NEW r \in Requests, chain[r] # <<>>, Frame(r).pc \in HoldPcs,
           NEW rest, RestOf(r, rest), Unwind(r, rest)
    PROVE  CInv' /\ SameTokens
<1> PICK k : k = Len(chain[r])
  OBVIOUS
<1> DEFINE front == [j \in 1..k |-> Drop(r, j, chain[r][j].ent)]
<1>1. /\ chain[r] \in Seq(Frames) /\ k \in Nat /\ k \in 1..k
      /\ k <= Cardinality(Names) + 1
      /\ \A j \in 1..k : chain[r][j].ent \in Names /\ chain[r][j].pc \notin {"enqueue", "queued"}
  <2>1. chain[r] \in Seq(Frames) /\ k \in Nat /\ k # 0 /\ k <= Cardinality(Names) + 1
    BY CardType DEF CInv, ChainOK, Depth
  <2>2. ASSUME NEW j \in 1..k PROVE chain[r][j].ent \in Names /\ chain[r][j].pc \notin {"enqueue", "queued"}
    <3>1. chain[r][j] \in Frames
      BY <2>1
    <3>2. CASE j = k
      BY <3>1, <3>2 DEF Frame, Depth, HoldPcs, Frames
    <3>3. CASE j < k
      BY <3>1, <3>3 DEF CInv, ChainOK, Depth, Frames
    <3> QED BY <2>1, <3>2, <3>3
  <2> QED BY <2>1, <2>2
<1>2. /\ DOMAIN chain' = Requests /\ chain'[r] = <<>>
      /\ \A s \in Requests : s # r => chain'[s] = chain[s]
  BY DEF Unwind, CInv, ChainOK
<1>3. /\ rest \in Seq(StackItems)
      /\ \A i \in DOMAIN rest :
            /\ rest[i].kind = "drop" /\ rest[i].req \in Requests
            /\ Len(chain[rest[i].req]) < rest[i].depth
            /\ chain[rest[i].req] # <<>> =>
                  chain[rest[i].req][Len(chain[rest[i].req])].pc \in {"spawn", "slice"}
      /\ \A i, j \in DOMAIN rest :
            rest[i].req = rest[j].req /\ rest[i].depth = rest[j].depth => i = j
      /\ \A n, c : Dropping(c, n) <=> Drops(rest, c, n)
  BY RestFacts
<1>4. /\ front \in Seq(StackItems) /\ Len(front) = k
      /\ \A j \in 1..k : /\ front[j].kind = "drop" /\ front[j].req = r /\ front[j].depth = j
                         /\ front[j].ent = chain[r][j].ent
  <2>1. \A j \in 1..k : j \in Depths
    BY <1>1, CardType DEF Depths
  <2>2. \A j \in 1..k : Drop(r, j, chain[r][j].ent) \in StackItems
    BY <1>1, <2>1 DEF Drop, StackItems
  <2>3. front \in Seq(StackItems) /\ Len(front) = k
    BY <1>1, <2>2
  <2> QED BY <2>3 DEF Drop
<1>5. stack' = front \o rest
  BY DEF Unwind, Depth
<1> HIDE DEF front
<1>6. /\ stack' \in Seq(StackItems)
      /\ \A i \in 1..k : i \in DOMAIN stack' /\ stack'[i] = front[i]
      /\ \A i \in DOMAIN rest : i + k \in DOMAIN stack' /\ stack'[i + k] = rest[i]
      /\ \A i \in DOMAIN stack' : i \notin 1..k => i - k \in DOMAIN rest /\ stack'[i] = rest[i - k]
  BY <1>3, <1>4, <1>5, PushFacts
<1>7. ChainOK'
  <2>2. /\ chain'[r] \in Seq(Frames) /\ Len(chain'[r]) = 0
        /\ 0 \in 0..(Cardinality(Names) + 1) /\ 1..0 = {}
    BY <1>2, CardType
  <2> QED BY <1>2, <2>2, ChainKept DEF CInv
<1>8. QueueOK'
  BY <1>2, QueueKept DEF CInv, HoldPcs
<1>9. StackOK'
  <2>1. ASSUME NEW i \in DOMAIN stack'
        PROVE  /\ stack'[i].kind = "drop"
               /\ Len(chain'[stack'[i].req]) < stack'[i].depth
               /\ chain'[stack'[i].req] # <<>> =>
                     chain'[stack'[i].req][Len(chain'[stack'[i].req])].pc \in {"spawn", "slice"}
    <3>1. CASE i \in 1..k
      <4>1. stack'[i].req = r /\ stack'[i].depth = i /\ stack'[i].kind = "drop"
        BY <1>4, <1>6, <3>1
      <4> QED BY <1>2, <3>1, <4>1
    <3>2. CASE i \notin 1..k
      <4>1. PICK j \in DOMAIN rest : stack'[i] = rest[j]
        BY <1>6, <3>2
      <4>2. CASE rest[j].req = r
        <5>1. Len(chain'[r]) = 0 /\ k < rest[j].depth /\ rest[j].depth \in Nat
          <6>1. rest[j] \in StackItems
            BY <1>3
          <6>2. rest[j].depth \in Nat /\ k < rest[j].depth
            <7>1. rest[j].depth \in Depths
              BY <1>3, <6>1, ItemFacts
            <7>2. k < rest[j].depth
              BY <1>3, <4>2
            <7> QED BY <7>1, <7>2, CardType DEF Depths
          <6> QED BY <1>2, <6>2
        <5> QED BY <1>1, <1>2, <1>3, <4>1, <4>2, <5>1
      <4>3. CASE rest[j].req # r
        BY <1>2, <1>3, <4>1, <4>3
      <4> QED BY <4>2, <4>3
    <3> QED BY <3>1, <3>2
  <2>2. ASSUME NEW i \in DOMAIN stack', NEW j \in DOMAIN stack',
               stack'[i].req = stack'[j].req, stack'[i].depth = stack'[j].depth
        PROVE  i = j
    <3>1. CASE i \in 1..k /\ j \in 1..k
      BY <1>4, <1>6, <2>2, <3>1
    <3>2. CASE i \notin 1..k /\ j \notin 1..k
      <4>1. i - k = j - k
        <5>1. /\ i - k \in DOMAIN rest /\ stack'[i] = rest[i - k]
              /\ j - k \in DOMAIN rest /\ stack'[j] = rest[j - k]
          BY <1>6, <3>2
        <5> QED BY <1>3, <2>2, <5>1
      <4>2. i \in Nat /\ j \in Nat
        BY <1>6
      <4> QED BY <1>1, <4>1, <4>2
    <3>3. ASSUME NEW a \in 1..k, NEW b \in DOMAIN stack', b \notin 1..k,
                 stack'[a].req = stack'[b].req, stack'[a].depth = stack'[b].depth
          PROVE  FALSE
      <4>1. stack'[a].req = r /\ stack'[a].depth = a
        BY <1>4, <1>6
      <4>2. PICK c \in DOMAIN rest : stack'[b] = rest[c]
        BY <1>6, <3>3
      <4>3. k < rest[c].depth
        BY <1>3, <3>3, <4>1, <4>2
      <4>4. rest[c].depth = a
        BY <3>3, <4>1, <4>2
      <4> QED BY <1>1, <4>3, <4>4
    <3> QED BY <2>2, <3>1, <3>2, <3>3
  <2> QED BY <1>6, <2>1, <2>2 DEF StackOK, IsDrop, Depth, Frame
<1>10. ASSUME NEW n \in Names, NEW c \in Coroutines
       PROVE  (Holds(c, n) \/ Dropping(c, n))' <=> (Holds(c, n) \/ Dropping(c, n))
  <2>1. PICK s \in Requests, j \in Depths : c = <<s, j>>
    BY DEF Coroutines
  <2>2. Dropping(c, n)' <=> Dropping(c, n) \/ (s = r /\ j \in 1..k /\ chain[r][j].ent = n)
    <3>1. ASSUME Dropping(c, n)'
          PROVE  Dropping(c, n) \/ (s = r /\ j \in 1..k /\ chain[r][j].ent = n)
      <4>1. PICK i \in DOMAIN stack' : stack'[i].ent = n /\ c = <<stack'[i].req, stack'[i].depth>>
        BY <3>1 DEF Dropping
      <4>2. CASE i \in 1..k
        BY <1>4, <1>6, <2>1, <4>1, <4>2
      <4>3. CASE i \notin 1..k
        BY <1>3, <1>6, <4>1, <4>3 DEF Drops
      <4> QED BY <4>2, <4>3
    <3>2. ASSUME Dropping(c, n) PROVE Dropping(c, n)'
      <4>1. PICK i \in DOMAIN rest : rest[i].ent = n /\ c = <<rest[i].req, rest[i].depth>>
        BY <1>3, <3>2 DEF Drops
      <4>2. /\ i + k \in DOMAIN stack' /\ stack'[i + k].kind = "drop" /\ stack'[i + k].ent = n
            /\ c = <<stack'[i + k].req, stack'[i + k].depth>>
        BY <1>3, <1>6, <4>1
      <4> QED BY <4>2 DEF Dropping, IsDrop
    <3>3. ASSUME s = r, j \in 1..k, chain[r][j].ent = n PROVE Dropping(c, n)'
      <4>1. /\ j \in DOMAIN stack' /\ stack'[j].kind = "drop" /\ stack'[j].ent = n
            /\ c = <<stack'[j].req, stack'[j].depth>>
        BY <1>4, <1>6, <2>1, <3>3
      <4> QED BY <4>1 DEF Dropping, IsDrop
    <3> QED BY <3>1, <3>2, <3>3
  <2>3. CASE s # r
    BY <1>2, <2>1, <2>2, <2>3 DEF Holds
  <2>4. CASE s = r
    <3>1. ~Holds(c, n)'
      BY <1>2, <2>1, <2>4 DEF Holds
    <3>2. Holds(c, n) <=> j \in 1..k /\ chain[r][j].ent = n
      BY <1>1, <2>1, <2>4 DEF Holds
    <3> QED BY <2>2, <2>4, <3>1, <3>2
  <2> QED BY <2>3, <2>4
<1>11. SameTokens
  BY <1>6, <1>10, TokensKept DEF CInv, StackOK
<1> QED BY <1>7, <1>8, <1>9, <1>11, TokenKept DEF CInv

(* The beginning of a sequence. *)
LEMMA SubSeqFacts ==
    ASSUME NEW T, NEW s \in Seq(T), NEW k \in Nat, k < Len(s)
    PROVE  /\ SubSeq(s, 1, k) \in Seq(T)
           /\ Len(SubSeq(s, 1, k)) = k
           /\ \A i \in 1..k : SubSeq(s, 1, k)[i] = s[i]
BY SMT

(* A depth above one has one below it. *)
LEMMA Predecessor ==
    ASSUME NEW k \in Nat, k # 0, k # 1
    PROVE  \E d \in Nat : d = k - 1 /\ d # 0 /\ d < k /\ d + 1 = k
<1>1. k - 1 \in Nat /\ k - 1 # 0 /\ k - 1 < k /\ (k - 1) + 1 = k
  OBVIOUS
<1> QED BY <1>1

(* The chain that is left, with its last frame about to go on. *)
LEMMA DropLastFacts ==
    ASSUME NEW s \in Seq(Frames), NEW d \in Nat, d # 0, d + 1 = Len(s),
           NEW t, t = WithPc(SubSeq(s, 1, d), d, "spawn")
    PROVE  /\ t \in Seq(Frames) /\ Len(t) = d /\ t # <<>>
           /\ \A i \in 1..d : i # d => t[i] = s[i]
           /\ t[d].ent = s[d].ent
           /\ t[d].pc = "spawn"
           /\ d \in 1..d /\ d \in 1..Len(s)
<1>1. PICK sub : sub = SubSeq(s, 1, d)
  OBVIOUS
<1>2. /\ sub \in Seq(Frames) /\ Len(sub) = d
      /\ \A i \in 1..d : sub[i] = s[i]
  BY <1>1, SubSeqFacts
<1>3. "spawn" \in Pcs /\ d \in 1..d /\ d \in 1..Len(s)
  BY DEF Pcs
<1> DEFINE w == WithPc(sub, d, "spawn")
<1>4. t = w
  BY <1>1
<1>5. /\ w \in Seq(Frames) /\ Len(w) = d
      /\ \A i \in 1..d : i # d => w[i] = sub[i]
      /\ w[d].ent = sub[d].ent
      /\ w[d].pc = "spawn"
  BY <1>2, <1>3, PcFacts
<1> HIDE DEF w
<1> QED BY <1>2, <1>3, <1>4, <1>5

(* The innermost frame of r is left; the one that awaits it goes on, if there is one. *)
LEMMA ReturnMove ==
    ASSUME CInv, RepliesKept, UNCHANGED <<held, queue>>,
           NEW r \in Requests, chain[r] # <<>>, Frame(r).pc \in HoldPcs \ {"spawn", "slice"},
           NEW rest, RestOf(r, rest), Return(r, rest)
    PROVE  CInv' /\ SameTokens
<1> PICK k : k = Len(chain[r])
  OBVIOUS
<1>1. /\ chain[r] \in Seq(Frames) /\ k \in Nat /\ k # 0
      /\ k <= Cardinality(Names) + 1
      /\ chain[r][k].pc \in HoldPcs \ {"spawn", "slice"}
      /\ chain[r][k] \in Frames /\ chain[r][k].ent \in Names
  <2>1. /\ chain[r] \in Seq(Frames) /\ k \in Nat /\ k # 0
        /\ k <= Cardinality(Names) + 1
        /\ chain[r][k].pc \in HoldPcs \ {"spawn", "slice"}
    BY CardType DEF CInv, ChainOK, Depth, Frame
  <2>2. chain[r][k] \in Frames
    BY <2>1
  <2> QED BY <2>1, <2>2 DEF Frames
<1>2. CASE k = 1
  <2>1. <<Drop(r, 1, Frame(r).ent)>> = [j \in 1..1 |-> Drop(r, j, chain[r][j].ent)]
    BY <1>2 DEF Frame, Depth
  <2>2. Unwind(r, rest)
    BY <1>2, <2>1 DEF Return, Unwind, Depth
  <2> QED BY <2>2, UnwindMove
<1>3. CASE k # 1
  <2> DEFINE item == Drop(r, k, chain[r][k].ent)
             front == <<Run(r), item>>
  <2>0. PICK d \in Nat : d = k - 1 /\ d # 0 /\ d < k /\ d + 1 = k
    <3>1. k \in Nat /\ k # 0
      BY <1>1
    <3> QED BY <1>3, <3>1, Predecessor
  <2>1. /\ chain' = [chain EXCEPT ![r] = [SubSeq(chain[r], 1, d) EXCEPT ![d].pc = "spawn"]]
        /\ stack' = front \o rest
    BY <1>3, <2>0 DEF Return, Depth, Frame
  <2>5. /\ DOMAIN chain' = Requests
        /\ \A s \in Requests : s # r => chain'[s] = chain[s]
        /\ chain'[r] = WithPc(SubSeq(chain[r], 1, d), d, "spawn")
    BY <2>1 DEF CInv, ChainOK, WithPc
  <2>6. /\ chain'[r] \in Seq(Frames) /\ Len(chain'[r]) = d /\ chain'[r] # <<>>
        /\ \A i \in 1..d : i # d => chain'[r][i] = chain[r][i]
        /\ chain'[r][d].ent = chain[r][d].ent
        /\ chain'[r][d].pc = "spawn"
        /\ d \in 1..d /\ d \in 1..k
    <3>1. chain[r] \in Seq(Frames) /\ d + 1 = Len(chain[r]) /\ d # 0
      BY <1>1, <2>0
    <3> QED BY <2>5, <3>1, DropLastFacts
  <2>7. /\ rest \in Seq(StackItems)
        /\ \A i \in DOMAIN rest :
              /\ rest[i].kind = "drop" /\ rest[i].req \in Requests
              /\ Len(chain[rest[i].req]) < rest[i].depth
              /\ chain[rest[i].req] # <<>> =>
                    chain[rest[i].req][Len(chain[rest[i].req])].pc \in {"spawn", "slice"}
        /\ \A i, j \in DOMAIN rest :
              rest[i].req = rest[j].req /\ rest[i].depth = rest[j].depth => i = j
        /\ \A n, c : Dropping(c, n) <=> Drops(rest, c, n)
    BY RestFacts
  <2>8. \A i \in DOMAIN rest : rest[i].req # r
    BY <1>1, <2>7
  <2>9. /\ item.kind = "drop" /\ item.req = r /\ item.depth = k /\ item.ent = chain[r][k].ent
        /\ item \in StackItems
    <3>1. k \in Depths
      BY <1>1, CardType DEF Depths
    <3> QED BY <1>1, <3>1 DEF Drop, StackItems
  <2> HIDE DEF item
  <2>10. /\ front \in Seq(StackItems) /\ Len(front) = 2 /\ front[1] = Run(r) /\ front[2] = item
    BY <2>9 DEF Run, StackItems
  <2> HIDE DEF front
  <2>11. /\ stack' \in Seq(StackItems)
         /\ 1 \in DOMAIN stack' /\ stack'[1] = Run(r)
         /\ 2 \in DOMAIN stack' /\ stack'[2] = item
         /\ \A i \in DOMAIN rest : i + 2 \in DOMAIN stack' /\ stack'[i + 2] = rest[i]
         /\ \A i \in DOMAIN stack' : i \notin {1, 2} =>
               i - 2 \in DOMAIN rest /\ stack'[i] = rest[i - 2]
    <3>1. 1..2 = {1, 2}
      OBVIOUS
    <3>2. /\ stack' \in Seq(StackItems)
          /\ \A i \in 1..Len(front) : i \in DOMAIN stack' /\ stack'[i] = front[i]
          /\ \A i \in DOMAIN rest :
                i + Len(front) \in DOMAIN stack' /\ stack'[i + Len(front)] = rest[i]
          /\ \A i \in DOMAIN stack' : i \notin 1..Len(front) =>
                i - Len(front) \in DOMAIN rest /\ stack'[i] = rest[i - Len(front)]
      <4>1. rest \in Seq(StackItems)
        BY <2>7
      <4>2. front \in Seq(StackItems)
        BY <2>10
      <4>3. stack' = front \o rest
        BY <2>1
      <4> QED BY <4>1, <4>2, <4>3, PushFacts
    <3> QED BY <2>10, <3>1, <3>2
  <2>12. ChainOK'
    <3>1. d \in 0..(Cardinality(Names) + 1)
      BY <1>1, <2>0, CardType
    <3>2. ASSUME NEW i \in 1..d PROVE chain'[r][i].pc = "uplink" <=> i < d
      <4>1. CASE i = d
        BY <2>6, <4>1
      <4>2. CASE i # d
        <5>1. i \in 1..k /\ i < d /\ i < k
          BY <1>1, <2>0, <4>2
        <5>2. chain[r][i].pc = "uplink"
          BY <5>1 DEF CInv, ChainOK, Depth
        <5> QED BY <2>6, <4>2, <5>1, <5>2
      <4> QED BY <4>1, <4>2
    <3>3. ASSUME NEW i \in 1..d, i < d PROVE Uplink[chain'[r][i].ent] = chain'[r][i + 1].ent
      <4>1. Uplink[chain[r][i].ent] = chain[r][i + 1].ent /\ i + 1 \in 1..d
        BY <2>0, <3>3, SMT DEF CInv, ChainOK, Depth
      <4> QED BY <2>6, <3>3, <4>1
    <3>4. reply'[r] # "none"
      BY DEF CInv, ChainOK, RepliesKept
    <3>5. /\ Len(chain'[r]) \in 0..(Cardinality(Names) + 1)
          /\ \A i \in 1..Len(chain'[r]) : chain'[r][i].pc = "uplink" <=> i < Len(chain'[r])
          /\ \A i \in 1..Len(chain'[r]) : i < Len(chain'[r]) =>
                Uplink[chain'[r][i].ent] = chain'[r][i + 1].ent
      BY <2>6, <3>1, <3>2, <3>3
    <3> QED BY <2>5, <2>6, <3>4, <3>5, ChainKept DEF CInv
  <2>13. QueueOK'
    BY <2>5, QueueKept DEF CInv, HoldPcs
  <2>14. StackOK'
    <3>1. ASSUME NEW i \in DOMAIN stack', i # 1
          PROVE  /\ stack'[i].kind = "drop"
                 /\ Len(chain'[stack'[i].req]) < stack'[i].depth
                 /\ chain'[stack'[i].req] # <<>> =>
                       chain'[stack'[i].req][Len(chain'[stack'[i].req])].pc \in {"spawn", "slice"}
      <4>1. CASE i = 2
        BY <2>0, <2>6, <2>9, <2>11, <4>1
      <4>2. CASE i # 2
        <5>1. PICK j \in DOMAIN rest : stack'[i] = rest[j]
          BY <2>11, <3>1, <4>2
        <5> QED BY <2>5, <2>7, <2>8, <5>1
      <4> QED BY <4>1, <4>2
    <3>2. ASSUME NEW i \in DOMAIN stack', NEW j \in DOMAIN stack', i # 1, j # 1,
                 stack'[i].req = stack'[j].req, stack'[i].depth = stack'[j].depth
          PROVE  i = j
      <4>1. CASE i = 2 \/ j = 2
        BY <2>8, <2>9, <2>11, <3>2, <4>1
      <4>2. CASE i # 2 /\ j # 2
        <5>1. /\ i - 2 \in DOMAIN rest /\ stack'[i] = rest[i - 2]
              /\ j - 2 \in DOMAIN rest /\ stack'[j] = rest[j - 2]
          BY <2>11, <3>2, <4>2
        <5>2. i - 2 = j - 2
          BY <2>7, <3>2, <5>1
        <5>3. i \in Nat /\ j \in Nat
          BY <2>11
        <5> QED BY <5>2, <5>3
      <4> QED BY <4>1, <4>2
    <3>3. stack'[1].kind # "drop" /\ stack'[1].req = r
      BY <2>11 DEF Run
    <3>4. chain'[r] # <<>> /\ chain'[r][Len(chain'[r])].pc \in RunPcs
      BY <2>6 DEF RunPcs
    <3> QED BY <2>11, <3>1, <3>2, <3>3, <3>4 DEF StackOK, IsDrop, Depth, Frame
  <2>15. ASSUME NEW n \in Names, NEW c \in Coroutines
         PROVE  (Holds(c, n) \/ Dropping(c, n))' <=> (Holds(c, n) \/ Dropping(c, n))
    <3>1. PICK s \in Requests, j \in Depths : c = <<s, j>>
      BY DEF Coroutines
    <3>2. Dropping(c, n)' <=> Dropping(c, n) \/ (s = r /\ j = k /\ chain[r][k].ent = n)
      <4>1. ASSUME Dropping(c, n)'
            PROVE  Dropping(c, n) \/ (s = r /\ j = k /\ chain[r][k].ent = n)
        <5>1. PICK i \in DOMAIN stack' : /\ stack'[i].kind = "drop" /\ stack'[i].ent = n
                                         /\ c = <<stack'[i].req, stack'[i].depth>>
          BY <4>1 DEF Dropping, IsDrop
        <5>2. CASE i = 1
          BY <2>11, <5>1, <5>2 DEF Run
        <5>3. CASE i = 2
          BY <2>9, <2>11, <3>1, <5>1, <5>3
        <5>4. CASE i \notin {1, 2}
          BY <2>7, <2>11, <5>1, <5>4 DEF Drops
        <5> QED BY <5>2, <5>3, <5>4
      <4>2. ASSUME Dropping(c, n) PROVE Dropping(c, n)'
        <5>1. PICK i \in DOMAIN rest : rest[i].ent = n /\ c = <<rest[i].req, rest[i].depth>>
          BY <2>7, <4>2 DEF Drops
        <5>2. /\ i + 2 \in DOMAIN stack' /\ stack'[i + 2].kind = "drop" /\ stack'[i + 2].ent = n
              /\ c = <<stack'[i + 2].req, stack'[i + 2].depth>>
          BY <2>7, <2>11, <5>1
        <5> QED BY <5>2 DEF Dropping, IsDrop
      <4>3. ASSUME s = r, j = k, chain[r][k].ent = n PROVE Dropping(c, n)'
        <5>1. /\ 2 \in DOMAIN stack' /\ stack'[2].kind = "drop" /\ stack'[2].ent = n
              /\ c = <<stack'[2].req, stack'[2].depth>>
          BY <2>9, <2>11, <3>1, <4>3
        <5> QED BY <5>1 DEF Dropping, IsDrop
      <4> QED BY <4>1, <4>2, <4>3
    <3>3. CASE s # r
      BY <2>5, <3>1, <3>2, <3>3 DEF Holds
    <3>4. CASE s = r
      <4>1. DOMAIN chain[r] = 1..k /\ DOMAIN chain'[r] = 1..d /\ j \in Nat
        BY <1>1, <2>6, CardType DEF Depths
      <4>2. CASE j = k
        <5>1. k \notin 1..d /\ k \in 1..k
          BY <2>0
        <5>2. ~Holds(c, n)' /\ (Holds(c, n) <=> chain[r][k].ent = n)
          BY <1>1, <3>1, <3>4, <4>1, <4>2, <5>1 DEF Holds, HoldPcs
        <5> QED BY <3>2, <3>4, <4>2, <5>2
      <4>3. CASE j # k
        <5>1. j \in 1..d <=> j \in 1..k
          BY <2>0, <4>1, <4>3
        <5>2. CASE j = d
          <6>1. chain[r][d].pc = "uplink"
            BY <2>0, <2>6 DEF CInv, ChainOK, Depth
          <6> QED BY <2>6, <3>1, <3>2, <3>4, <4>1, <4>3, <5>1, <5>2, <6>1 DEF Holds
        <5>3. CASE j # d
          BY <2>6, <3>1, <3>2, <3>4, <4>1, <4>3, <5>1, <5>3 DEF Holds
        <5> QED BY <5>2, <5>3
      <4> QED BY <4>2, <4>3
    <3> QED BY <3>3, <3>4
  <2>16. SameTokens
    BY <2>11, <2>15, TokensKept DEF CInv, StackOK
  <2> QED BY <2>12, <2>13, <2>14, <2>16, TokenKept DEF CInv
<1> QED BY <1>2, <1>3

(* The coroutine of r goes on running, and no frame of r is being destroyed. *)
LEMMA StackKept ==
    ASSUME CInv, NEW r \in Requests, stack' = stack,
           chain[r] # <<>>, Frame(r).pc \notin {"spawn", "slice"},
           \A s \in Requests : s # r => chain'[s] = chain[s],
           chain'[r] # <<>>, chain'[r][Len(chain'[r])].pc \in RunPcs
    PROVE  StackOK'
<1>1. ASSUME NEW i \in DOMAIN stack
      PROVE  IF stack[i].kind = "drop"
             THEN /\ Len(chain'[stack[i].req]) < stack[i].depth
                  /\ chain'[stack[i].req] # <<>> =>
                     chain'[stack[i].req][Len(chain'[stack[i].req])].pc \in {"spawn", "slice"}
             ELSE /\ chain'[stack[i].req] # <<>>
                  /\ chain'[stack[i].req][Len(chain'[stack[i].req])].pc \in RunPcs
  <2>1. PICK s \in Requests : s = stack[i].req
    <3>1. stack[i] \in StackItems
      BY StackItem DEF CInv, StackOK
    <3> QED BY <3>1 DEF StackItems
  <2>2. CASE stack[i].kind = "drop"
    <3>1. /\ Len(chain[s]) < stack[i].depth
          /\ chain[s] # <<>> => chain[s][Len(chain[s])].pc \in {"spawn", "slice"}
      BY <2>1, <2>2 DEF CInv, StackOK, IsDrop, Depth, Frame
    <3>2. s # r
      BY <3>1 DEF Frame, Depth
    <3> QED BY <2>1, <2>2, <3>1, <3>2
  <2>3. CASE stack[i].kind # "drop"
    <3>1. /\ chain[s] # <<>> /\ chain[s][Len(chain[s])].pc \in RunPcs
      BY <2>1, <2>3 DEF CInv, StackOK, IsDrop, Depth, Frame
    <3>2. CASE s = r
      BY <2>1, <2>3, <3>2
    <3>3. CASE s # r
      BY <2>1, <2>3, <3>1, <3>3
    <3> QED BY <3>2, <3>3
  <2> QED BY <2>2, <2>3
<1>2. /\ stack' \in Seq(StackItems)
      /\ \A i \in DOMAIN stack' : i # 1 => stack'[i].kind = "drop"
      /\ \A i, j \in DOMAIN stack' :
            stack'[i].kind = "drop" /\ stack'[j].kind = "drop" /\
            stack'[i].req = stack'[j].req /\ stack'[i].depth = stack'[j].depth => i = j
  BY DEF CInv, StackOK, IsDrop
<1> QED BY <1>1, <1>2 DEF StackOK, IsDrop, Depth, Frame

(* Frames with a token are of different entities, so there are few of them. *)
LEMMA DepthBound ==
    ASSUME CInv, NEW r \in Requests, chain[r] # <<>>, Frame(r).pc \in HoldPcs
    PROVE  Len(chain[r]) <= Cardinality(Names)
<1> PICK k : k = Len(chain[r])
  OBVIOUS
<1>1. /\ chain[r] \in Seq(Frames) /\ k \in Nat /\ k # 0 /\ k <= Cardinality(Names) + 1
  BY CardType DEF CInv, ChainOK, Depth
<1>2. ASSUME NEW j \in 1..k
      PROVE  /\ chain[r][j].ent \in Names
             /\ <<r, j>> \in Tokens(chain[r][j].ent)
  <2>0. chain[r][j] \in Frames
    BY <1>1
  <2>1. chain[r][j].ent \in Names
    BY <2>0 DEF Frames
  <2>2. chain[r][j].pc \notin {"enqueue", "queued"}
    <3>1. CASE j = k
      BY <3>1 DEF Frame, Depth, HoldPcs
    <3>2. CASE j < k
      BY <3>2 DEF CInv, ChainOK, Depth
    <3> QED BY <1>1, <3>1, <3>2
  <2>3. j \in Depths
    BY <1>1, CardType DEF Depths
  <2>4. <<r, j>> \in Coroutines /\ DOMAIN chain[r] = 1..k
    BY <1>1, <2>3 DEF Coroutines
  <2> QED BY <2>1, <2>2, <2>4, TokensIff DEF Holds, CInv, StackOK
<1> DEFINE f == [j \in 1..k |-> chain[r][j].ent]
<1>3. f \in [1..k -> Names]
  BY <1>2
<1>4. ASSUME NEW i \in 1..k, NEW j \in 1..k, f[i] = f[j] PROVE i = j
  <2>1. <<r, i>> \in Tokens(f[i]) /\ <<r, j>> \in Tokens(f[i]) /\ f[i] \in Names
    BY <1>2, <1>4
  <2>2. <<r, i>> = <<r, j>>
    BY <2>1 DEF CInv, TokenOK
  <2> QED BY <2>2
<1>5. f \in Injection(1..k, Names)
  BY <1>3, <1>4 DEF Injection, IsInjective
<1> HIDE DEF f
<1>6. Cardinality(1..k) <= Cardinality(Names)
  BY <1>5, FS_Injection, LifecycleAssumption
<1>7. 1 \in Int /\ k \in Int /\ Cardinality(1..k) = IF 1 > k THEN 0 ELSE k - 1 + 1
  BY <1>1, FS_Interval
<1> QED BY <1>1, <1>6, <1>7, CardType

(* entity::start awaits the start of its uplink u. *)
LEMMA UplinkMove ==
    ASSUME CInv, RepliesKept, UNCHANGED <<held, queue, stack>>, tree \in 0..MaxCommits,
           NEW r \in Requests, chain[r] # <<>>, Frame(r).pc = "entered",
           NEW u \in Names, u = Uplink[Frame(r).ent],
           chain' = [At(r, "uplink") EXCEPT ![r] = Append(@, NewFrame(u))]
    PROVE  CInv' /\ SameTokens
<1> PICK k : k = Len(chain[r])
  OBVIOUS
<1> DEFINE w == WithPc(chain[r], k, "uplink")
<1>1. /\ chain[r] \in Seq(Frames) /\ k \in Nat /\ k # 0 /\ "uplink" \in Pcs
      /\ chain[r][k].pc = "entered"
  BY DEF CInv, ChainOK, Depth, Frame, Pcs
<1>2. /\ w \in Seq(Frames) /\ Len(w) = k
      /\ \A i \in 1..k : i # k => w[i] = chain[r][i]
      /\ w[k].ent = chain[r][k].ent
      /\ w[k].pc = "uplink"
  BY <1>1, PcFacts, ZenonT(30)
<1>3. NewFrame(u) \in Frames /\ NewFrame(u).ent = u /\ NewFrame(u).pc = "enqueue"
  BY DEF NewFrame, Frames, Pcs
<1>4. /\ DOMAIN chain' = Requests
      /\ \A s \in Requests : s # r => chain'[s] = chain[s]
      /\ chain'[r] = Append(w, NewFrame(u))
  BY DEF At, Depth, CInv, ChainOK, WithPc
<1> HIDE DEF w
<1>5. PICK m \in Nat : m = k + 1
  BY <1>1
<1>6. /\ chain'[r] \in Seq(Frames) /\ Len(chain'[r]) = m /\ chain'[r] # <<>>
      /\ DOMAIN chain'[r] = 1..m /\ DOMAIN chain[r] = 1..k
      /\ \A i \in 1..k : i # k => chain'[r][i] = chain[r][i]
      /\ chain'[r][k].ent = chain[r][k].ent /\ chain'[r][k].pc = "uplink"
      /\ chain'[r][m].ent = u /\ chain'[r][m].pc = "enqueue"
  <2>1. k \in 1..k
    BY <1>1
  <2>2. /\ Append(w, NewFrame(u)) \in Seq(Frames) /\ Append(w, NewFrame(u)) # <<>>
        /\ Len(Append(w, NewFrame(u))) = Len(w) + 1
        /\ DOMAIN Append(w, NewFrame(u)) = 1..(Len(w) + 1)
        /\ \A i \in 1..Len(w) : Append(w, NewFrame(u))[i] = w[i]
        /\ Append(w, NewFrame(u))[Len(w) + 1] = NewFrame(u)
    BY <1>2, <1>3, AppendFacts
  <2>3. m = Len(w) + 1 /\ 1..Len(w) = 1..k
    BY <1>2, <1>5
  <2>4. /\ chain'[r] \in Seq(Frames) /\ chain'[r] # <<>> /\ Len(chain'[r]) = m
        /\ DOMAIN chain'[r] = 1..m
        /\ \A i \in 1..k : chain'[r][i] = w[i]
        /\ chain'[r][m] = NewFrame(u)
    BY <1>4, <2>2, <2>3
  <2>5. DOMAIN chain[r] = 1..k
    BY <1>1
  <2> QED BY <1>2, <1>3, <2>1, <2>4, <2>5
<1>7. ChainOK'
  <2>1. m \in 0..(Cardinality(Names) + 1)
    <3>1. k <= Cardinality(Names)
      BY DepthBound DEF HoldPcs, Pcs
    <3> QED BY <1>1, <1>5, <3>1, CardType
  <2>2. ASSUME NEW i \in 1..m PROVE chain'[r][i].pc = "uplink" <=> i < m
    <3>1. CASE i = m
      BY <1>6, <3>1
    <3>2. CASE i = k
      BY <1>1, <1>5, <1>6, <3>2
    <3>3. CASE i # m /\ i # k
      <4>1. i \in 1..k /\ i < k /\ i < m
        BY <1>1, <1>5, <3>3
      <4>2. chain[r][i].pc = "uplink"
        BY <4>1 DEF CInv, ChainOK, Depth
      <4> QED BY <1>6, <3>3, <4>1, <4>2
    <3> QED BY <3>1, <3>2, <3>3
  <2>3. ASSUME NEW i \in 1..m, i < m PROVE Uplink[chain'[r][i].ent] = chain'[r][i + 1].ent
    <3>1. CASE i = k
      BY <1>5, <1>6, <3>1 DEF Frame, Depth
    <3>2. CASE i # k
      <4>1. i \in 1..k /\ i < k /\ i + 1 \in 1..k
        BY <1>1, <1>5, <2>3, <3>2
      <4>2. Uplink[chain[r][i].ent] = chain[r][i + 1].ent
        BY <4>1 DEF CInv, ChainOK, Depth
      <4>3. chain'[r][i + 1].ent = chain[r][i + 1].ent
        BY <1>6, <4>1
      <4> QED BY <1>6, <3>2, <4>1, <4>2, <4>3
    <3> QED BY <3>1, <3>2
  <2>4. reply'[r] # "none"
    BY DEF CInv, ChainOK, RepliesKept
  <2>5. /\ Len(chain'[r]) \in 0..(Cardinality(Names) + 1)
        /\ \A i \in 1..Len(chain'[r]) : chain'[r][i].pc = "uplink" <=> i < Len(chain'[r])
        /\ \A i \in 1..Len(chain'[r]) : i < Len(chain'[r]) =>
              Uplink[chain'[r][i].ent] = chain'[r][i + 1].ent
    BY <1>6, <2>1, <2>2, <2>3
  <2>6. /\ DOMAIN chain' = Requests /\ chain'[r] \in Seq(Frames)
        /\ \A s \in Requests : s # r => chain'[s] = chain[s]
        /\ reply'[r] = "none" => chain'[r] = <<>>
    BY <1>4, <1>6, <2>4
  <2>7. ChainOK
    BY DEF CInv
  <2> QED BY <2>5, <2>6, <2>7, ChainKept, Zenon
<1>8. QueueOK'
  BY <1>4, QueueKept DEF CInv
<1>9. StackOK'
  BY <1>4, <1>6, StackKept DEF RunPcs
<1>10. ASSUME NEW n \in Names, NEW c \in Coroutines
       PROVE  (Holds(c, n) \/ Dropping(c, n))' <=> (Holds(c, n) \/ Dropping(c, n))
  <2>1. PICK s \in Requests, j \in Depths : c = <<s, j>>
    BY DEF Coroutines
  <2>2. Dropping(c, n)' <=> Dropping(c, n)
    BY DEF Dropping, IsDrop
  <2>3. CASE s # r
    BY <1>4, <2>1, <2>2, <2>3 DEF Holds
  <2>4. CASE s = r
    <3>1. CASE j = m
      <4>1. m \notin 1..k
        BY <1>1, <1>5
      <4> QED BY <1>6, <2>1, <2>2, <2>4, <3>1, <4>1 DEF Holds
    <3>2. CASE j = k
      <4>1. k \in 1..k /\ k \in 1..m
        BY <1>1, <1>5
      <4> QED BY <1>1, <1>6, <2>1, <2>2, <2>4, <3>2, <4>1 DEF Holds
    <3>3. CASE j # k /\ j # m
      <4>1. j \in 1..m <=> j \in 1..k
        BY <1>1, <1>5, <3>3
      <4> QED BY <1>6, <2>1, <2>2, <2>4, <3>3, <4>1 DEF Holds
    <3> QED BY <3>1, <3>2, <3>3
  <2> QED BY <2>3, <2>4
<1>11. SameTokens
  BY <1>10, TokensKept DEF CInv, StackOK
<1> QED BY <1>7, <1>8, <1>9, <1>11, TokenKept DEF CInv

(* A new request: its coroutine starts to run. *)
LEMMA RequestMove ==
    ASSUME CInv, RepliesKept, UNCHANGED <<held, queue>>, tree \in 0..MaxCommits,
           NEW r \in Requests, reply[r] = "none", reply'[r] # "none", NEW n \in Names,
           stack = <<>>, stack' = <<Run(r)>>,
           chain' = [chain EXCEPT ![r] = <<NewFrame(n)>>]
    PROVE  CInv' /\ SameTokens
<1>1. NewFrame(n) \in Frames /\ NewFrame(n).ent = n /\ NewFrame(n).pc = "enqueue"
  BY DEF NewFrame, Frames, Pcs
<1>2. chain[r] = <<>>
  BY DEF CInv, ChainOK
<1>3. /\ DOMAIN chain' = Requests
      /\ \A s \in Requests : s # r => chain'[s] = chain[s]
      /\ chain'[r] = <<NewFrame(n)>>
  BY DEF CInv, ChainOK
<1>4. /\ chain'[r] \in Seq(Frames) /\ Len(chain'[r]) = 1 /\ chain'[r] # <<>>
      /\ chain'[r][1] = NewFrame(n) /\ DOMAIN chain'[r] = {1}
  BY <1>1, <1>3
<1>5. ChainOK'
  <2>1. 1 \in 0..(Cardinality(Names) + 1)
    BY CardType
  <2>2. /\ Len(chain'[r]) \in 0..(Cardinality(Names) + 1)
        /\ \A i \in 1..Len(chain'[r]) : chain'[r][i].pc = "uplink" <=> i < Len(chain'[r])
        /\ \A i \in 1..Len(chain'[r]) : i < Len(chain'[r]) =>
              Uplink[chain'[r][i].ent] = chain'[r][i + 1].ent
    <3>1. 1..1 = {1} /\ ~(1 < 1)
      OBVIOUS
    <3> QED BY <1>1, <1>4, <2>1, <3>1
  <2> QED BY <1>3, <1>4, <2>2, ChainKept DEF CInv
<1>6. QueueOK'
  BY <1>2, <1>3, QueueKept DEF CInv
<1>7. StackOK'
  <2>1. stack' \in Seq(StackItems) /\ DOMAIN stack' = {1} /\ stack'[1] = Run(r)
    BY DEF Run, StackItems
  <2>2. stack'[1].kind = "run" /\ stack'[1].req = r
    BY <2>1 DEF Run
  <2>3. chain'[r][Len(chain'[r])].pc = "enqueue"
    BY <1>1, <1>4
  <2>4. \A i \in DOMAIN stack' : i = 1
    BY <2>1
  <2>5. ~IsDrop(1)' /\ Frame(stack[1].req)'.pc \in RunPcs /\ chain'[stack'[1].req] # <<>>
    BY <1>4, <2>2, <2>3 DEF IsDrop, Frame, Depth, RunPcs
  <2> QED BY <2>1, <2>4, <2>5 DEF StackOK
<1>8. ASSUME NEW m \in Names, NEW c \in Coroutines
      PROVE  (Holds(c, m) \/ Dropping(c, m))' <=> (Holds(c, m) \/ Dropping(c, m))
  <2>1. PICK s \in Requests, j \in Depths : c = <<s, j>>
    BY DEF Coroutines
  <2>2. ~Dropping(c, m)' /\ ~Dropping(c, m)
    BY DEF Dropping, IsDrop, Run
  <2>3. CASE s # r
    BY <1>3, <2>1, <2>2, <2>3 DEF Holds
  <2>4. CASE s = r
    BY <1>1, <1>2, <1>4, <2>1, <2>2, <2>4 DEF Holds
  <2> QED BY <2>3, <2>4
<1>9. SameTokens
  BY <1>7, <1>8, TokensKept DEF CInv, StackOK
<1> QED BY <1>5, <1>6, <1>7, <1>9, TokenKept DEF CInv

-----------------------------------------------------------------------------
(* The steps that move tokens are steps of module EntityQueue. *)

(* What is in a sequence, and that nothing is in it twice. *)
Entries(q)  == {q[i] : i \in DOMAIN q}
Distinct(q) == \A i, j \in DOMAIN q : q[i] = q[j] => i = j

(* One more entry at the end of a queue, and one less at its beginning. *)
LEMMA AppendDistinct ==
    ASSUME NEW q \in Seq(Coroutines), NEW c \in Coroutines, NEW t, t = Append(q, c),
           c \notin Entries(q), Distinct(q)
    PROVE  t \in Seq(Coroutines) /\ Entries(t) \subseteq Entries(q) \cup {c} /\ Distinct(t)
<1>1. PICK k : k = Len(q)
  OBVIOUS
<1>2. /\ t \in Seq(Coroutines) /\ DOMAIN t = 1..(k + 1) /\ DOMAIN q = 1..k /\ k \in Nat
      /\ \A i \in 1..k : t[i] = q[i]
      /\ t[k + 1] = c
  BY <1>1, AppendFacts
<1>3. \A i \in DOMAIN t : i \in 1..k \/ i = k + 1
  BY <1>2
<1> QED BY <1>2, <1>3 DEF Entries, Distinct

(* The first coroutine leaves a queue of distinct ones. *)
LEMMA TailDistinct ==
    ASSUME NEW q \in Seq(Coroutines), q # <<>>, NEW t, t = Tail(q), Distinct(q)
    PROVE  /\ t \in Seq(Coroutines) /\ Distinct(t)
           /\ Head(q) \in Entries(q) /\ Head(q) \in Coroutines
           /\ Entries(t) \subseteq Entries(q) \ {Head(q)}
<1>1. PICK k : k = Len(q)
  OBVIOUS
<1>2. /\ t \in Seq(Coroutines) /\ DOMAIN t = 1..(k - 1) /\ DOMAIN q = 1..k /\ k \in Nat
      /\ 1 \in DOMAIN q /\ Head(q) = q[1] /\ Head(q) \in Coroutines
      /\ \A i \in DOMAIN t : i + 1 \in DOMAIN q /\ t[i] = q[i + 1]
  BY <1>1, TailFacts
<1>3. \A i \in DOMAIN t : i + 1 # 1
  BY <1>2
<1>4. \A i, j \in DOMAIN t : i + 1 = j + 1 => i = j
  BY <1>2
<1>5. Distinct(t)
  BY <1>2, <1>4 DEF Distinct
<1>6. Entries(t) \subseteq Entries(q) \ {Head(q)}
  BY <1>2, <1>3 DEF Entries, Distinct
<1> QED BY <1>2, <1>5, <1>6 DEF Entries

(* c is suspended in co_await enqueue() of n. *)
IsQueued(c, n) ==
    /\ chain[c[1]] # <<>>
    /\ c[2] = Len(chain[c[1]])
    /\ chain[c[1]][Len(chain[c[1]])].ent = n
    /\ chain[c[1]][Len(chain[c[1]])].pc = "queued"

(* The coroutines in a queue are suspended in co_await enqueue() of that entity. *)
LEMMA QueueFacts ==
    ASSUME QueueOK, NEW n \in Names
    PROVE  /\ queue[n] \in Seq(Coroutines) /\ Distinct(queue[n])
           /\ queue[n] # <<>> => held[n]
           /\ \A c \in Entries(queue[n]) : c \in Coroutines /\ IsQueued(c, n)
BY DEF QueueOK, Entries, Distinct, IsQueued, Depth, Frame

(* One queue, and one chain, is replaced. *)
LEMMA QueueChanged ==
    ASSUME QueueOK, held' = held, NEW n \in Names, held[n], NEW t \in Seq(Coroutines),
           queue' = [queue EXCEPT ![n] = t],
           Distinct(t),
           \A c \in Entries(t) : IsQueued(c, n)',
           NEW r \in Requests, \A s \in Requests : s # r => chain'[s] = chain[s],
           \A m \in Names : m # n => \A c \in Entries(queue[m]) : c[1] # r
    PROVE  QueueOK'
<1>1. /\ held' \in [Names -> BOOLEAN]
      /\ queue' \in [Names -> Seq(Coroutines)]
      /\ queue'[n] = t
      /\ \A m \in Names : m # n => queue'[m] = queue[m]
  BY DEF QueueOK
<1>2. ASSUME NEW m \in Names, NEW q, q = queue'[m]
      PROVE  /\ q # <<>> => held'[m]
             /\ Distinct(q)
             /\ \A c \in Entries(q) : IsQueued(c, m)'
  <2>1. CASE m = n
    BY <1>1, <1>2, <2>1
  <2>2. CASE m # n
    <3>1. q = queue[m]
      BY <1>1, <1>2, <2>2
    <3>2. /\ q # <<>> => held'[m]
          /\ Distinct(q)
          /\ \A c \in Entries(q) : c \in Coroutines /\ IsQueued(c, m)
      BY <3>1, QueueFacts
    <3>3. ASSUME NEW x \in Entries(q) PROVE IsQueued(x, m)'
      <4>1. PICK s \in Requests : s = x[1] /\ s # r
        BY <2>2, <3>1, <3>2, <3>3 DEF Coroutines
      <4> QED BY <3>2, <4>1 DEF IsQueued
    <3> QED BY <3>2, <3>3
  <2> QED BY <2>1, <2>2
<1>3. ASSUME NEW m \in Names
      PROVE  /\ queue'[m] # <<>> => held'[m]
             /\ \A i, j \in DOMAIN queue'[m] : queue'[m][i] = queue'[m][j] => i = j
             /\ \A i \in DOMAIN queue'[m] :
                   /\ chain'[queue'[m][i][1]] # <<>>
                   /\ queue'[m][i][2] = Len(chain'[queue'[m][i][1]])
                   /\ chain'[queue'[m][i][1]][Len(chain'[queue'[m][i][1]])].ent = m
                   /\ chain'[queue'[m][i][1]][Len(chain'[queue'[m][i][1]])].pc = "queued"
  <2>1. PICK q : q = queue'[m]
    OBVIOUS
  <2>2. /\ q # <<>> => held'[m]
        /\ Distinct(q)
        /\ \A c \in Entries(q) : IsQueued(c, m)'
    BY <1>2, <2>1
  <2> QED BY <2>1, <2>2 DEF Distinct, Entries, IsQueued
<1> QED BY <1>1, <1>3 DEF QueueOK, Depth, Frame

(* co_await enqueue() *)
LEMMA EnqueueMove ==
    ASSUME CInv, UNCHANGED reply, NEW r \in Requests, Enqueue(r)
    PROVE  CInv' /\ Queue!Next
<1> PICK k, n : k = Len(chain[r]) /\ n = chain[r][k].ent
  OBVIOUS
<1> DEFINE c == <<r, k>>
<1>0. stack # <<>> /\ Head(stack) = Run(r) /\ Frame(r).pc = "enqueue"
  BY DEF Enqueue, Running
<1>1. chain[r] # <<>> /\ chain[r][k].pc = "enqueue"
  <2>1. 1 \in DOMAIN stack /\ stack[1] = Run(r)
    BY <1>0, TailFacts DEF CInv, StackOK
  <2> QED BY <1>0, <2>1 DEF CInv, StackOK, IsDrop, Run, Frame, Depth
<1>2. chain[r] \in Seq(Frames) /\ k \in Nat /\ k # 0 /\ k \in 1..k /\ DOMAIN chain[r] = 1..k
  BY <1>1 DEF CInv, ChainOK
<1>3. n \in Names
  <2>1. chain[r][k] \in Frames
    BY <1>2
  <2> QED BY <2>1 DEF Frames
<1>4. c \in Coroutines
  <2>1. k \in Depths
    BY <1>2, CardType DEF CInv, ChainOK, Depth, Depths
  <2> QED BY <2>1 DEF Coroutines
<1>5. RepliesKept
  BY DEF RepliesKept
<1>6. \A m \in Names : c \notin Tokens(m)
  <2>1. \A m : ~Holds(c, m)
    BY <1>1 DEF Holds
  <2>2. \A m : ~Dropping(c, m)
    BY <1>2 DEF Dropping, CInv, StackOK, Depth
  <2> QED BY <2>1, <2>2, TokensIff DEF CInv, StackOK
<1>7. \A m \in Names : \A i \in DOMAIN queue[m] : queue[m][i] # c
  BY <1>1 DEF CInv, QueueOK, Frame, Depth
<1>8. Queue!Idle(c)
  <2>1. \A m \in Names : queue[m] \in Seq(Coroutines) /\ DOMAIN queue[m] = 1..Len(queue[m])
    BY DEF CInv, QueueOK
  <2> QED BY <1>6, <1>7, <2>1 DEF Queue!Idle, Queue!Waiting
<1>9. CASE held[n]
  <2>1. /\ queue' = [queue EXCEPT ![n] = Append(@, c)]
        /\ chain' = At(r, "queued") /\ stack' = Tail(stack) /\ held' = held
    BY <1>9 DEF Enqueue, Suspend, Frame, Depth
  <2>2. /\ DOMAIN chain' = Requests
        /\ \A s \in Requests : s # r => chain'[s] = chain[s]
        /\ chain'[r] \in Seq(Frames)
        /\ chain'[r] # <<>>
        /\ Len(chain'[r]) = k
        /\ \A i \in 1..k : i # k => chain'[r][i] = chain[r][i]
        /\ \A i \in 1..k : chain'[r][i].ent = chain[r][i].ent
        /\ chain'[r][k].pc = "queued"
    BY <1>1, <2>1, AtFacts DEF CInv, Pcs
  <2>3. ChainOK'
    BY <1>1, <1>5, <2>1, ChainAt DEF CInv, Pcs
  <2>4. RestOf(r, stack')
    BY <1>0, <2>1 DEF RestOf
  <2>5. /\ stack' \in Seq(StackItems)
        /\ \A i \in DOMAIN stack' :
              /\ stack'[i].kind = "drop" /\ stack'[i].req \in Requests
              /\ Len(chain[stack'[i].req]) < stack'[i].depth
              /\ chain[stack'[i].req] # <<>> =>
                    chain[stack'[i].req][Len(chain[stack'[i].req])].pc \in {"spawn", "slice"}
        /\ \A i, j \in DOMAIN stack' :
              stack'[i].req = stack'[j].req /\ stack'[i].depth = stack'[j].depth => i = j
        /\ \A m, d : Dropping(d, m) <=> Drops(stack', d, m)
    BY <2>4, RestFacts
  <2>6. \A i \in DOMAIN stack' : stack'[i].req # r
    BY <1>1, <2>5
  <2>7. StackOK'
    BY <2>2, <2>5, <2>6 DEF StackOK, IsDrop, Depth, Frame
  <2>8. ASSUME NEW m \in Names, NEW d \in Coroutines
        PROVE  (Holds(d, m) \/ Dropping(d, m))' <=> (Holds(d, m) \/ Dropping(d, m))
    <3>1. PICK s \in Requests, j \in Depths : d = <<s, j>>
      BY DEF Coroutines
    <3>2. Dropping(d, m)' <=> Dropping(d, m)
      BY <2>5, SMTT(30) DEF Dropping, Drops, IsDrop
    <3>3. CASE s # r
      BY <2>2, <3>1, <3>2, <3>3 DEF Holds
    <3>4. CASE s = r
      <4>1. DOMAIN chain'[r] = 1..k
        BY <2>2
      <4> QED BY <1>1, <1>2, <2>2, <3>1, <3>2, <3>4, <4>1 DEF Holds
    <3> QED BY <3>3, <3>4
  <2>9. SameTokens
    BY <2>5, <2>8, TokensKept DEF CInv, StackOK
  <2>10. QueueOK'
    <3>1. PICK q, t : q = queue[n] /\ t = Append(q, c)
      OBVIOUS
    <3>2. ASSUME NEW m \in Names, NEW x \in Entries(queue[m]) PROVE x[1] # r
      <4>1. IsQueued(x, m)
        BY QueueFacts DEF CInv
      <4> QED BY <1>1, <4>1 DEF IsQueued
    <3>3. q \in Seq(Coroutines) /\ Distinct(q) /\ c \notin Entries(q)
      <4>1. q \in Seq(Coroutines) /\ Distinct(q)
        BY <1>3, <3>1, QueueFacts DEF CInv
      <4>2. c[1] = r
        OBVIOUS
      <4> HIDE DEF c
      <4> QED BY <1>3, <3>1, <3>2, <4>1, <4>2
    <3>4. t \in Seq(Coroutines) /\ Entries(t) \subseteq Entries(q) \cup {c} /\ Distinct(t)
      <4> HIDE DEF c
      <4> QED BY <1>4, <3>1, <3>3, AppendDistinct
    <3>5. ASSUME NEW x \in Entries(q) PROVE IsQueued(x, n)'
      <4>1. IsQueued(x, n) /\ x \in Coroutines
        BY <1>3, <3>1, QueueFacts DEF CInv
      <4>2. PICK s \in Requests : s = x[1] /\ s # r
        BY <1>3, <3>1, <3>2, <4>1 DEF Coroutines
      <4> QED BY <2>2, <4>1, <4>2 DEF IsQueued
    <3>6. IsQueued(c, n)'
      BY <1>2, <2>2 DEF IsQueued
    <3>7. \A x \in Entries(t) : IsQueued(x, n)'
      <4> HIDE DEF c
      <4> QED BY <3>4, <3>5, <3>6
    <3>8. queue' = [queue EXCEPT ![n] = t]
      BY <2>1, <3>1
    <3>9. \A m \in Names : m # n => \A x \in Entries(queue[m]) : x[1] # r
      BY <3>2
    <3>10. QueueOK /\ held' = held /\ \A s \in Requests : s # r => chain'[s] = chain[s]
      BY <2>1, <2>2 DEF CInv
    <3> HIDE DEF c
    <3> QED BY <1>3, <1>9, <3>4, <3>7, <3>8, <3>9, <3>10, QueueChanged, ZenonT(30)
  <2>11. Queue!EnqueueSuspend(c, n)
    BY <1>8, <1>9, <2>1, <2>9, ZenonT(60) DEF Queue!EnqueueSuspend, SameTokens
  <2> QED BY <1>3, <1>4, <2>1, <2>3, <2>7, <2>9, <2>10, <2>11, TokenKept
          DEF CInv, Queue!Next, Queue!Enqueue
<1>10. CASE ~held[n]
  <2>1. /\ held' = [held EXCEPT ![n] = TRUE] /\ chain' = At(r, "entered")
        /\ queue' = queue /\ stack' = stack
    BY <1>10 DEF Enqueue, Frame, Depth
  <2>2. /\ DOMAIN chain' = Requests
        /\ \A s \in Requests : s # r => chain'[s] = chain[s]
        /\ chain'[r] \in Seq(Frames)
        /\ chain'[r] # <<>>
        /\ Len(chain'[r]) = k
        /\ \A i \in 1..k : i # k => chain'[r][i] = chain[r][i]
        /\ \A i \in 1..k : chain'[r][i].ent = chain[r][i].ent
        /\ chain'[r][k].pc = "entered"
    BY <1>1, <2>1, AtFacts DEF CInv, Pcs
  <2>3. ChainOK'
    BY <1>1, <1>5, <2>1, ChainAt DEF CInv, Pcs
  <2>4. StackOK'
    BY <1>0, <1>1, <2>1, <2>2, StackKept DEF RunPcs
  <2>5. held' \in [Names -> BOOLEAN] /\ held'[n] /\ \A m \in Names : m # n => held'[m] = held[m]
    BY <1>3, <2>1 DEF CInv, QueueOK
  <2>6. QueueOK'
    <3>1. chain[r] # <<>> => Frame(r).pc # "queued"
      BY <1>1 DEF Frame, Depth
    <3>2. \A m \in Names : held[m] => held'[m]
      BY <2>5
    <3> QED BY <2>1, <2>2, <2>5, <3>1, <3>2, QueueHeld DEF CInv
  <2>7. ASSUME NEW m \in Names
        PROVE  Tokens(m)' = IF m = n THEN Tokens(m) \cup {c} ELSE Tokens(m)
    <3>1. ASSUME NEW d
          PROVE  d \in Tokens(m)' <=> d \in Tokens(m) \/ (m = n /\ d = c)
      <4>1. Dropping(d, m)' <=> Dropping(d, m)
        BY <2>1 DEF Dropping, IsDrop
      <4>2. CASE d \notin Coroutines
        BY <1>4, <2>4, <4>1, <4>2, TokensIff, TokensIffPrime DEF CInv, StackOK
      <4>3. CASE d \in Coroutines
        <5>2. Holds(d, m)' <=> Holds(d, m) \/ (m = n /\ d = <<r, k>>)
          BY <1>1, <2>1, <4>3, HoldsAt DEF CInv
        <5> QED BY <2>4, <4>1, <4>3, <5>2, TokensIff, TokensIffPrime DEF CInv, StackOK
      <4> QED BY <4>2, <4>3
    <3> QED BY <3>1
  <2>8. TokenOK'
    <3>1. Tokens(n) = {}
      BY <1>3, <1>10 DEF CInv, TokenOK
    <3>2. Tokens(n)' = {c}
      BY <1>3, <2>7, <3>1
    <3>3. \A m \in Names : m # n => Tokens(m)' = Tokens(m)
      BY <2>7
    <3> QED BY <2>5, <3>2, <3>3 DEF CInv, TokenOK
  <2>9. Queue!EnqueueReady(c, n)
    BY <1>3, <1>8, <1>10, <2>1, <2>7 DEF Queue!EnqueueReady
  <2> QED BY <1>3, <1>4, <2>3, <2>4, <2>6, <2>8, <2>9 DEF CInv, Queue!Next, Queue!Enqueue
<1> QED BY <1>9, <1>10

(* The token on top of the call stack, and those that stay. *)
LEMMA DropFacts ==
    ASSUME CInv, stack # <<>>, Head(stack).kind = "drop",
           NEW rest, rest = Tail(stack), NEW n, n = Head(stack).ent,
           NEW c, c = <<Head(stack).req, Head(stack).depth>>
    PROVE  /\ n \in Names /\ c \in Coroutines /\ c \in Tokens(n)
           /\ \A m, d : (d \in Coroutines /\ Holds(d, m)) \/ Drops(rest, d, m)
                         <=> d \in Tokens(m) /\ ~(d = c /\ m = n)
<1>1. 1 \in DOMAIN stack /\ Head(stack) = stack[1] /\ IsDrop(1)
  BY TailFacts DEF CInv, StackOK, IsDrop
<1>2. n \in Names /\ c \in Coroutines
  <2>1. stack[1] \in StackItems
    BY <1>1, StackItem DEF CInv, StackOK
  <2> QED BY <1>1, <2>1, ItemFacts DEF IsDrop
<1>3. \A m, d : DropsFirst(d, m) <=> d = c /\ m = n
  BY <1>1 DEF DropsFirst
<1>4. \A m, d : Dropping(d, m) <=> Drops(rest, d, m) \/ DropsFirst(d, m)
  BY TailStack
<1>5. \A m : ~Drops(rest, c, m)
  <2>1. \A i \in DOMAIN rest : <<rest[i].req, rest[i].depth>> # <<stack[1].req, stack[1].depth>>
    BY <1>1, TailStack
  <2> QED BY <1>1, <2>1 DEF Drops
<1>6. \A m : ~Holds(c, m)
  <2>1. PICK s \in Requests, j \in Depths : s = stack[1].req /\ j = stack[1].depth /\ c = <<s, j>>
    BY <1>1, <1>2 DEF Coroutines
  <2>2. Len(chain[s]) < j
    BY <1>1, <2>1 DEF CInv, StackOK, Depth
  <2>3. DOMAIN chain[s] = 1..Len(chain[s]) /\ Len(chain[s]) \in Nat
    BY DEF CInv, ChainOK
  <2>4. j \notin DOMAIN chain[s]
    <3>1. j \in Nat
      BY CardType DEF Depths
    <3> QED BY <2>2, <2>3, <3>1
  <2> QED BY <2>1, <2>4 DEF Holds
<1>7. \A m, d : d \in Tokens(m) <=> (d \in Coroutines /\ Holds(d, m)) \/ Dropping(d, m)
  BY TokensIff DEF CInv, StackOK
<1>8. c \in Tokens(n)
  BY <1>3, <1>4, <1>7
<1>9. ASSUME NEW m, NEW d
      PROVE  (d \in Coroutines /\ Holds(d, m)) \/ Drops(rest, d, m)
             <=> d \in Tokens(m) /\ ~(d = c /\ m = n)
  BY <1>3, <1>4, <1>5, <1>6, <1>7
<1> QED BY <1>2, <1>8, <1>9

(* ~queue_token when nobody waits. *)
LEMMA DropIdleMove ==
    ASSUME CInv, UNCHANGED reply, DropToken,
           NEW rest, rest = Tail(stack), NEW n, n = Head(stack).ent, queue[n] = <<>>,
           NEW c, c = <<Head(stack).req, Head(stack).depth>>
    PROVE  CInv' /\ Queue!Next
<1>1. /\ stack # <<>> /\ Head(stack).kind = "drop"
      /\ held' = [held EXCEPT ![n] = FALSE] /\ stack' = rest /\ queue' = queue /\ chain' = chain
  BY DEF DropToken
<1>2. /\ n \in Names /\ c \in Coroutines /\ c \in Tokens(n)
      /\ \A m, d : (d \in Coroutines /\ Holds(d, m)) \/ Drops(rest, d, m)
                    <=> d \in Tokens(m) /\ ~(d = c /\ m = n)
  BY <1>1, DropFacts
<1>3. /\ rest \in Seq(StackItems)
      /\ \A i \in DOMAIN rest :
            /\ rest[i].kind = "drop" /\ rest[i].req \in Requests
            /\ Len(chain[rest[i].req]) < rest[i].depth
            /\ chain[rest[i].req] # <<>> =>
                  chain[rest[i].req][Len(chain[rest[i].req])].pc \in {"spawn", "slice"}
      /\ \A i, j \in DOMAIN rest :
            rest[i].req = rest[j].req /\ rest[i].depth = rest[j].depth => i = j
  BY <1>1, TailStack
<1>4. ChainOK'
  BY <1>1 DEF CInv, ChainOK, Depth
<1>5. StackOK'
  BY <1>1, <1>3 DEF StackOK, IsDrop, Depth, Frame
<1>6. held' \in [Names -> BOOLEAN] /\ ~held'[n] /\ \A m \in Names : m # n => held'[m] = held[m]
  BY <1>1, <1>2 DEF CInv, QueueOK
<1>7. QueueOK'
  BY <1>1, <1>6 DEF CInv, QueueOK, Depth, Frame
<1>8. ASSUME NEW m \in Names
      PROVE  Tokens(m)' = IF m = n THEN Tokens(m) \ {c} ELSE Tokens(m)
  <2>1. ASSUME NEW d PROVE d \in Tokens(m)' <=> d \in Tokens(m) /\ ~(d = c /\ m = n)
    <3>1. Dropping(d, m)' <=> Drops(rest, d, m)
      BY <1>1, <1>3 DEF Dropping, Drops, IsDrop
    <3>2. Holds(d, m)' <=> Holds(d, m)
      BY <1>1 DEF Holds
    <3>3. stack' \in Seq(StackItems)
      BY <1>1, <1>3
    <3> QED BY <1>2, <3>1, <3>2, <3>3, TokensIffPrime
  <2> QED BY <2>1
<1>9. TokenOK'
  <2>1. Tokens(n)' = {}
    BY <1>2, <1>8 DEF CInv, TokenOK
  <2>2. \A m \in Names : m # n => Tokens(m)' = Tokens(m)
    BY <1>8
  <2> QED BY <1>6, <2>1, <2>2 DEF CInv, TokenOK
<1>10. Queue!ReleaseIdle(c, n)
  BY <1>1, <1>2, <1>8 DEF Queue!ReleaseIdle
<1> QED BY <1>2, <1>4, <1>5, <1>7, <1>9, <1>10 DEF CInv, Queue!Next, Queue!Release

(* The call stack new is rest, under the coroutine of r. *)
RunsOn(new, r, rest) ==
    /\ new \in Seq(StackItems) /\ 1 \in DOMAIN new /\ new[1] = Run(r)
    /\ \A i \in DOMAIN rest : i + 1 \in DOMAIN new /\ new[i + 1] = rest[i]
    /\ \A i \in DOMAIN new : i # 1 => i - 1 \in DOMAIN rest /\ new[i] = rest[i - 1]

(* Only the innermost call can be that of a running coroutine. *)
LEMMA RunOnTop ==
    ASSUME NEW rest \in Seq(StackItems), NEW front \in Seq(StackItems),
           NEW new, new = front \o rest, NEW r
    PROVE  Len(front) = 1 /\ front[1] = Run(r) => RunsOn(new, r, rest)
<1>1. /\ new \in Seq(StackItems)
      /\ DOMAIN new = 1..(Len(front) + Len(rest))
      /\ \A i \in 1..Len(front) : new[i] = front[i]
      /\ \A i \in 1..Len(rest) : new[i + Len(front)] = rest[i]
  BY ConcatFacts
<1> HAVE Len(front) = 1 /\ front[1] = Run(r)
<1>2. /\ DOMAIN new = 1..(1 + Len(rest))
      /\ \A i \in 1..1 : new[i] = front[i]
      /\ \A i \in 1..Len(rest) : new[i + 1] = rest[i]
  BY <1>1
<1>3. DOMAIN rest = 1..Len(rest) /\ Len(rest) \in Nat
  OBVIOUS
<1>4. new[1] = Run(r) /\ 1 \in DOMAIN new
  BY <1>1, <1>2, <1>3
<1>5. ASSUME NEW i \in DOMAIN new, i # 1 PROVE i - 1 \in DOMAIN rest /\ new[i] = rest[i - 1]
  <2>1. i - 1 \in 1..Len(rest) /\ (i - 1) + 1 = i
    BY <1>2, <1>3, <1>5
  <2> QED BY <1>2, <1>3, <2>1
<1>6. \A i \in DOMAIN rest : i + 1 \in DOMAIN new /\ new[i + 1] = rest[i]
  BY <1>2, <1>3, SMTT(30)
<1> QED BY <1>1, <1>4, <1>5, <1>6 DEF RunsOn

(* await_resume: the coroutine w has its token and goes on. *)
Resumed(w) == [chain EXCEPT ![w[1]][w[2]].pc = "entered"]

(* ~queue_token resumes the innermost frame of the coroutine that is first in line. *)
LEMMA ResumedAt ==
    ASSUME NEW r, NEW k, k = Len(chain[r]), NEW w, w = <<r, k>>,
           chain' = Resumed(w)
    PROVE  chain' = At(r, "entered") /\ w[1] = r
<1>1. w[1] = r /\ w[2] = k
  OBVIOUS
<1> QED BY <1>1, Zenon DEF At, Depth, Resumed

(* ~queue_token when a coroutine waits: that one is resumed. *)
LEMMA DropResumeMove ==
    ASSUME CInv, UNCHANGED reply, DropToken,
           NEW rest, rest = Tail(stack), NEW n, n = Head(stack).ent,
           NEW c, c = <<Head(stack).req, Head(stack).depth>>,
           NEW q, q = queue[n], q # <<>>, NEW t, t = Tail(q), NEW w, w = Head(q)
    PROVE  CInv' /\ Queue!Next
<1>1. /\ stack # <<>> /\ Head(stack).kind = "drop" /\ q # <<>>
      /\ queue' = [queue EXCEPT ![n] = t] /\ held' = held
      /\ chain' = Resumed(w)
      /\ stack' = <<Run(w[1])>> \o rest
  BY Zenon DEF DropToken, Resumed
<1>2. /\ n \in Names /\ c \in Coroutines /\ c \in Tokens(n)
      /\ \A m, d : (d \in Coroutines /\ Holds(d, m)) \/ Drops(rest, d, m)
                    <=> d \in Tokens(m) /\ ~(d = c /\ m = n)
  BY <1>1, DropFacts
<1>3. /\ q \in Seq(Coroutines) /\ Distinct(q) /\ held[n]
      /\ \A d \in Entries(q) : d \in Coroutines /\ IsQueued(d, n)
  BY <1>1, <1>2, QueueFacts DEF CInv
<1>4. /\ t \in Seq(Coroutines) /\ Distinct(t)
      /\ w \in Entries(q) /\ w \in Coroutines
      /\ Entries(t) \subseteq Entries(q) \ {w}
  BY <1>1, <1>3, TailDistinct
<1>5. PICK r \in Requests, k \in Depths : w = <<r, k>>
  BY <1>4 DEF Coroutines
<1>6. /\ chain[r] # <<>> /\ k = Len(chain[r])
      /\ chain[r][k].ent = n /\ chain[r][k].pc = "queued"
  BY <1>3, <1>4, <1>5 DEF IsQueued
<1>7. chain' = At(r, "entered") /\ stack' = <<Run(r)>> \o rest
  BY <1>1, <1>5, <1>6, ResumedAt, ZenonT(30)
<1>8. /\ \A s \in Requests : s # r => chain'[s] = chain[s]
      /\ chain'[r] # <<>>
      /\ Len(chain'[r]) = k
      /\ chain'[r][k].pc = "entered"
  BY <1>6, <1>7, AtFacts DEF CInv, Pcs
<1>9. ChainOK'
  BY <1>6, <1>7, ChainAt DEF CInv, RepliesKept, Pcs
<1>10. /\ rest \in Seq(StackItems)
       /\ \A i \in DOMAIN rest :
             /\ rest[i].kind = "drop" /\ rest[i].req \in Requests
             /\ Len(chain[rest[i].req]) < rest[i].depth
             /\ chain[rest[i].req] # <<>> =>
                   chain[rest[i].req][Len(chain[rest[i].req])].pc \in {"spawn", "slice"}
       /\ \A i, j \in DOMAIN rest :
             rest[i].req = rest[j].req /\ rest[i].depth = rest[j].depth => i = j
  BY <1>1, TailStack
<1>11. \A i \in DOMAIN rest : rest[i].req # r
  BY <1>6, <1>10
<1>12. /\ stack' \in Seq(StackItems) /\ 1 \in DOMAIN stack' /\ stack'[1] = Run(r)
       /\ \A i \in DOMAIN rest : i + 1 \in DOMAIN stack' /\ stack'[i + 1] = rest[i]
       /\ \A i \in DOMAIN stack' : i # 1 => i - 1 \in DOMAIN rest /\ stack'[i] = rest[i - 1]
  <2> DEFINE front == <<Run(r)>>
  <2>1. front \in Seq(StackItems) /\ Len(front) = 1 /\ front[1] = Run(r)
    BY DEF Run, StackItems
  <2>2. rest \in Seq(StackItems) /\ stack' = front \o rest
    BY <1>7, <1>10
  <2> HIDE DEF front
  <2>3. RunsOn(stack', r, rest)
    BY <2>1, <2>2, RunOnTop, Zenon
  <2> QED BY <2>3 DEF RunsOn
<1>13. StackOK'
  <2>1. ASSUME NEW i \in DOMAIN stack', i # 1
        PROVE  /\ stack'[i].kind = "drop"
               /\ Len(chain'[stack'[i].req]) < stack'[i].depth
               /\ chain'[stack'[i].req] # <<>> =>
                     chain'[stack'[i].req][Len(chain'[stack'[i].req])].pc \in {"spawn", "slice"}
    <3>1. PICK j \in DOMAIN rest : stack'[i] = rest[j]
      BY <1>12, <2>1
    <3> QED BY <1>8, <1>10, <1>11, <3>1, SMTT(30)
  <2>2. ASSUME NEW i \in DOMAIN stack', i # 1, NEW j \in DOMAIN stack', j # 1,
               stack'[i].req = stack'[j].req, stack'[i].depth = stack'[j].depth
        PROVE  i = j
    <3>1. i - 1 = j - 1
      <4>1. /\ i - 1 \in DOMAIN rest /\ stack'[i] = rest[i - 1]
            /\ j - 1 \in DOMAIN rest /\ stack'[j] = rest[j - 1]
        BY <1>12, <2>2
      <4> QED BY <1>10, <2>2, <4>1
    <3>2. i \in Nat /\ j \in Nat
      BY <1>12
    <3> QED BY <3>1, <3>2
  <2>3. stack'[1].kind # "drop" /\ stack'[1].req = r
    BY <1>12 DEF Run
  <2> QED BY <1>8, <1>12, <2>1, <2>2, <2>3 DEF StackOK, IsDrop, Depth, Frame, RunPcs
<1>14. QueueOK'
  <2>1. ASSUME NEW x \in Entries(t) PROVE IsQueued(x, n)'
    <3>1. x \in Coroutines /\ IsQueued(x, n) /\ x # w
      BY <1>3, <1>4
    <3>2. PICK s \in Requests, j \in Depths : x = <<s, j>>
      BY <3>1 DEF Coroutines
    <3>3. s # r
      BY <1>5, <1>6, <3>1, <3>2 DEF IsQueued
    <3> QED BY <1>8, <3>1, <3>2, <3>3 DEF IsQueued
  <2>2. ASSUME NEW m \in Names, m # n, NEW x \in Entries(queue[m]) PROVE x[1] # r
    <3>1. IsQueued(x, m)
      BY QueueFacts DEF CInv
    <3> QED BY <1>6, <2>2, <3>1 DEF IsQueued
  <2>3. \A m \in Names : m # n => \A x \in Entries(queue[m]) : x[1] # r
    BY <2>2
  <2>4. \A x \in Entries(t) : IsQueued(x, n)'
    BY <2>1
  <2>5. QueueOK /\ held' = held /\ queue' = [queue EXCEPT ![n] = t] /\ n \in Names /\ held[n]
    BY <1>1, <1>2, <1>3 DEF CInv
  <2>6. t \in Seq(Coroutines) /\ Distinct(t)
    BY <1>4
  <2>7. \A s \in Requests : s # r => chain'[s] = chain[s]
    BY <1>8
  <2> QED BY <2>3, <2>4, <2>5, <2>6, <2>7, QueueChanged
<1>15. ASSUME NEW m \in Names
       PROVE  Tokens(m)' = IF m = n THEN (Tokens(m) \ {c}) \cup {w} ELSE Tokens(m)
  <2>1. ASSUME NEW d
        PROVE  d \in Tokens(m)' <=> (d \in Tokens(m) /\ ~(d = c /\ m = n)) \/ (m = n /\ d = w)
    <3>1. Dropping(d, m)' <=> Drops(rest, d, m)
      <4>1. ASSUME Dropping(d, m)' PROVE Drops(rest, d, m)
        <5>1. PICK i \in DOMAIN stack' : /\ stack'[i].kind = "drop" /\ stack'[i].ent = m
                                         /\ d = <<stack'[i].req, stack'[i].depth>>
          BY <4>1 DEF Dropping, IsDrop
        <5>2. i # 1
          BY <1>12, <5>1 DEF Run
        <5>3. PICK j \in DOMAIN rest : stack'[i] = rest[j]
          BY <1>12, <5>2
        <5> QED BY <5>1, <5>3 DEF Drops
      <4>2. ASSUME Drops(rest, d, m) PROVE Dropping(d, m)'
        <5>1. PICK i \in DOMAIN rest : rest[i].ent = m /\ d = <<rest[i].req, rest[i].depth>>
          BY <4>2 DEF Drops
        <5>2. /\ i + 1 \in DOMAIN stack' /\ stack'[i + 1].kind = "drop"
              /\ stack'[i + 1].ent = m /\ d = <<stack'[i + 1].req, stack'[i + 1].depth>>
          BY <1>10, <1>12, <5>1
        <5> QED BY <5>2 DEF Dropping, IsDrop
      <4> QED BY <4>1, <4>2
    <3>2. ASSUME d \in Coroutines PROVE Holds(d, m)' <=> Holds(d, m) \/ (m = n /\ d = w)
      <4>1. Holds(d, m)' <=> Holds(d, m) \/ (m = n /\ d = <<r, k>>)
        BY <1>6, <1>7, <3>2, HoldsAt DEF CInv
      <4> QED BY <1>5, <4>1
    <3> QED BY <1>2, <1>4, <1>12, <3>1, <3>2, TokensIffPrime
  <2> QED BY <2>1
<1>16. TokenOK'
  <2>1. Tokens(n)' = {w}
    BY <1>2, <1>15 DEF CInv, TokenOK
  <2>2. \A m \in Names : m # n => Tokens(m)' = Tokens(m)
    BY <1>15
  <2>3. ASSUME NEW m \in Names
        PROVE  (\A x, y \in Tokens(m)' : x = y) /\ (~held'[m] => Tokens(m)' = {})
    <3>1. CASE m = n
      BY <1>1, <1>3, <2>1, <3>1
    <3>2. CASE m # n
      BY <1>1, <2>2, <3>2 DEF CInv, TokenOK
    <3> QED BY <3>1, <3>2
  <2> QED BY <2>3 DEF TokenOK
<1>17. Queue!ReleaseResume(c, n)
  <2>1. held' = [held EXCEPT ![n] = TRUE]
    <3>1. held \in [Names -> BOOLEAN]
      BY DEF CInv, QueueOK
    <3> QED BY <1>1, <1>2, <1>3, <3>1
  <2> QED BY <1>1, <1>2, <1>15, <2>1 DEF Queue!ReleaseResume
<1> QED BY <1>2, <1>9, <1>13, <1>14, <1>16, <1>17 DEF CInv, Queue!Next, Queue!Release

-----------------------------------------------------------------------------
(* Every step of the daemon is one of these moves. *)

(* Calls to systemd, and its messages. *)
UnitCalls == [req : Requests, ent : Names, what : {"slice", "scope", "stopUnit"}]
Messages  == [type : {"reply", "removed"}, call : UnitCalls, ok : BOOLEAN]

(* The types of everything but the coroutines. *)
WorldOK ==
    /\ daemon \in {"up", "aborted"}
    /\ tree \in 0..MaxCommits
    /\ known \subseteq Names
    /\ op \in [Requests -> {"none", "start", "stop"}]
    /\ target \in [Requests -> Names \cup {None}]
    /\ reply \in [Requests -> {"none", "pending", "ok", "error"}]
    /\ live \subseteq Names
    /\ proc \in [Names -> {"none", "running", "dead"}]
    /\ ns \in [Names -> {"down", "up"}]
    /\ ecalls \in [Names -> Seq(Calls)]
    /\ eanswers \in [Names -> Seq(Calls)]
    /\ calls \in Seq(UnitCalls)
    /\ jobs \subseteq UnitCalls
    /\ IsFiniteSet(jobs)
    /\ unit \subseteq Slices \cup {Scope(n) : n \in Names}
    /\ inbox \in Seq(Messages)

(* A step of module EntityQueue, or none. *)
QueueStep == Queue!Next \/ (SameTokens /\ UNCHANGED <<held, queue>>)

(* The innermost frame of a request is a frame. *)
LEMMA FrameFacts ==
    ASSUME CInv, NEW r \in Requests, chain[r] # <<>>
    PROVE  Frame(r) \in Frames /\ Frame(r).ent \in Names
<1>1. chain[r] \in Seq(Frames) /\ Depth(r) \in DOMAIN chain[r]
  BY DEF CInv, ChainOK, Depth
<1>2. Frame(r) \in Frames
  BY <1>1 DEF Frame
<1> QED BY <1>2 DEF Frames

(* The coroutine that runs is on top of the call stack and at the pc it runs from. *)
LEMMA RunningFacts ==
    ASSUME CInv, NEW r \in Requests, NEW pc, Running(r, pc)
    PROVE  /\ stack # <<>> /\ Head(stack) = Run(r)
           /\ chain[r] # <<>> /\ Frame(r).pc = pc
           /\ RestOf(r, Tail(stack))
<1>1. stack # <<>> /\ Head(stack) = Run(r) /\ Frame(r).pc = pc
  BY DEF Running
<1>2. 1 \in DOMAIN stack /\ stack[1] = Run(r)
  BY <1>1, TailFacts DEF CInv, StackOK
<1>3. chain[r] # <<>>
  BY <1>2 DEF CInv, StackOK, IsDrop, Run
<1> QED BY <1>1, <1>3 DEF RestOf

(* What the replies become. *)
LEMMA RepliesSet ==
    ASSUME WorldOK, NEW r \in Requests, NEW answer \in {"pending", "ok", "error"},
           reply' = [reply EXCEPT ![r] = answer]
    PROVE  RepliesKept /\ reply'[r] = answer
BY DEF WorldOK, RepliesKept

(* Fail() keeps the queue discipline: the frames are destroyed with their tokens. *)
LEMMA FailMove ==
    ASSUME CInv, WorldOK, UNCHANGED <<held, queue>>,
           NEW r \in Requests, chain[r] # <<>>, Frame(r).pc \in HoldPcs,
           NEW rest, RestOf(r, rest), Fail(r, rest)
    PROVE  CInv' /\ SameTokens
<1>1. RepliesKept
  BY RepliesSet DEF Fail
<1> QED BY <1>1, UnwindMove DEF Fail

(* Return() never takes an answer back. *)
LEMMA ReturnReplies ==
    ASSUME WorldOK, NEW r \in Requests, NEW rest, Return(r, rest)
    PROVE  RepliesKept
<1>1. CASE reply' = [reply EXCEPT ![r] = "ok"]
  BY <1>1, RepliesSet
<1>2. CASE UNCHANGED reply
  BY <1>2 DEF RepliesKept
<1> QED BY <1>1, <1>2 DEF Return

(* Abort changes no queue, frame or token. *)
LEMMA AbortMove ==
    ASSUME CInv, Abort
    PROVE  CInv' /\ QueueStep
<1>1. UNCHANGED <<chain, stack, held, queue, reply>>
  BY DEF Abort, queueVars
<1> QED BY <1>1, Still DEF RepliesKept, QueueStep

(* Every step of a running coroutine is a step of the queues, or none of theirs. *)
LEMMA RunMove ==
    ASSUME CInv, WorldOK, NEW r \in Requests, RunStep(r)
    PROVE  CInv' /\ QueueStep
<1> USE DEF HoldPcs, Pcs, RunPcs
<1>1. CASE Enqueue(r)
  BY <1>1, EnqueueMove DEF Enqueue, QueueStep
<1>2. CASE StartAlreadyLive(r)
  <2>1. Running(r, "entered") /\ Return(r, Tail(stack)) /\ UNCHANGED <<held, queue>>
    BY <1>2 DEF StartAlreadyLive, queueVars
  <2>2. chain[r] # <<>> /\ Frame(r).pc = "entered" /\ RestOf(r, Tail(stack))
    BY <2>1, RunningFacts
  <2>3. RepliesKept
    BY <2>1, ReturnReplies
  <2> QED BY <2>1, <2>2, <2>3, ReturnMove DEF QueueStep
<1>3. CASE StartUplink(r)
  <2>1. Running(r, "entered") /\ UNCHANGED <<held, queue, reply, stack>>
    BY <1>3 DEF StartUplink, queueVars
  <2>2. /\ chain[r] # <<>> /\ Frame(r).pc = "entered"
        /\ stack # <<>> /\ Head(stack) = Run(r)
    BY <2>1, RunningFacts
  <2>3. RepliesKept
    BY <2>1 DEF RepliesKept
  <2>4. PICK u \in {Uplink[Frame(r).ent], None} :
           IF u = None
           THEN chain' = At(r, "spawn")
           ELSE chain' = [At(r, "uplink") EXCEPT ![r] = Append(@, NewFrame(u))]
    BY <1>3, Zenon DEF StartUplink
  <2>5. CASE u = None
    BY <2>1, <2>2, <2>3, <2>4, <2>5, PcMove DEF QueueStep
  <2>6. CASE u # None
    <3>1. u \in Names /\ u = Uplink[Frame(r).ent]
      BY <2>2, <2>4, <2>6, FrameFacts, LifecycleAssumption
    <3>2. chain' = [At(r, "uplink") EXCEPT ![r] = Append(@, NewFrame(u))]
      BY <2>4, <2>6, Zenon
    <3>3. tree \in 0..MaxCommits
      BY DEF WorldOK
    <3> QED BY <2>1, <2>2, <2>3, <3>1, <3>2, <3>3, UplinkMove DEF QueueStep
  <2> QED BY <2>5, <2>6
<1>4. CASE DanglingCrash(r)
  BY <1>4, AbortMove DEF DanglingCrash
<1>5. CASE Spawn(r)
  <2>1. /\ Running(r, "spawn") /\ UNCHANGED <<held, queue, reply>>
        /\ chain' = At(r, "slice") /\ stack' = Tail(stack)
    BY <1>5 DEF Spawn, Suspend, queueVars
  <2>2. chain[r] # <<>> /\ Frame(r).pc = "spawn" /\ stack # <<>> /\ Head(stack) = Run(r)
    BY <2>1, RunningFacts
  <2> QED BY <2>1, <2>2, PcMove DEF QueueStep, RepliesKept
<1>6. CASE SpawnForkFails(r)
  <2>1. Running(r, "spawn") /\ UNCHANGED <<held, queue, reply>> /\ Unwind(r, Tail(stack))
    BY <1>6 DEF SpawnForkFails, queueVars
  <2>2. chain[r] # <<>> /\ Frame(r).pc = "spawn" /\ RestOf(r, Tail(stack))
    BY <2>1, RunningFacts
  <2> QED BY <2>1, <2>2, UnwindMove DEF QueueStep, RepliesKept
<1>7. CASE SpawnAllocFails(r) \/ SpawnBusFails(r)
  <2>1. Running(r, "spawn") /\ UNCHANGED <<held, queue>> /\ Fail(r, Tail(stack))
    BY <1>7 DEF SpawnAllocFails, SpawnBusFails, queueVars
  <2>2. chain[r] # <<>> /\ Frame(r).pc = "spawn" /\ RestOf(r, Tail(stack))
    BY <2>1, RunningFacts
  <2> QED BY <2>1, <2>2, FailMove DEF QueueStep
<1>8. CASE SpawnHandshakeFails(r) \/ StopBusClosed(r)
  BY <1>8, AbortMove DEF SpawnHandshakeFails, StopBusClosed
<1>9. CASE Components(r)
  <2>1. Running(r, "components") /\ UNCHANGED <<held, queue>>
    BY <1>9 DEF Components, queueVars
  <2>2. /\ chain[r] # <<>> /\ Frame(r).pc = "components" /\ RestOf(r, Tail(stack))
        /\ stack # <<>> /\ Head(stack) = Run(r)
    BY <2>1, RunningFacts
  <2>3. \/ Return(r, Tail(stack))
        \/ chain' = At(r, "component") /\ stack' = Tail(stack) /\ UNCHANGED reply
        \/ UNCHANGED <<reply, chain, stack>>
    BY <1>9, Zenon DEF Components, Suspend
  <2>4. CASE Return(r, Tail(stack))
    <3>1. RepliesKept
      BY <2>4, ReturnReplies
    <3> QED BY <2>1, <2>2, <2>4, <3>1, ReturnMove DEF QueueStep
  <2>5. CASE chain' = At(r, "component") /\ stack' = Tail(stack) /\ UNCHANGED reply
    BY <2>1, <2>2, <2>5, PcMove DEF QueueStep, RepliesKept
  <2>6. CASE UNCHANGED <<reply, chain, stack>>
    BY <2>1, <2>6, Still DEF QueueStep, RepliesKept
  <2> QED BY <2>3, <2>4, <2>5, <2>6
<1>10. CASE StopNotLive(r)
  <2>1. Running(r, "entered") /\ UNCHANGED <<held, queue>> /\ Fail(r, Tail(stack))
    BY <1>10 DEF StopNotLive, queueVars
  <2>2. chain[r] # <<>> /\ Frame(r).pc = "entered" /\ RestOf(r, Tail(stack))
    BY <2>1, RunningFacts
  <2> QED BY <2>1, <2>2, FailMove DEF QueueStep
<1>11. CASE StopShutdown(r)
  <2>1. /\ Running(r, "entered") /\ UNCHANGED <<held, queue, reply>>
        /\ chain' = At(r, "shutdown") /\ stack' = Tail(stack)
    BY <1>11 DEF StopShutdown, Suspend, queueVars
  <2>2. chain[r] # <<>> /\ Frame(r).pc = "entered" /\ stack # <<>> /\ Head(stack) = Run(r)
    BY <2>1, RunningFacts
  <2> QED BY <2>1, <2>2, PcMove DEF QueueStep, RepliesKept
<1> QED BY <1>1, <1>2, <1>3, <1>4, <1>5, <1>6, <1>7, <1>8, <1>9, <1>10, <1>11 DEF RunStep

(* A call that is answered, or not. *)
LEMMA AwaitFacts ==
    ASSUME Idle, NEW r, NEW pc, Awaits(r, pc)
    PROVE  stack = <<>> /\ chain[r] # <<>> /\ Frame(r).pc = pc /\ RestOf(r, <<>>)
BY DEF Idle, Awaits, RestOf

(* The waits for a job. *)
LEMMA JobOfFacts ==
    ASSUME NEW what \in {"slice", "scope", "stopUnit"}
    PROVE  JobOf[what] \in HoldPcs /\ what \in HoldPcs
BY DEF JobOf, HoldPcs, Pcs

(* The first message of systemd is about a request and an entity. *)
LEMMA InboxFacts ==
    ASSUME WorldOK, inbox # <<>>
    PROVE  /\ Head(inbox).call \in UnitCalls
           /\ Head(inbox).call.req \in Requests
           /\ Head(inbox).call.what \in {"slice", "scope", "stopUnit"}
<1>1. Head(inbox) \in Messages
  BY TailFacts DEF WorldOK
<1>2. Head(inbox).call \in UnitCalls
  BY <1>1 DEF Messages
<1> QED BY <1>2 DEF UnitCalls

(* The first answer of an entityd is about a request. *)
LEMMA AnswerFacts ==
    ASSUME WorldOK, NEW n \in Names, eanswers[n] # <<>>
    PROVE  Head(eanswers[n]) \in Calls /\ Head(eanswers[n]).req \in Requests
<1>1. Head(eanswers[n]) \in Calls
  BY TailFacts DEF WorldOK
<1> QED BY <1>1 DEF Calls

(* A new request takes no token yet. *)
LEMMA RequestStep ==
    ASSUME CInv, WorldOK, NEW r \in Requests, NEW o \in Ops, NEW n \in Names, Request(r, o, n)
    PROVE  CInv' /\ QueueStep
<1>1. stack = <<>> /\ reply[r] = "none" /\ UNCHANGED <<held, queue>>
  BY DEF Request, Idle, queueVars
<1>2. CASE n \in known
  <2>1. /\ reply' = [reply EXCEPT ![r] = "pending"]
        /\ chain' = [chain EXCEPT ![r] = <<NewFrame(n)>>]
        /\ stack' = <<Run(r)>>
    BY <1>2 DEF Request
  <2>2. RepliesKept /\ reply'[r] # "none"
    BY <2>1, RepliesSet
  <2>3. tree \in 0..MaxCommits
    BY DEF WorldOK
  <2> QED BY <1>1, <2>1, <2>2, <2>3, RequestMove DEF QueueStep
<1>3. CASE n \notin known
  <2>1. reply' = [reply EXCEPT ![r] = "error"] /\ UNCHANGED <<chain, stack>>
    BY <1>3 DEF Request
  <2>2. RepliesKept
    BY <2>1, RepliesSet
  <2> QED BY <1>1, <2>1, <2>2, Still DEF QueueStep
<1> QED BY <1>2, <1>3

(* The answers of entityds: the request goes on, ends or is gone. *)
LEMMA EntityBusMove ==
    ASSUME CInv, WorldOK, NEW n \in Names, EntityBusStep(n)
    PROVE  CInv' /\ QueueStep
<1> USE DEF HoldPcs, Pcs
<1>1. CASE DeliverComponent(n)
  <2>1. PICK r : r = Head(eanswers[n]).req
    OBVIOUS
  <2>2. /\ Idle /\ r \in Requests /\ UNCHANGED <<held, queue>>
        /\ \/ Awaits(r, "component") /\ Return(r, <<>>)
           \/ UNCHANGED <<reply, chain, stack>>
    BY <1>1, <2>1, AnswerFacts DEF DeliverComponent, queueVars
  <2>3. CASE Awaits(r, "component") /\ Return(r, <<>>)
    <3>1. RepliesKept
      BY <2>2, <2>3, ReturnReplies
    <3>2. chain[r] # <<>> /\ Frame(r).pc = "component" /\ RestOf(r, <<>>)
      BY <2>2, <2>3, AwaitFacts
    <3> QED BY <2>2, <2>3, <3>1, <3>2, ReturnMove DEF QueueStep
  <2>4. CASE UNCHANGED <<reply, chain, stack>>
    BY <2>2, <2>4, Still DEF QueueStep, RepliesKept
  <2> QED BY <2>2, <2>3, <2>4
<1>2. CASE DeliverShutdown(n)
  <2>1. PICK r : r = Head(eanswers[n]).req
    OBVIOUS
  <2>2. /\ Idle /\ r \in Requests /\ UNCHANGED <<held, queue, reply>>
        /\ \/ Awaits(r, "shutdown") /\ chain' = At(r, "stopUnit") /\ stack' = <<>>
           \/ UNCHANGED <<chain, stack>>
    BY <1>2, <2>1, AnswerFacts DEF DeliverShutdown, Suspend, queueVars
  <2>3. CASE Awaits(r, "shutdown") /\ chain' = At(r, "stopUnit") /\ stack' = <<>>
    <3>1. stack = <<>> /\ chain[r] # <<>> /\ Frame(r).pc = "shutdown"
      BY <2>2, <2>3, AwaitFacts
    <3> QED BY <2>2, <2>3, <3>1, PcMove DEF QueueStep, RepliesKept
  <2>4. CASE UNCHANGED <<chain, stack>>
    BY <2>2, <2>4, Still DEF QueueStep, RepliesKept
  <2> QED BY <2>2, <2>3, <2>4
<1>3. ASSUME NEW r \in Requests, EntitydHangup(r) PROVE CInv' /\ QueueStep
  <2>1. /\ Idle /\ Fail(r, <<>>) /\ UNCHANGED <<held, queue>>
        /\ Awaits(r, "component") \/ Awaits(r, "shutdown")
    BY <1>3 DEF EntitydHangup, queueVars
  <2>2. chain[r] # <<>> /\ Frame(r).pc \in HoldPcs /\ RestOf(r, <<>>)
    BY <2>1, AwaitFacts
  <2> QED BY <2>1, <2>2, FailMove DEF QueueStep
<1>4. CASE DanglingAdvance(n)
  BY <1>4, AbortMove DEF DanglingAdvance
<1> QED BY <1>1, <1>2, <1>3, <1>4 DEF EntityBusStep

(* A timeout ends the request. *)
LEMMA TimeoutMove ==
    ASSUME CInv, WorldOK, NEW r \in Requests, EntitydCallTimesOut(r) \/ SystemdCallTimesOut(r)
    PROVE  CInv' /\ QueueStep
<1> USE DEF HoldPcs, Pcs
<1>1. Idle /\ Fail(r, <<>>) /\ UNCHANGED <<held, queue>>
  BY DEF EntitydCallTimesOut, SystemdCallTimesOut, queueVars
<1>2. \E pc \in HoldPcs : Awaits(r, pc)
  <2>1. CASE EntitydCallTimesOut(r)
    BY <2>1 DEF EntitydCallTimesOut
  <2>2. CASE SystemdCallTimesOut(r)
    <3>1. PICK i \in 1..Len(calls) : Awaits(r, calls[i].what)
      BY <2>2 DEF SystemdCallTimesOut
    <3>2. calls[i] \in UnitCalls
      BY DEF WorldOK
    <3>3. calls[i].what \in {"slice", "scope", "stopUnit"}
      BY <3>2 DEF UnitCalls
    <3> QED BY <3>1, <3>3, JobOfFacts
  <2> QED BY <2>1, <2>2
<1>3. chain[r] # <<>> /\ Frame(r).pc \in HoldPcs /\ RestOf(r, <<>>)
  BY <1>1, <1>2, AwaitFacts
<1> QED BY <1>1, <1>3, FailMove DEF QueueStep

(* The messages of systemd: the request goes on, ends or is gone. *)
LEMMA SystemBusMove ==
    ASSUME CInv, WorldOK, SystemBusStep
    PROVE  CInv' /\ QueueStep
<1> USE DEF HoldPcs, Pcs
<1>1. CASE DeliverReply
  <2>1. PICK r, what : r = Head(inbox).call.req /\ what = Head(inbox).call.what
    OBVIOUS
  <2>2. /\ Idle /\ inbox # <<>> /\ UNCHANGED <<held, queue>>
        /\ \/ /\ Awaits(r, what) /\ chain' = At(r, JobOf[what]) /\ stack' = <<>>
              /\ UNCHANGED reply
           \/ Awaits(r, what) /\ Fail(r, <<>>)
           \/ UNCHANGED <<reply, chain, stack>>
    BY <1>1, <2>1 DEF DeliverReply, Suspend, queueVars
  <2>3. r \in Requests /\ JobOf[what] \in HoldPcs /\ what \in HoldPcs
    BY <2>1, <2>2, InboxFacts, JobOfFacts
  <2>4. CASE /\ Awaits(r, what) /\ chain' = At(r, JobOf[what]) /\ stack' = <<>>
             /\ UNCHANGED reply
    <3>1. stack = <<>> /\ chain[r] # <<>> /\ Frame(r).pc = what
      BY <2>2, <2>4, AwaitFacts
    <3> QED BY <2>2, <2>3, <2>4, <3>1, PcMove DEF QueueStep, RepliesKept
  <2>5. CASE Awaits(r, what) /\ Fail(r, <<>>)
    <3>1. RestOf(r, <<>>) /\ chain[r] # <<>> /\ Frame(r).pc = what
      BY <2>2, <2>5, AwaitFacts
    <3> QED BY <2>2, <2>3, <2>5, <3>1, FailMove DEF QueueStep
  <2>6. CASE UNCHANGED <<reply, chain, stack>>
    BY <2>2, <2>6, Still DEF QueueStep, RepliesKept
  <2> QED BY <2>2, <2>4, <2>5, <2>6
<1>2. CASE DeliverJobRemoved
  <2>1. Idle /\ inbox # <<>> /\ UNCHANGED <<held, queue>>
    BY <1>2 DEF DeliverJobRemoved, queueVars
  <2>2. ASSUME NEW r \in Requests, JobDone(r) PROVE CInv' /\ QueueStep
    <3>1. CASE /\ Awaits(r, "sliceJob") /\ chain' = At(r, "scope") /\ stack' = <<>>
               /\ UNCHANGED reply
      <4>1. stack = <<>> /\ chain[r] # <<>> /\ Frame(r).pc = "sliceJob"
        BY <2>1, <3>1, AwaitFacts
      <4> QED BY <2>1, <3>1, <4>1, PcMove DEF QueueStep, RepliesKept
    <3>2. CASE /\ Awaits(r, "scopeJob") /\ chain' = At(r, "components") /\ stack' = <<Run(r)>>
               /\ UNCHANGED reply
      <4>1. stack = <<>> /\ chain[r] # <<>> /\ Frame(r).pc = "scopeJob"
        BY <2>1, <3>2, AwaitFacts
      <4> QED BY <2>1, <3>2, <4>1, PcMove DEF QueueStep, RepliesKept, RunPcs
    <3>3. CASE Awaits(r, "stopJob") /\ Return(r, <<>>)
      <4>1. RepliesKept
        BY <3>3, ReturnReplies
      <4>2. chain[r] # <<>> /\ Frame(r).pc = "stopJob" /\ RestOf(r, <<>>)
        BY <2>1, <3>3, AwaitFacts
      <4> QED BY <2>1, <3>3, <4>1, <4>2, ReturnMove DEF QueueStep
    <3> QED BY <2>2, <3>1, <3>2, <3>3 DEF JobDone, Suspend
  <2>3. ASSUME NEW r \in Requests, Matches(r, Head(inbox).call), Fail(r, <<>>)
        PROVE  CInv' /\ QueueStep
    <3>1. \E pc \in HoldPcs : Awaits(r, pc)
      <4>1. Head(inbox).call.what \in {"slice", "scope"} => JobOf[Head(inbox).call.what] \in HoldPcs
        BY JobOfFacts
      <4> QED BY <2>3, <4>1 DEF Matches
    <3>2. chain[r] # <<>> /\ Frame(r).pc \in HoldPcs /\ RestOf(r, <<>>)
      BY <2>1, <3>1, AwaitFacts
    <3> QED BY <2>1, <2>3, <3>2, FailMove DEF QueueStep
  <2>4. CASE UNCHANGED <<reply, chain, stack>>
    BY <2>1, <2>4, Still DEF QueueStep, RepliesKept
  <2> QED BY <1>2, <2>2, <2>3, <2>4, Zenon DEF DeliverJobRemoved, Ignored
<1> QED BY <1>1, <1>2 DEF SystemBusStep

(* A new daemon has no frames, and nobody holds a token. *)
LEMMA RestartMove ==
    ASSUME CInv, WorldOK, DaemonRestarts
    PROVE  CInv'
<1>1. /\ chain' = [r \in Requests |-> <<>>] /\ stack' = <<>>
      /\ held' = [n \in Names |-> FALSE] /\ queue' = [n \in Names |-> <<>>]
  BY DEF DaemonRestarts
<1>2. ChainOK'
  <2>1. 0 \in 0..(Cardinality(Names) + 1) /\ 1..0 = {}
    BY CardType
  <2> QED BY <1>1, <2>1 DEF ChainOK, Depth
<1>3. StackOK'
  BY <1>1 DEF StackOK
<1>4. QueueOK'
  BY <1>1 DEF QueueOK
<1>5. \A n \in Names : Tokens(n)' = {}
  BY <1>1 DEF Tokens, Coroutines
<1> QED BY <1>2, <1>3, <1>4, <1>5 DEF CInv, TokenOK

(* The invariant holds initially, and the queues are in their initial state. *)
LEMMA InitCInv ==
    ASSUME Init
    PROVE  CInv /\ Queue!Init
<1>1. /\ chain = [r \in Requests |-> <<>>] /\ stack = <<>>
      /\ held = [n \in Names |-> FALSE] /\ queue = [n \in Names |-> <<>>]
  BY DEF Init
<1>2. ChainOK
  <2>1. 0 \in 0..(Cardinality(Names) + 1) /\ 1..0 = {}
    BY CardType
  <2> QED BY <1>1, <2>1 DEF ChainOK, Depth
<1>3. StackOK
  BY <1>1 DEF StackOK
<1>4. QueueOK
  BY <1>1 DEF QueueOK
<1>5. \A n \in Names : Tokens(n) = {}
  BY <1>1 DEF Tokens, Coroutines
<1>6. Queue!Init
  BY <1>1, <1>5 DEF Queue!Init
<1> QED BY <1>2, <1>3, <1>4, <1>5, <1>6 DEF CInv, TokenOK

(* Every step but a restart is a step of the queues, or leaves them alone. *)
LEMMA NextCInv ==
    ASSUME CInv, WorldOK, Next
    PROVE  CInv' /\ (QueueStep \/ DaemonRestarts)
<1>1. ASSUME NEW r \in Requests, NEW o \in Ops, NEW n \in Names, Request(r, o, n)
      PROVE  CInv' /\ QueueStep
  BY <1>1, RequestStep
<1>2. ASSUME UNCHANGED <<chain, stack, held, queue, reply>> PROVE CInv' /\ QueueStep
  BY <1>2, Still DEF QueueStep, RepliesKept
<1>3. ASSUME NEW n, Commit(n) PROVE CInv' /\ QueueStep
  BY <1>2, <1>3 DEF Commit, queueVars
<1>4. CASE DropToken
  <2>1. UNCHANGED reply
    BY <1>4, Zenon DEF DropToken
  <2>2. CASE queue[Head(stack).ent] = <<>>
    BY <1>4, <2>1, <2>2, DropIdleMove DEF QueueStep
  <2>3. CASE queue[Head(stack).ent] # <<>>
    <3>1. PICK n : n = Head(stack).ent
      OBVIOUS
    <3>2. PICK q : q = queue[n]
      OBVIOUS
    <3>3. q # <<>>
      BY <2>3, <3>1, <3>2
    <3>4. CInv' /\ Queue!Next
      BY <1>4, <2>1, <3>1, <3>2, <3>3, DropResumeMove
    <3> QED BY <3>4 DEF QueueStep
  <2> QED BY <2>2, <2>3
<1>5. ASSUME NEW r \in Requests, RunStep(r) PROVE CInv' /\ QueueStep
  BY <1>5, RunMove
<1>6. CASE SystemBusStep
  BY <1>6, SystemBusMove
<1>7. ASSUME NEW n \in Names, EntityBusStep(n) PROVE CInv' /\ QueueStep
  BY <1>7, EntityBusMove
<1>8. ASSUME NEW r \in Requests, EntitydCallTimesOut(r) \/ SystemdCallTimesOut(r)
      PROVE  CInv' /\ QueueStep
  BY <1>8, TimeoutMove
<1>9. CASE SystemdStep
  BY <1>2, <1>9 DEF SystemdStep, SystemdHandles, SystemdFinishes, daemonVars, queueVars
<1>10. ASSUME NEW n \in Names, EntitydStep(n) \/ EntitydDies(n) PROVE CInv' /\ QueueStep
  BY <1>2, <1>10
     DEF EntitydStep, EntitydAdds, EntitydAborts, EntitydShutsDown, EntitydDies, daemonVars, queueVars
<1>11. CASE DaemonRestarts
  BY <1>11, RestartMove
<1> QED BY <1>1, <1>3, <1>4, <1>5, <1>6, <1>7, <1>8, <1>9, <1>10, <1>11 DEF Next, Executes

-----------------------------------------------------------------------------
(* The rest of the state has the type it should have. *)

(* The call that a request makes has the type of a call. *)
LEMMA CallFacts ==
    ASSUME CInv, NEW r \in Requests, chain[r] # <<>>
    PROVE  /\ \A what \in {"slice", "scope", "stopUnit"} : Call(r, what) \in UnitCalls
           /\ \A what \in {"component", "shutdown"} : Call(r, what) \in Calls
           /\ Frame(r).ent \in Names
BY FrameFacts DEF Call, UnitCalls, Calls

(* Everything but the replies, or everything but what is listed, is as it was. *)
LEMMA WorldKept ==
    ASSUME WorldOK, UNCHANGED <<daemon, tree, known, op, target, worldVars>>,
           reply' \in [Requests -> {"none", "pending", "ok", "error"}]
    PROVE  WorldOK'
BY DEF WorldOK, worldVars, entitydVars, systemdVars, Scope

(* The ways to answer keep the type of reply. *)
LEMMA ReplyTypes ==
    ASSUME WorldOK, NEW r \in Requests, NEW rest, Fail(r, rest) \/ Return(r, rest)
    PROVE  reply' \in [Requests -> {"none", "pending", "ok", "error"}]
<1>1. reply' = reply \/ reply' = [reply EXCEPT ![r] = "ok"] \/ reply' = [reply EXCEPT ![r] = "error"]
  BY Zenon DEF Fail, Return
<1> QED BY <1>1 DEF WorldOK

(* Abort keeps the types. *)
LEMMA AbortWorld ==
    ASSUME WorldOK, Abort
    PROVE  WorldOK'
BY DEF WorldOK, Abort, worldVars, entitydVars, systemdVars, Scope

(* Starting an entityd keeps the types. *)
LEMMA SpawnedFacts ==
    ASSUME WorldOK, NEW n \in Names, NEW e \in {"running", "dead"}, Spawned(n, e)
    PROVE  /\ proc' \in [Names -> {"none", "running", "dead"}]
           /\ live' \subseteq Names
           /\ unit' \subseteq Slices \cup {Scope(m) : m \in Names}
BY DEF Spawned, WorldOK

(* Every step of a running coroutine keeps the types. *)
LEMMA RunWorld ==
    ASSUME CInv, WorldOK, NEW r \in Requests, RunStep(r)
    PROVE  WorldOK'
<1>1. ASSUME UNCHANGED <<daemon, tree, known, op, target, worldVars, reply>> PROVE WorldOK'
  BY <1>1, WorldKept DEF WorldOK
<1>2. CASE Enqueue(r) \/ StartUplink(r) \/ SpawnForkFails(r)
  BY <1>1, <1>2, Zenon DEF Enqueue, StartUplink, SpawnForkFails
<1>3. CASE StartAlreadyLive(r) \/ StopNotLive(r)
  <2>1. UNCHANGED <<daemon, tree, known, op, target, worldVars>>
    BY <1>3, Zenon DEF StartAlreadyLive, StopNotLive
  <2>2. reply' \in [Requests -> {"none", "pending", "ok", "error"}]
    BY <1>3, ReplyTypes DEF StartAlreadyLive, StopNotLive
  <2> QED BY <2>1, <2>2, WorldKept
<1>4. CASE DanglingCrash(r) \/ SpawnHandshakeFails(r) \/ StopBusClosed(r)
  BY <1>4, AbortWorld DEF DanglingCrash, SpawnHandshakeFails, StopBusClosed
<1>5. CASE Spawn(r)
  <2>1. chain[r] # <<>>
    BY <1>5, RunningFacts DEF Spawn
  <2>2. Call(r, "slice") \in UnitCalls /\ Frame(r).ent \in Names
    BY <2>1, CallFacts
  <2>3. calls' \in Seq(UnitCalls)
    BY <1>5, <2>2, AppendFacts DEF Spawn, SystemdCall, WorldOK
  <2>4. /\ proc' \in [Names -> {"none", "running", "dead"}]
        /\ live' \subseteq Names
        /\ unit' \subseteq Slices \cup {Scope(m) : m \in Names}
    BY <1>5, <2>2, SpawnedFacts DEF Spawn
  <2> QED BY <1>5, <2>3, <2>4 DEF Spawn, WorldOK, Scope
<1>6. CASE SpawnAllocFails(r)
  <2>1. chain[r] # <<>>
    BY <1>6, RunningFacts DEF SpawnAllocFails
  <2>2. Frame(r).ent \in Names
    BY <2>1, CallFacts
  <2>3. proc' \in [Names -> {"none", "running", "dead"}]
    BY <1>6, <2>2 DEF SpawnAllocFails, WorldOK
  <2>4. reply' \in [Requests -> {"none", "pending", "ok", "error"}]
    BY <1>6, ReplyTypes DEF SpawnAllocFails
  <2> QED BY <1>6, <2>3, <2>4 DEF SpawnAllocFails, WorldOK, systemdVars, Scope
<1>7. CASE SpawnBusFails(r)
  <2>1. chain[r] # <<>>
    BY <1>7, RunningFacts DEF SpawnBusFails
  <2>2. Frame(r).ent \in Names
    BY <2>1, CallFacts
  <2>3. /\ proc' \in [Names -> {"none", "running", "dead"}]
        /\ live' \subseteq Names
        /\ unit' \subseteq Slices \cup {Scope(m) : m \in Names}
    BY <1>7, <2>2, SpawnedFacts DEF SpawnBusFails
  <2>4. reply' \in [Requests -> {"none", "pending", "ok", "error"}]
    BY <1>7, ReplyTypes DEF SpawnBusFails
  <2> QED BY <1>7, <2>3, <2>4 DEF SpawnBusFails, WorldOK, Scope
<1>8. CASE Components(r)
  <2>1. chain[r] # <<>>
    BY <1>8, RunningFacts DEF Components
  <2>2. Call(r, "component") \in Calls /\ Frame(r).ent \in Names
    BY <2>1, CallFacts
  <2>3. /\ \/ Return(r, Tail(stack)) /\ UNCHANGED <<daemon, ecalls>>
           \/ EntitydCall(r, "component") /\ UNCHANGED <<daemon, reply>>
           \/ daemon' = "aborted" /\ UNCHANGED <<reply, ecalls>>
        /\ UNCHANGED <<tree, known, op, target, queueVars, live, proc, ns, eanswers, systemdVars>>
    BY <1>8, Zenon DEF Components
  <2>4. reply' \in [Requests -> {"none", "pending", "ok", "error"}]
    BY <2>3, ReplyTypes DEF WorldOK
  <2>5. ecalls' \in [Names -> Seq(Calls)]
    <3>1. CASE EntitydCall(r, "component")
      BY <2>2, <3>1 DEF EntitydCall, WorldOK
    <3> QED BY <2>3, <3>1 DEF WorldOK
  <2>6. daemon' \in {"up", "aborted"}
    BY <2>3 DEF WorldOK
  <2> QED BY <2>3, <2>4, <2>5, <2>6 DEF WorldOK, systemdVars, Scope
<1>9. CASE StopShutdown(r)
  <2>1. chain[r] # <<>>
    BY <1>9, RunningFacts DEF StopShutdown
  <2>2. Call(r, "shutdown") \in Calls /\ Frame(r).ent \in Names
    BY <2>1, CallFacts
  <2>3. ecalls' \in [Names -> Seq(Calls)]
    BY <1>9, <2>2 DEF StopShutdown, EntitydCall, WorldOK
  <2> QED BY <1>9, <2>3 DEF StopShutdown, WorldOK, systemdVars, Scope
<1> QED BY <1>2, <1>3, <1>4, <1>5, <1>6, <1>7, <1>8, <1>9 DEF RunStep

(* Dispatching a message of systemd keeps the types. *)
LEMMA BusWorld ==
    ASSUME CInv, WorldOK, SystemBusStep
    PROVE  WorldOK'
<1>1. CASE DeliverReply
  <2>1. inbox # <<>> /\ inbox' = Tail(inbox)
    BY <1>1 DEF DeliverReply
  <2>2. inbox' \in Seq(Messages)
    BY <2>1, TailFacts DEF WorldOK
  <2>3. reply' \in [Requests -> {"none", "pending", "ok", "error"}]
    <3>1. reply' = reply \/ Fail(Head(inbox).call.req, <<>>)
      BY <1>1, Zenon DEF DeliverReply
    <3>2. Head(inbox).call.req \in Requests
      BY <2>1, InboxFacts
    <3> QED BY <3>1, <3>2, ReplyTypes DEF WorldOK
  <2>4. UNCHANGED <<daemon, tree, known, op, target, live, entitydVars, calls, jobs, unit>>
    BY <1>1, Zenon DEF DeliverReply
  <2> QED BY <2>2, <2>3, <2>4 DEF WorldOK, entitydVars, Scope
<1>2. CASE DeliverJobRemoved
  <2>1. inbox # <<>> /\ (inbox' = inbox \/ inbox' = Tail(inbox))
    BY <1>2 DEF DeliverJobRemoved, Ignored
  <2>2. inbox' \in Seq(Messages)
    <3>1. inbox \in Seq(Messages) /\ Tail(inbox) \in Seq(Messages)
      BY <2>1, TailFacts DEF WorldOK
    <3> QED BY <2>1, <3>1
  <2>3. /\ reply' \in [Requests -> {"none", "pending", "ok", "error"}]
        /\ calls' \in Seq(UnitCalls)
    <3>1. CASE UNCHANGED <<reply, calls>>
      BY <3>1 DEF WorldOK
    <3>2. ASSUME NEW r \in Requests, JobDone(r) \/ (Fail(r, <<>>) /\ UNCHANGED calls)
          PROVE  /\ reply' \in [Requests -> {"none", "pending", "ok", "error"}]
                 /\ calls' \in Seq(UnitCalls)
      <4>1. CASE Awaits(r, "sliceJob") /\ SystemdCall(r, "scope") /\ UNCHANGED reply
        <5>1. Call(r, "scope") \in UnitCalls
          BY <4>1, CallFacts DEF Awaits
        <5> QED BY <4>1, <5>1, AppendFacts DEF WorldOK, SystemdCall
      <4>2. CASE UNCHANGED calls /\ (UNCHANGED reply \/ Fail(r, <<>>) \/ Return(r, <<>>))
        BY <4>2, ReplyTypes DEF WorldOK
      <4> QED BY <3>2, <4>1, <4>2, Zenon DEF JobDone
    <3> QED BY <1>2, <3>1, <3>2, Zenon DEF DeliverJobRemoved, Ignored
  <2>4. UNCHANGED <<daemon, tree, known, op, target, live, entitydVars, jobs, unit>>
    BY <1>2, Zenon DEF DeliverJobRemoved
  <2> QED BY <2>2, <2>3, <2>4 DEF WorldOK, entitydVars, Scope
<1> QED BY <1>1, <1>2 DEF SystemBusStep

(* Dispatching an answer of an entityd keeps the types. *)
LEMMA EntityBusWorld ==
    ASSUME CInv, WorldOK, NEW n \in Names, EntityBusStep(n)
    PROVE  WorldOK'
<1>1. CASE DeliverComponent(n)
  <2>1. eanswers[n] # <<>> /\ eanswers' = [eanswers EXCEPT ![n] = Tail(@)]
    BY <1>1 DEF DeliverComponent
  <2>2. eanswers' \in [Names -> Seq(Calls)]
    <3>1. Tail(eanswers[n]) \in Seq(Calls)
      BY <2>1, TailFacts DEF WorldOK
    <3> QED BY <2>1, <3>1 DEF WorldOK
  <2>3. reply' \in [Requests -> {"none", "pending", "ok", "error"}]
    <3>1. reply' = reply \/ Return(Head(eanswers[n]).req, <<>>)
      BY <1>1, Zenon DEF DeliverComponent
    <3> QED BY <2>1, <3>1, AnswerFacts, ReplyTypes DEF WorldOK
  <2> QED BY <1>1, <2>2, <2>3 DEF DeliverComponent, WorldOK, systemdVars, Scope
<1>2. CASE DeliverShutdown(n)
  <2>1. eanswers[n] # <<>> /\ eanswers' = [eanswers EXCEPT ![n] = Tail(@)]
    BY <1>2 DEF DeliverShutdown
  <2>2. eanswers' \in [Names -> Seq(Calls)]
    <3>1. Tail(eanswers[n]) \in Seq(Calls)
      BY <2>1, TailFacts DEF WorldOK
    <3> QED BY <2>1, <3>1 DEF WorldOK
  <2>3. PICK r \in Requests : r = Head(eanswers[n]).req
    BY <2>1, AnswerFacts
  <2>4. /\ proc' \in [Names -> {"none", "running", "dead"}]
        /\ live' \subseteq Names
        /\ calls' \in Seq(UnitCalls)
    <3>1. CASE /\ Awaits(r, "shutdown") /\ proc' = [proc EXCEPT ![n] = "none"]
               /\ live' = live \ {n} /\ SystemdCall(r, "stopUnit")
      <4>1. Call(r, "stopUnit") \in UnitCalls
        BY <3>1, CallFacts DEF Awaits
      <4> QED BY <3>1, <4>1, AppendFacts DEF WorldOK, SystemdCall
    <3>2. CASE UNCHANGED <<proc, live, calls>>
      BY <3>2 DEF WorldOK
    <3> QED BY <1>2, <2>3, <3>1, <3>2, Zenon DEF DeliverShutdown
  <2> QED BY <1>2, <2>2, <2>4 DEF DeliverShutdown, WorldOK, Scope
<1>3. ASSUME NEW r \in Requests, EntitydHangup(r) PROVE WorldOK'
  <2>1. UNCHANGED <<daemon, tree, known, op, target, worldVars>>
    BY <1>3, Zenon DEF EntitydHangup
  <2>2. reply' \in [Requests -> {"none", "pending", "ok", "error"}]
    BY <1>3, ReplyTypes DEF EntitydHangup
  <2> QED BY <2>1, <2>2, WorldKept
<1>4. CASE DanglingAdvance(n)
  BY <1>4, AbortWorld DEF DanglingAdvance
<1> QED BY <1>1, <1>2, <1>3, <1>4 DEF EntityBusStep

(* A timeout keeps the types. *)
LEMMA TimeoutWorld ==
    ASSUME WorldOK, NEW r \in Requests, EntitydCallTimesOut(r) \/ SystemdCallTimesOut(r)
    PROVE  WorldOK'
<1>1. UNCHANGED <<daemon, tree, known, op, target, worldVars>> /\ Fail(r, <<>>)
  BY Zenon DEF EntitydCallTimesOut, SystemdCallTimesOut
<1>2. reply' \in [Requests -> {"none", "pending", "ok", "error"}]
  BY <1>1, ReplyTypes
<1> QED BY <1>1, <1>2, WorldKept

(* A step of an entityd keeps the types. *)
LEMMA EntitydWorld ==
    ASSUME WorldOK, NEW n \in Names, EntitydStep(n) \/ EntitydDies(n)
    PROVE  WorldOK'
<1>1. ecalls' = [ecalls EXCEPT ![n] = <<>>] => ecalls' \in [Names -> Seq(Calls)]
  BY DEF WorldOK
<1>2. \A what : Handles(n, what) => /\ Head(ecalls[n]) \in Calls
                                    /\ Tail(ecalls[n]) \in Seq(Calls)
                                    /\ Append(eanswers[n], Head(ecalls[n])) \in Seq(Calls)
  <2>1. ASSUME ecalls[n] # <<>>
        PROVE  Head(ecalls[n]) \in Calls /\ Tail(ecalls[n]) \in Seq(Calls)
    BY <2>1, TailFacts DEF WorldOK
  <2>2. ASSUME ecalls[n] # <<>> PROVE Append(eanswers[n], Head(ecalls[n])) \in Seq(Calls)
    BY <2>1, <2>2, AppendFacts DEF WorldOK
  <2> QED BY <2>1, <2>2 DEF Handles
<1>3. CASE EntitydAdds(n)
  <2>1. /\ ecalls' \in [Names -> Seq(Calls)] /\ eanswers' \in [Names -> Seq(Calls)]
        /\ ns' \in [Names -> {"down", "up"}]
    BY <1>2, <1>3 DEF EntitydAdds, WorldOK
  <2> QED BY <1>3, <2>1 DEF EntitydAdds, WorldOK, daemonVars, systemdVars, Scope
<1>4. CASE EntitydAborts(n) \/ EntitydDies(n)
  <2>1. proc' \in [Names -> {"none", "running", "dead"}] /\ ecalls' \in [Names -> Seq(Calls)]
    BY <1>1, <1>4 DEF EntitydAborts, EntitydDies, WorldOK
  <2> QED BY <1>4, <2>1 DEF EntitydAborts, EntitydDies, WorldOK, daemonVars, systemdVars, Scope
<1>5. CASE EntitydShutsDown(n)
  <2>1. /\ ecalls' \in [Names -> Seq(Calls)] /\ eanswers' \in [Names -> Seq(Calls)]
        /\ ns' \in [Names -> {"down", "up"}] /\ proc' \in [Names -> {"none", "running", "dead"}]
    BY <1>1, <1>2, <1>5 DEF EntitydShutsDown, WorldOK
  <2> QED BY <1>5, <2>1 DEF EntitydShutsDown, WorldOK, daemonVars, systemdVars, Scope
<1> QED BY <1>3, <1>4, <1>5 DEF EntitydStep

(* The image of a finite set is finite. *)
LEMMA ImageFinite ==
    ASSUME NEW S, IsFiniteSet(S), NEW f, DOMAIN f = S, f = [x \in S |-> f[x]]
    PROVE  IsFiniteSet({f[x] : x \in S})
<1>1. f \in Surjection(S, {f[x] : x \in S})
  BY DEF Surjection
<1> QED BY <1>1, FS_Surjection

(* There are finitely many slices. *)
LEMMA SlicesFinite == IsFiniteSet(Slices)
<1> DEFINE f == [n \in Names |-> Slice[n]]
<1>1. Slices = {f[n] : n \in Names}
  BY DEF Slices
<1>2. DOMAIN f = Names /\ f = [n \in Names |-> f[n]]
  OBVIOUS
<1> HIDE DEF f
<1> QED BY <1>1, <1>2, ImageFinite, LifecycleAssumption

(* The stop jobs of a call are finitely many unit calls. *)
LEMMA StopJobsFacts ==
    ASSUME NEW r \in Requests, NEW s \in Slices
    PROVE  StopJobs(r, s) \subseteq UnitCalls /\ IsFiniteSet(StopJobs(r, s))
<1> DEFINE T == {t \in {s} \cup (Inside[s] \cap unit) : JobsOn({t}, "stopUnit") = {}}
           Job(t) == [req |-> r, what |-> "stopUnit", ent |-> CHOOSE n \in Names : Slice[n] = t]
<1>1. T \subseteq Slices
  BY LifecycleAssumption
<1>2. StopJobs(r, s) = {Job(t) : t \in T}
  BY DEF StopJobs
<1> HIDE DEF T
<1>3. ASSUME NEW t \in T PROVE Job(t) \in UnitCalls
  <2>1. \E n \in Names : Slice[n] = t
    BY <1>1 DEF Slices
  <2>2. (CHOOSE n \in Names : Slice[n] = t) \in Names
    BY <2>1
  <2> QED BY <2>2 DEF UnitCalls
<1>4. IsFiniteSet(T)
  BY <1>1, SlicesFinite, FS_Subset
<1>5. IsFiniteSet({Job(t) : t \in T})
  <2> DEFINE f == [t \in T |-> Job(t)]
  <2>1. {Job(t) : t \in T} = {f[t] : t \in T}
    OBVIOUS
  <2>2. DOMAIN f = T /\ f = [t \in T |-> f[t]]
    OBVIOUS
  <2> HIDE DEF f, Job
  <2> QED BY <1>4, <2>1, <2>2, ImageFinite
<1> QED BY <1>2, <1>3, <1>5

(* The signals of cancelled jobs are messages. *)
LEMMA CancelledFacts ==
    ASSUME NEW S \in SUBSET UnitCalls, IsFiniteSet(S), NEW signals \in Cancelled(S)
    PROVE  signals \in Seq(Messages)
<1>1. Cardinality(S) \in Nat
  BY FS_CardinalityType
<1>2. PICK order \in SetToSeqs(S) :
         signals = [i \in DOMAIN order |-> Message("removed", order[i], FALSE)]
  BY DEF Cancelled
<1>3. order \in [1..Cardinality(S) -> S]
  BY <1>2 DEF SetToSeqs
<1>4. \A i \in DOMAIN order : Message("removed", order[i], FALSE) \in Messages
  BY <1>3 DEF Message, Messages
<1>5. PICK k \in Nat : k = Cardinality(S)
  BY <1>1
<1>6. signals = [i \in 1..k |-> signals[i]] /\ \A i \in 1..k : signals[i] \in Messages
  BY <1>2, <1>3, <1>4, <1>5
<1> QED BY <1>5, <1>6, IsSeq

(* A step of systemd keeps the types, and the jobs finite. *)
LEMMA SystemdWorld ==
    ASSUME WorldOK, SystemdStep
    PROVE  WorldOK'
<1>1. CASE SystemdHandles
  <2>1. calls # <<>> /\ calls' = Tail(calls)
    BY <1>1 DEF SystemdHandles
  <2>2. calls' \in Seq(UnitCalls) /\ Head(calls) \in UnitCalls
    BY <2>1, TailFacts DEF WorldOK
  <2>3. PICK call \in UnitCalls : call = Head(calls)
    BY <2>2
  <2>4. call.req \in Requests /\ call.ent \in Names /\ Slice[call.ent] \in Slices
    BY DEF UnitCalls, Slices
  <2>5. PICK s \in Slices : s = Slice[call.ent]
    BY <2>4
  <2>6. PICK starts : starts = JobsOn({s} \cup Inside[s], "slice")
    OBVIOUS
  <2>7. /\ starts \subseteq UnitCalls /\ IsFiniteSet(starts)
        /\ {} \subseteq UnitCalls /\ IsFiniteSet({})
    <3>1. starts \subseteq jobs
      BY <2>6 DEF JobsOn
    <3> QED BY <3>1, FS_Subset, FS_EmptySet DEF WorldOK
  <2>8. \/ /\ jobs' = (jobs \ starts) \cup StopJobs(call.req, s) \/ jobs' = jobs \cup {call}
           /\ \E signals \in Cancelled(starts) \cup Cancelled({}) :
                 inbox' = inbox \o signals \o <<Message("reply", call, TRUE)>>
        \/ inbox' = Append(inbox, Message("reply", call, FALSE)) /\ UNCHANGED jobs
    BY <1>1, <2>3, <2>5, <2>6 DEF SystemdHandles
  <2>9. Message("reply", call, TRUE) \in Messages /\ Message("reply", call, FALSE) \in Messages
    BY DEF Message, Messages
  <2>10. inbox' \in Seq(Messages)
    <3>1. CASE inbox' = Append(inbox, Message("reply", call, FALSE))
      BY <2>9, <3>1, AppendFacts DEF WorldOK
    <3>2. ASSUME NEW signals \in Cancelled(starts) \cup Cancelled({}),
                 inbox' = inbox \o signals \o <<Message("reply", call, TRUE)>>
          PROVE  inbox' \in Seq(Messages)
      <4>1. signals \in Seq(Messages)
        BY <2>7, CancelledFacts
      <4>2. inbox \o signals \in Seq(Messages)
        BY <4>1 DEF WorldOK
      <4>3. <<Message("reply", call, TRUE)>> \in Seq(Messages)
        BY <2>9, OneElement
      <4>4. \A x, y \in Seq(Messages) : x \o y \in Seq(Messages)
        BY ConcatFacts
      <4> QED BY <3>2, <4>2, <4>3, <4>4
    <3> QED BY <2>8, <3>1, <3>2
  <2>11. jobs' \subseteq UnitCalls /\ IsFiniteSet(jobs')
    <3>1. CASE jobs' = (jobs \ starts) \cup StopJobs(call.req, s)
      <4>1. StopJobs(call.req, s) \subseteq UnitCalls /\ IsFiniteSet(StopJobs(call.req, s))
        BY <2>4, StopJobsFacts
      <4>2. IsFiniteSet(jobs \ starts)
        BY FS_Subset DEF WorldOK
      <4> QED BY <3>1, <4>1, <4>2, FS_Union DEF WorldOK
    <3>2. CASE jobs' = jobs \cup {call}
      BY <3>2, FS_AddElement DEF WorldOK
    <3>3. CASE UNCHANGED jobs
      BY <3>3 DEF WorldOK
    <3> QED BY <2>8, <3>1, <3>2, <3>3
  <2>12. UNCHANGED <<daemonVars, queueVars, live, entitydVars, unit>>
    BY <1>1 DEF SystemdHandles
  <2> QED BY <2>2, <2>10, <2>11, <2>12 DEF WorldOK, daemonVars, entitydVars, Scope
<1>2. ASSUME NEW job \in jobs, SystemdFinishes(job) PROVE WorldOK'
  <2>1. job \in UnitCalls /\ job.ent \in Names /\ Slice[job.ent] \in Slices
        /\ job.what \in {"slice", "scope", "stopUnit"}
    BY DEF WorldOK, UnitCalls, Slices
  <2>2. jobs' \subseteq UnitCalls /\ IsFiniteSet(jobs')
    BY <1>2, FS_Subset DEF SystemdFinishes, WorldOK
  <2>3. PICK ok \in BOOLEAN : /\ inbox' = Append(inbox, Message("removed", job, ok))
                              /\ JobEffect(job) \/ UNCHANGED <<unit, proc, ecalls>>
    BY <1>2, Zenon DEF SystemdFinishes, Outcomes
  <2>4. inbox' \in Seq(Messages)
    <3>1. Message("removed", job, ok) \in Messages
      BY <2>1 DEF Message, Messages
    <3> QED BY <2>3, <3>1, AppendFacts DEF WorldOK
  <2>5. /\ unit' \subseteq Slices \cup {Scope(n) : n \in Names}
        /\ proc' \in [Names -> {"none", "running", "dead"}]
        /\ ecalls' \in [Names -> Seq(Calls)]
    <3>1. CASE JobEffect(job)
      <4>1. PICK killed : /\ proc' = [n \in Names |-> IF n \in killed THEN "dead" ELSE proc[n]]
                          /\ ecalls' = [n \in Names |-> IF n \in killed THEN <<>> ELSE ecalls[n]]
        BY <3>1, Zenon DEF JobEffect
      <4>2. proc' \in [Names -> {"none", "running", "dead"}] /\ ecalls' \in [Names -> Seq(Calls)]
        BY <4>1 DEF WorldOK
      <4>3. unit' \subseteq unit \cup Slices \cup {Scope(job.ent)}
        BY <2>1, <3>1 DEF JobEffect
      <4> QED BY <2>1, <4>2, <4>3 DEF WorldOK
    <3>2. CASE UNCHANGED <<unit, proc, ecalls>>
      BY <3>2 DEF WorldOK
    <3> QED BY <2>3, <3>1, <3>2
  <2>6. UNCHANGED <<daemonVars, queueVars, live, ns, eanswers, calls>>
    BY <1>2 DEF SystemdFinishes
  <2> QED BY <2>2, <2>4, <2>5, <2>6 DEF WorldOK, daemonVars, Scope
<1> QED BY <1>1, <1>2 DEF SystemdStep

(* A new request keeps the types. *)
LEMMA RequestWorld ==
    ASSUME WorldOK, NEW r \in Requests, NEW o \in Ops, NEW n \in Names, Request(r, o, n)
    PROVE  WorldOK'
<1>1. /\ op' \in [Requests -> {"none", "start", "stop"}]
      /\ target' \in [Requests -> Names \cup {None}]
  BY LifecycleAssumption DEF Request, WorldOK
<1>2. reply' \in [Requests -> {"none", "pending", "ok", "error"}]
  BY ZenonT(30) DEF Request, WorldOK
<1> QED BY <1>1, <1>2 DEF Request, WorldOK, worldVars, entitydVars, systemdVars, Scope

(* A commit keeps the types. *)
LEMMA CommitWorld ==
    ASSUME WorldOK, NEW n \in Names \cup {None}, Commit(n)
    PROVE  WorldOK'
<1>1. tree' \in 0..MaxCommits
  BY LifecycleAssumption DEF Commit, WorldOK
<1>2. known' \subseteq Names
  BY DEF Commit, WorldOK
<1> QED BY <1>1, <1>2 DEF Commit, WorldOK, worldVars, entitydVars, systemdVars, Scope

(* A restart keeps the types. *)
LEMMA RestartWorld ==
    ASSUME WorldOK, DaemonRestarts
    PROVE  WorldOK'
<1>1. reply' \in [Requests -> {"none", "pending", "ok", "error"}]
  BY DEF DaemonRestarts, WorldOK
<1>2. tree' \in 0..MaxCommits /\ known' \subseteq Names
  BY LifecycleAssumption DEF DaemonRestarts
<1>3. /\ proc' \in [Names -> {"none", "running", "dead"}] /\ ns' \in [Names -> {"down", "up"}]
      /\ ecalls' \in [Names -> Seq(Calls)] /\ eanswers' \in [Names -> Seq(Calls)]
      /\ inbox' \in Seq(Messages) /\ live' \subseteq Names
  BY DEF DaemonRestarts
<1> QED BY <1>1, <1>2, <1>3 DEF DaemonRestarts, WorldOK, Scope

(* The types hold initially. *)
LEMMA InitWorld ==
    ASSUME Init
    PROVE  WorldOK
<1>1. /\ proc \in [Names -> {"none", "running", "dead"}] /\ ns \in [Names -> {"down", "up"}]
      /\ ecalls \in [Names -> Seq(Calls)] /\ eanswers \in [Names -> Seq(Calls)]
      /\ inbox \in Seq(Messages) /\ calls \in Seq(UnitCalls)
  BY DEF Init
<1>2. /\ op \in [Requests -> {"none", "start", "stop"}]
      /\ target \in [Requests -> Names \cup {None}]
      /\ reply \in [Requests -> {"none", "pending", "ok", "error"}]
  BY DEF Init
<1>3. tree \in 0..MaxCommits /\ known \subseteq Names /\ IsFiniteSet(jobs)
  BY LifecycleAssumption, FS_EmptySet DEF Init
<1> QED BY <1>1, <1>2, <1>3 DEF Init, WorldOK

(* Every step keeps the types. *)
LEMMA NextWorld ==
    ASSUME CInv, WorldOK, Next
    PROVE  WorldOK'
<1>1. CASE DropToken
  <2>1. UNCHANGED <<daemon, tree, known, op, target, worldVars, reply>>
    BY <1>1, Zenon DEF DropToken
  <2> QED BY <2>1, WorldKept DEF WorldOK
<1>2. CASE DaemonRestarts
  BY <1>2, RestartWorld
<1>3. ASSUME NEW r \in Requests, NEW o \in Ops, NEW n \in Names, Request(r, o, n) PROVE WorldOK'
  BY <1>3, RequestWorld
<1>4. ASSUME NEW n \in Names \cup {None}, Commit(n) PROVE WorldOK'
  BY <1>4, CommitWorld
<1>5. ASSUME NEW r \in Requests, RunStep(r) PROVE WorldOK'
  BY <1>5, RunWorld
<1>6. ASSUME NEW n \in Names, EntityBusStep(n) PROVE WorldOK'
  BY <1>6, EntityBusWorld
<1>7. ASSUME NEW r \in Requests, EntitydCallTimesOut(r) \/ SystemdCallTimesOut(r) PROVE WorldOK'
  BY <1>7, TimeoutWorld
<1>8. ASSUME NEW n \in Names, EntitydStep(n) \/ EntitydDies(n) PROVE WorldOK'
  BY <1>8, EntitydWorld
<1>9. CASE SystemBusStep
  BY <1>9, BusWorld
<1>10. CASE SystemdStep
  BY <1>10, SystemdWorld
<1> QED BY <1>1, <1>2, <1>3, <1>4, <1>5, <1>6, <1>7, <1>8, <1>9, <1>10 DEF Next, Executes

(* A step that changes nothing keeps the invariant. *)
LEMMA StutterInv ==
    ASSUME CInv, WorldOK, UNCHANGED vars
    PROVE  CInv' /\ WorldOK' /\ SameTokens /\ UNCHANGED <<held, queue>>
<1>1. /\ UNCHANGED <<chain, stack, held, queue, reply>>
      /\ UNCHANGED <<daemon, tree, known, op, target, worldVars>>
  BY DEF vars, daemonVars, queueVars
<1>2. CInv' /\ SameTokens
  BY <1>1, Still DEF RepliesKept
<1>3. WorldOK'
  BY <1>1, WorldKept DEF WorldOK
<1> QED BY <1>1, <1>2, <1>3

(* The inductive invariant of the lifecycle. *)
LEMMA Invariant == Spec => [](CInv /\ WorldOK)
<1>1. Init => CInv /\ WorldOK
  BY InitCInv, InitWorld
<1>2. CInv /\ WorldOK /\ [Next]_vars => CInv' /\ WorldOK'
  BY NextCInv, NextWorld, StutterInv
<1> QED BY <1>1, <1>2, PTL DEF Spec

(***************************************************************************)
(* The entity coroutines use the entity queues as module EntityQueue       *)
(* describes: whatever the requests, the uplinks and the faults of the     *)
(* other processes, no path through start(), stop(), return_value and the  *)
(* destruction of the frames takes a token it was not given, loses one or  *)
(* gives one back twice.  A restart is excluded, it makes new queues.      *)
(***************************************************************************)
THEOREM LifecycleImplementsQueue ==
    ASSUME "crash" \notin Faults
    PROVE  Spec => ImplementsQueue
<1>1. Init => Queue!Init
  BY InitCInv
<1>2. CInv /\ WorldOK /\ [Next]_vars => [Queue!Next]_(Queue!queueVars)
  <2> SUFFICES ASSUME CInv, WorldOK, [Next]_vars PROVE [Queue!Next]_(Queue!queueVars)
    OBVIOUS
  <2>1. ASSUME SameTokens, UNCHANGED <<held, queue>> PROVE UNCHANGED Queue!queueVars
    BY <2>1 DEF SameTokens, Queue!queueVars
  <2>2. CASE Next
    <3>1. ~DaemonRestarts
      BY DEF DaemonRestarts
    <3>2. QueueStep
      BY <2>2, <3>1, NextCInv
    <3> QED BY <2>1, <3>2 DEF QueueStep
  <2>3. CASE UNCHANGED vars
    BY <2>1, <2>3, StutterInv
  <2> QED BY <2>2, <2>3
<1> QED BY <1>1, <1>2, Invariant, PTL DEF Spec, ImplementsQueue, Queue!Spec

(***************************************************************************)
(* Every variable has its type; in particular the frames of a request are  *)
(* bounded by the number of entities, however the uplinks are chained.     *)
(***************************************************************************)
THEOREM LifecycleTypeCorrect == Spec => []TypeOK
<1>1. CInv /\ WorldOK => TypeOK
  <2> SUFFICES ASSUME CInv, WorldOK PROVE TypeOK
    OBVIOUS
  <2>1. UnitCalls \subseteq Calls
    BY DEF UnitCalls, Calls
  <2>2. calls \in Seq(Calls) /\ jobs \subseteq Calls
    BY <2>1 DEF WorldOK
  <2>3. inbox \in Seq([type : {"reply", "removed"}, call : Calls, ok : BOOLEAN])
    <3>1. Messages \subseteq [type : {"reply", "removed"}, call : Calls, ok : BOOLEAN]
      BY <2>1 DEF Messages
    <3> QED BY <3>1, SeqMonotone DEF WorldOK
  <2>4. \A r \in Requests : chain[r] \in Seq(Frames) /\ Depth(r) \in 0..(Cardinality(Names) + 1)
    BY DEF CInv, ChainOK
  <2> QED BY <2>2, <2>3, <2>4 DEF WorldOK, CInv, StackOK, QueueOK, TypeOK
<1> QED BY <1>1, Invariant, PTL

(* Without alloc faults no step loses a running entityd from _live_entities. *)
LEMMA NoOrphanStep ==
    ASSUME "alloc" \notin Faults, CInv, WorldOK, NoOrphan, Next
    PROVE  NoOrphan'
<1>1. ASSUME live' = live, \A n \in Names : proc'[n] = "running" => proc[n] = "running"
      PROVE  NoOrphan'
  BY <1>1 DEF NoOrphan
<1>2. ASSUME UNCHANGED <<live, proc>> PROVE NoOrphan'
  BY <1>1, <1>2
<1>3. ASSUME NEW n \in Names, NEW e, Spawned(n, e) PROVE NoOrphan'
  BY <1>3 DEF Spawned, NoOrphan, WorldOK
<1>4. ASSUME NEW r \in Requests, RunStep(r) PROVE NoOrphan'
  <2>1. CASE Spawn(r) \/ SpawnBusFails(r)
    <3>1. chain[r] # <<>>
      BY <2>1, RunningFacts DEF Spawn, SpawnBusFails
    <3>2. Frame(r).ent \in Names /\ \E e : Spawned(Frame(r).ent, e)
      BY <2>1, <3>1, FrameFacts, Zenon DEF Spawn, SpawnBusFails
    <3> QED BY <1>3, <3>2
  <2>2. CASE ~(Spawn(r) \/ SpawnBusFails(r))
    <3>1. UNCHANGED <<live, proc>>
      BY <1>4, <2>2, Zenon
         DEF RunStep, Enqueue, StartAlreadyLive, StartUplink, DanglingCrash, SpawnForkFails,
             SpawnAllocFails, SpawnHandshakeFails, Components, StopNotLive, StopShutdown,
             StopBusClosed, Abort, worldVars, entitydVars
    <3> QED BY <1>2, <3>1
  <2> QED BY <2>1, <2>2
<1>5. CASE DropToken \/ SystemBusStep \/ (\E n \in Names : DeliverComponent(n) \/ DanglingAdvance(n))
           \/ (\E r \in Requests : EntitydHangup(r) \/ EntitydCallTimesOut(r) \/ SystemdCallTimesOut(r))
           \/ (\E r \in Requests, o \in Ops, n \in Names : Request(r, o, n))
           \/ (\E n \in Names \cup {None} : Commit(n))
  <2>1. UNCHANGED <<live, proc>>
    BY <1>5, Zenon
       DEF DropToken, SystemBusStep, DeliverReply, DeliverJobRemoved, DeliverComponent, EntitydHangup,
           EntitydCallTimesOut, SystemdCallTimesOut, Request, Commit, DanglingAdvance, Abort, worldVars,
           entitydVars
  <2> QED BY <1>2, <2>1
<1>6. ASSUME NEW n \in Names, DeliverShutdown(n) PROVE NoOrphan'
  <2>1. CASE UNCHANGED <<live, proc>>
    BY <1>2, <2>1
  <2>2. CASE proc' = [proc EXCEPT ![n] = "none"] /\ live' = live \ {n}
    BY <2>2 DEF NoOrphan, WorldOK
  <2> QED BY <1>6, <2>1, <2>2, Zenon DEF DeliverShutdown
<1>7. CASE SystemdStep
  <2>1. live' = live /\ (UNCHANGED proc \/ \E job \in jobs : JobEffect(job))
    BY <1>7, Zenon DEF SystemdStep, SystemdHandles, SystemdFinishes, entitydVars
  <2>2. ASSUME NEW job \in jobs, JobEffect(job) PROVE NoOrphan'
    <3>1. PICK killed : proc' = [n \in Names |-> IF n \in killed THEN "dead" ELSE proc[n]]
      BY <2>2, Zenon DEF JobEffect
    <3> QED BY <1>1, <2>1, <3>1
  <2> QED BY <1>2, <2>1, <2>2
<1>8. ASSUME NEW n \in Names, EntitydStep(n) \/ EntitydDies(n) PROVE NoOrphan'
  <2>1. live' = live /\ (UNCHANGED proc \/ proc' = [proc EXCEPT ![n] = "dead"])
    BY <1>8 DEF EntitydStep, EntitydAdds, EntitydAborts, EntitydShutsDown, EntitydDies
  <2> QED BY <1>1, <2>1 DEF WorldOK
<1>9. CASE DaemonRestarts
  BY <1>9 DEF DaemonRestarts, NoOrphan
<1> QED BY <1>4, <1>5, <1>6, <1>7, <1>8, <1>9 DEF Next, Executes, EntityBusStep

(***************************************************************************)
(* start() and stop() never forget a process, whichever of their steps     *)
(* fails: a running entityd is in _live_entities.  The one exception is    *)
(* the early return after a failed sd_bus_new, excluded here.              *)
(***************************************************************************)
THEOREM LifecycleNoOrphan ==
    ASSUME "alloc" \notin Faults
    PROVE  Spec => []NoOrphan
<1>1. Init => NoOrphan
  BY DEF Init, NoOrphan
<1>2. CInv /\ WorldOK /\ NoOrphan /\ [Next]_vars => NoOrphan'
  <2>1. CInv /\ WorldOK /\ NoOrphan /\ Next => NoOrphan'
    BY NoOrphanStep
  <2>2. NoOrphan /\ UNCHANGED vars => NoOrphan'
    BY DEF vars, worldVars, entitydVars, NoOrphan
  <2> QED BY <2>1, <2>2
<1> QED BY <1>1, <1>2, Invariant, PTL DEF Spec

=============================================================================
