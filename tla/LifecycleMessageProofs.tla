---------------------- MODULE LifecycleMessageProofs -----------------------
(***************************************************************************)
(* No wake-up is lost in the lifecycle: whatever a coroutine waits for is  *)
(* on its way, for any entities, requests, uplinks, slices and faults.     *)
(*                                                                         *)
(* A coroutine is resumed by a reply, by the end of a job, by an answer of *)
(* an entityd, by its uplink's coroutine or by a token. The invariant says *)
(* that a request has at most one call, job or message under way, and that *)
(* it is the one the request waits for unless the request has been given   *)
(* up. A successful reply precedes the end of its job in the inbox, so     *)
(* that the job is not reported to a coroutine which does not wait for it  *)
(* yet. An entityd somebody waits for is not replaced by another, as only  *)
(* the coroutine with the token spawns one. And a queued request is either *)
(* in a queue whose token somebody has, or about to be resumed by a        *)
(* destructor on the stack.                                                *)
(***************************************************************************)
EXTENDS EntityLifecycleProofs

(* Every entity has a slice of its own: no two names differ in dots and dashes only. *)
SlicesDistinct == \A m, n \in Names : Slice[m] = Slice[n] => m = n

(* What the rest of the state depends on: the innermost frame of a request. *)
Gone(r)  == chain[r] = <<>>
Pc(r)    == Frame(r).pc
Ent(r)   == Frame(r).ent
OnTop(r) == stack # <<>> /\ stack[1] = Run(r)

(* The innermost frame of s stays as it is; only that of r changes. *)
Same(s) ==
    /\ Gone(s)' = Gone(s)
    /\ Pc(s)' = Pc(s) /\ Ent(s)' = Ent(s) /\ Depth(s)' = Depth(s)
Only(r) == \A s \in Requests : s # r => Same(s)

(* Waits for the reply to a unit call, for the end of a job, and for an entityd. *)
UnitPcs == {"slice", "scope", "stopUnit"}
JobPcs  == {"sliceJob", "scopeJob", "stopJob"}
BusPcs  == {"component", "shutdown"}

-----------------------------------------------------------------------------
(* Unit calls, their replies and the ends of their jobs. *)

(* Is message i of systemd a reply, and not the signal of the end of a job? *)
IsReply(i) == inbox[i].type = "reply"

(* A message of request r: unless r was given up, it is what r waits for. *)
Expected(r, what, n) == reply[r] # "none" /\ (~Gone(r) => Pc(r) = what /\ Ent(r) = n)

(* A request has at most one call under way, or one reply. *)
OneMessage ==
    /\ \A i, j \in DOMAIN calls : calls[i].req = calls[j].req => i = j
    /\ \A i, j \in DOMAIN inbox :
          IsReply(i) /\ IsReply(j) /\ inbox[i].call.req = inbox[j].call.req => i = j
    /\ \A i \in DOMAIN calls, j \in DOMAIN inbox : IsReply(j) => calls[i].req # inbox[j].call.req

(* Every call and every reply is expected. *)
ExpectedCall(i)  == Expected(calls[i].req, calls[i].what, calls[i].ent)
ExpectedReply(i) ==
    IsReply(i) => Expected(inbox[i].call.req, inbox[i].call.what, inbox[i].call.ent)
ExpectedMessages ==
    /\ \A i \in DOMAIN calls : ExpectedCall(i)
    /\ \A i \in DOMAIN inbox : ExpectedReply(i)

(* The call that r waits for, or its reply, is there. *)
CallComing(r) ==
    \/ \E i \in DOMAIN calls : calls[i].req = r
    \/ \E i \in DOMAIN inbox : IsReply(i) /\ inbox[i].call.req = r

(* The end of job is what the caller of call waits for. *)
Serves(job, what, r, n) ==
    IF what = "stopUnit"
    THEN job.what = "stopUnit" /\ Slice[job.ent] = Slice[n]
    ELSE job.what = what /\ job.req = r /\ job.ent = n

(* The job still runs, or the signal of its end comes after place k. *)
EndComing(k, what, r, n) ==
    \/ \E job \in jobs : Serves(job, what, r, n)
    \/ \E i \in DOMAIN inbox : i > k /\ ~IsReply(i) /\ Serves(inbox[i].call, what, r, n)

(* A successful reply comes before the end of its job. *)
EndAfter(i) ==
    IsReply(i) /\ inbox[i].ok =>
        EndComing(i, inbox[i].call.what, inbox[i].call.req, inbox[i].call.ent)
EndAfterReply == \A i \in DOMAIN inbox : EndAfter(i)

(* The call that made the job a request waits for. *)
CallOf(pc) == CASE pc = "sliceJob" -> "slice" [] pc = "scopeJob" -> "scope" [] OTHER -> "stopUnit"

(* What request r waits for from systemd is coming. *)
Waits(r) ==
    ~Gone(r) =>
       /\ Pc(r) \in UnitPcs => CallComing(r)
       /\ Pc(r) \in JobPcs => EndComing(0, CallOf(Pc(r)), r, Ent(r))

(* The invariant of unit calls. *)
UnitOK ==
    /\ OneMessage
    /\ ExpectedMessages
    /\ EndAfterReply
    /\ \A r \in Requests : Waits(r)

-----------------------------------------------------------------------------
(* Calls to an entityd, and its answers. *)

(* Every message of q is expected. *)
ExpectedOn(q) == \A n \in Names : \A i \in DOMAIN q[n] : Expected(q[n][i].req, q[n][i].what, n)

(* No two messages of the sequences a and b belong to one request. *)
OneOn(a, b) ==
    /\ \A i, j \in DOMAIN a : a[i].req = a[j].req => i = j
    /\ \A i, j \in DOMAIN b : b[i].req = b[j].req => i = j
    /\ \A i \in DOMAIN a, j \in DOMAIN b : a[i].req # b[j].req
OneOnBus == \A n \in Names : OneOn(ecalls[n], eanswers[n])

(* Entityd n has the call of r, or has answered it, or has closed its connection. *)
AnswerComing(r, n) ==
    \/ proc[n] # "running"
    \/ \E i \in DOMAIN ecalls[n] : ecalls[n][i].req = r
    \/ \E i \in DOMAIN eanswers[n] : eanswers[n][i].req = r

(* The invariant of the calls to entityds. *)
BusOK ==
    /\ ExpectedOn(ecalls)
    /\ ExpectedOn(eanswers)
    /\ OneOnBus
    /\ \A r \in Requests : ~Gone(r) /\ Pc(r) \in BusPcs => AnswerComing(r, Ent(r))

-----------------------------------------------------------------------------
(* The queue and the call stack. *)

(* Request r is in line for its entity. *)
InQueue(r) == \E i \in DOMAIN queue[Ent(r)] : queue[Ent(r)][i] = <<r, Depth(r)>>

(* A suspended request is in line, and one that can run is running. *)
TurnOK ==
    \A r \in Requests : ~Gone(r) =>
       /\ Pc(r) = "queued" => InQueue(r)
       /\ Pc(r) \in RunPcs => OnTop(r)

-----------------------------------------------------------------------------
(* What the ways to change a chain do to the innermost frames. *)

(* A chain that does not change. *)
LEMMA SameFacts ==
    ASSUME NEW s, chain'[s] = chain[s]
    PROVE  Same(s)
BY DEF Same, Gone, Pc, Ent, Depth, Frame

(* The innermost frame has a pc and an entity. *)
LEMMA PcType ==
    ASSUME CInv, NEW r \in Requests, ~Gone(r)
    PROVE  Pc(r) \in Pcs /\ Ent(r) \in Names
BY FrameFacts DEF Gone, Pc, Ent, Frames

(* Only the pc of the innermost frame changes. *)
LEMMA AtEffect ==
    ASSUME CInv, NEW r \in Requests, ~Gone(r), NEW pc \in Pcs, chain' = At(r, pc)
    PROVE  /\ Only(r) /\ ~Gone(r)' /\ Pc(r)' = pc
           /\ Ent(r)' = Ent(r) /\ Depth(r)' = Depth(r)
<1>1. /\ \A s \in Requests : s # r => chain'[s] = chain[s]
      /\ chain'[r] # <<>> /\ Len(chain'[r]) = Len(chain[r])
      /\ chain'[r][Len(chain[r])].ent = chain[r][Len(chain[r])].ent
      /\ chain'[r][Len(chain[r])].pc = pc
  BY AtFacts DEF CInv, Gone
<1>2. Only(r)
  BY <1>1, SameFacts DEF Only
<1> QED BY <1>1, <1>2 DEF Gone, Pc, Ent, Depth, Frame

(* The request ends. *)
LEMMA UnwindEffect ==
    ASSUME CInv, NEW r \in Requests, NEW rest, Unwind(r, rest)
    PROVE  Only(r) /\ Gone(r)'
<1>1. chain'[r] = <<>> /\ \A s \in Requests : s # r => chain'[s] = chain[s]
  BY DEF Unwind, CInv, ChainOK
<1> QED BY <1>1, SameFacts DEF Only, Gone

(* The request ends, or the frame that awaits goes on to spawn. *)
LEMMA ReturnEffect ==
    ASSUME CInv, WorldOK, NEW r \in Requests, ~Gone(r), NEW rest \in Seq(StackItems), Return(r, rest)
    PROVE  /\ Only(r) /\ RepliesKept
           /\ Gone(r)' \/ (Depth(r) # 1 /\ ~Gone(r)' /\ Pc(r)' = "spawn" /\ OnTop(r)')
<1> PICK k : k = Len(chain[r])
  OBVIOUS
<1>0. RepliesKept
  BY ReturnReplies
<1>1. chain[r] \in Seq(Frames) /\ k \in Nat /\ k # 0
  BY DEF CInv, ChainOK, Gone
<1>2. CASE k = 1
  <2>1. chain'[r] = <<>> /\ \A s \in Requests : s # r => chain'[s] = chain[s]
    BY <1>2 DEF Return, Depth, CInv, ChainOK
  <2> QED BY <1>0, <2>1, SameFacts DEF Only, Gone
<1>3. CASE k # 1
  <2>0. PICK d \in Nat : d = k - 1 /\ d # 0 /\ d < k /\ d + 1 = k
    BY <1>1, <1>3, Predecessor
  <2>1. /\ chain' = [chain EXCEPT ![r] = [SubSeq(chain[r], 1, d) EXCEPT ![d].pc = "spawn"]]
        /\ stack' = <<Run(r), Drop(r, k, Frame(r).ent)>> \o rest
    BY <1>3, <2>0 DEF Return, Depth, Frame
  <2>2. /\ \A s \in Requests : s # r => chain'[s] = chain[s]
        /\ chain'[r] = WithPc(SubSeq(chain[r], 1, d), d, "spawn")
    BY <2>1 DEF CInv, ChainOK, WithPc
  <2>3. Len(chain'[r]) = d /\ chain'[r] # <<>> /\ chain'[r][d].pc = "spawn"
    <3>1. d + 1 = Len(chain[r]) /\ d # 0
      BY <2>0
    <3> QED BY <1>1, <2>2, <3>1, DropLastFacts
  <2>4. OnTop(r)'
    BY <2>1 DEF OnTop
  <2> QED BY <1>0, <1>3, <2>2, <2>3, <2>4, SameFacts DEF Only, Gone, Pc, Frame, Depth
<1> QED BY <1>2, <1>3

(* The frame of the uplink becomes the innermost one. *)
LEMMA UplinkEffect ==
    ASSUME CInv, NEW r \in Requests, ~Gone(r), NEW u,
           chain' = [At(r, "uplink") EXCEPT ![r] = Append(@, NewFrame(u))]
    PROVE  Only(r) /\ ~Gone(r)' /\ Pc(r)' = "enqueue"
<1> PICK k : k = Len(chain[r])
  OBVIOUS
<1> DEFINE w == WithPc(chain[r], k, "uplink")
<1>1. chain[r] \in Seq(Frames) /\ k \in Nat /\ k # 0 /\ "uplink" \in Pcs
  BY DEF CInv, ChainOK, Gone, Pcs
<1>2. w \in Seq(Frames)
  BY <1>1, PcFacts
<1>3. /\ \A s \in Requests : s # r => chain'[s] = chain[s]
      /\ chain'[r] = Append(w, NewFrame(u))
  BY DEF At, Depth, CInv, ChainOK, WithPc
<1> HIDE DEF w
<1>4. chain'[r] # <<>> /\ chain'[r][Len(chain'[r])] = NewFrame(u)
  BY <1>2, <1>3
<1> QED BY <1>3, <1>4, SameFacts DEF Only, Gone, Pc, Frame, Depth, NewFrame

-----------------------------------------------------------------------------
(* Steps of the daemon, as seen by the unit calls. *)

(* Nothing of request r is under way. *)
Silent(r) ==
    /\ \A i \in DOMAIN calls : calls[i].req # r
    /\ \A i \in DOMAIN inbox : IsReply(i) => inbox[i].call.req # r

(* A call to systemd is a unit call of a request. *)
LEMMA CallItem ==
    ASSUME WorldOK, NEW i \in DOMAIN calls
    PROVE  calls[i] \in UnitCalls /\ calls[i].req \in Requests /\ calls[i].what \in UnitPcs
<1>1. calls[i] \in UnitCalls
  BY DEF WorldOK
<1> QED BY <1>1 DEF UnitCalls, UnitPcs

(* A message of systemd is about a unit call of a request. *)
LEMMA InboxItem ==
    ASSUME WorldOK, NEW i \in DOMAIN inbox
    PROVE  /\ inbox[i] \in Messages /\ inbox[i].call \in UnitCalls
           /\ inbox[i].call.req \in Requests /\ inbox[i].call.what \in UnitPcs
<1>1. inbox[i] \in Messages
  BY DEF WorldOK
<1> QED BY <1>1 DEF Messages, UnitCalls, UnitPcs

(* A request that does not wait for a reply has nothing under way. *)
LEMMA SilentFacts ==
    ASSUME WorldOK, ExpectedMessages, NEW r \in Requests,
           reply[r] = "none" \/ (~Gone(r) /\ Pc(r) \notin UnitPcs)
    PROVE  Silent(r)
BY CallItem, InboxItem DEF ExpectedMessages, ExpectedCall, ExpectedReply, Expected, Silent

(* The first message is taken, or it stays. *)
LEMMA PopFacts ==
    ASSUME WorldOK, inbox' = Tail(inbox), inbox # <<>>
    PROVE  /\ 1 \in DOMAIN inbox
           /\ \A i \in DOMAIN inbox' : i \in Nat /\ i + 1 \in DOMAIN inbox /\ inbox'[i] = inbox[i + 1]
           /\ \A i \in DOMAIN inbox : i # 1 => i - 1 \in DOMAIN inbox' /\ inbox'[i - 1] = inbox[i]
           /\ \A i \in DOMAIN inbox : i \in Nat /\ i >= 1
BY DEF WorldOK

(* An end that comes after place k + 1 comes after place k once the first is gone. *)
LEMMA PopEnd ==
    ASSUME WorldOK, inbox' = Tail(inbox), inbox # <<>>, jobs' = jobs,
           NEW k \in Nat, NEW j \in Nat, NEW what, NEW r, NEW n, EndComing(j, what, r, n),
           \/ j = k + 1
           \/ j = 0 /\ k = 0 /\ (IsReply(1) \/ ~Serves(inbox[1].call, what, r, n))
    PROVE  EndComing(k, what, r, n)'
<1>1. CASE \E job \in jobs : Serves(job, what, r, n)
  BY <1>1 DEF EndComing, Serves
<1>2. CASE \E i \in DOMAIN inbox : i > j /\ ~IsReply(i) /\ Serves(inbox[i].call, what, r, n)
  <2>1. PICK i \in DOMAIN inbox : i > j /\ ~IsReply(i) /\ Serves(inbox[i].call, what, r, n)
    BY <1>2
  <2>2. i \in Nat /\ i # 1
    BY <2>1, PopFacts
  <2>3. i - 1 \in DOMAIN inbox' /\ inbox'[i - 1] = inbox[i] /\ i - 1 > k
    BY <2>1, <2>2, PopFacts
  <2> QED BY <2>1, <2>3 DEF EndComing, Serves, IsReply
<1> QED BY <1>1, <1>2 DEF EndComing

(* The signal at the head serves a waiting request only if it matches it. *)
LEMMA ServedMatches ==
    ASSUME CInv, WorldOK, NEW s \in Requests, ~Gone(s), Pc(s) \in JobPcs,
           NEW job \in UnitCalls, Serves(job, CallOf(Pc(s)), s, Ent(s))
    PROVE  Matches(s, job)
<1>1. CASE Pc(s) = "stopJob"
  BY <1>1 DEF Serves, CallOf, Matches, Awaits, Pc, Ent, Gone
<1>2. CASE Pc(s) \in {"sliceJob", "scopeJob"}
  <2>1. job.what \in {"slice", "scope"} /\ Pc(s) = JobOf[job.what] /\ job.req = s /\ job.ent = Ent(s)
    BY <1>2 DEF Serves, CallOf, JobOf
  <2>2. job = Call(s, job.what)
    BY <2>1 DEF UnitCalls, Call, Ent
  <2> QED BY <2>1, <2>2 DEF Matches, Awaits, Pc, Gone
<1> QED BY <1>1, <1>2 DEF JobPcs

(* At most the first message is taken; if it is a signal, it matches no request but r. *)
Shrinks == inbox' = inbox \/ (inbox # <<>> /\ inbox' = Tail(inbox))

Taken(r) ==
    \/ inbox' = inbox
    \/ /\ inbox # <<>> /\ ~IsReply(1) /\ inbox' = Tail(inbox)
       /\ \A s \in Requests : s # r => ~Matches(s, inbox[1].call)

(* Taking a message leaves the replies distinct. *)
LEMMA ShrinkReplies ==
    ASSUME WorldOK, OneMessage, Shrinks
    PROVE  \A i, j \in DOMAIN inbox' :
              IsReply(i)' /\ IsReply(j)' /\ inbox'[i].call.req = inbox'[j].call.req => i = j
<1>1. CASE inbox' = inbox
  BY <1>1 DEF OneMessage, IsReply
<1>2. CASE inbox # <<>> /\ inbox' = Tail(inbox)
  <2>1. ASSUME NEW i \in DOMAIN inbox', NEW j \in DOMAIN inbox', IsReply(i)', IsReply(j)',
               inbox'[i].call.req = inbox'[j].call.req
        PROVE  i = j
    <3>1. /\ i \in Nat /\ j \in Nat /\ i + 1 \in DOMAIN inbox /\ j + 1 \in DOMAIN inbox
          /\ inbox'[i] = inbox[i + 1] /\ inbox'[j] = inbox[j + 1]
      BY <1>2, PopFacts
    <3>2. i + 1 = j + 1
      BY <2>1, <3>1 DEF OneMessage, IsReply
    <3> QED BY <3>1, <3>2
  <2> QED BY <2>1
<1> QED BY <1>1, <1>2 DEF Shrinks

(* Taking a message leaves one message for each request. *)
LEMMA ShrinkOne ==
    ASSUME WorldOK, OneMessage, Shrinks, calls' = calls
    PROVE  OneMessage'
<1>1. ASSUME NEW i \in DOMAIN calls, NEW j \in DOMAIN inbox', IsReply(j)'
      PROVE  calls[i].req # inbox'[j].call.req
  <2>1. PICK k \in DOMAIN inbox : inbox'[j] = inbox[k]
    BY PopFacts DEF Shrinks
  <2> QED BY <1>1, <2>1 DEF OneMessage, IsReply
<1> QED BY <1>1, ShrinkReplies DEF OneMessage

(* Taking a message leaves the ends after the replies. *)
LEMMA ShrinkEnd ==
    ASSUME WorldOK, EndAfterReply, Shrinks, jobs' = jobs
    PROVE  EndAfterReply'
<1>1. CASE inbox' = inbox
  BY <1>1 DEF EndAfterReply, EndAfter, IsReply, EndComing, Serves
<1>2. CASE inbox # <<>> /\ inbox' = Tail(inbox)
  <2>1. ASSUME NEW i \in DOMAIN inbox', IsReply(i)', inbox'[i].ok
        PROVE  EndAfter(i)'
    <3>1. i \in Nat /\ i + 1 \in Nat /\ i + 1 \in DOMAIN inbox /\ inbox'[i] = inbox[i + 1]
      BY <1>2, PopFacts
    <3>2. PICK call : call = inbox[i + 1].call
      OBVIOUS
    <3>3. EndComing(i + 1, call.what, call.req, call.ent)
      BY <2>1, <3>1, <3>2 DEF EndAfterReply, EndAfter, IsReply
    <3>4. EndComing(i, call.what, call.req, call.ent)'
      BY <1>2, <3>1, <3>3, PopEnd
    <3> QED BY <3>1, <3>2, <3>4 DEF EndAfter
  <2> QED BY <2>1 DEF EndAfterReply, EndAfter
<1> QED BY <1>1, <1>2 DEF Shrinks

(* A message stays expected while its request waits, or when it is gone. *)
LEMMA ExpectedKept ==
    ASSUME NEW s \in Requests, NEW what, NEW n, Expected(s, what, n), RepliesKept, Same(s) \/ Gone(s)'
    PROVE  Expected(s, what, n)'
BY DEF Expected, RepliesKept, Same

(* At most one call is added. *)
MoreCalls == calls' = calls \/ \E c \in UnitCalls : calls' = Append(calls, c)

(* The calls that were there stay where they are. *)
LEMMA MoreCallsFacts ==
    ASSUME WorldOK, MoreCalls, NEW i \in DOMAIN calls
    PROVE  i \in DOMAIN calls' /\ calls'[i] = calls[i]
<1>1. calls \in Seq(UnitCalls) /\ i \in 1..Len(calls)
  BY DEF WorldOK
<1> QED BY <1>1 DEF MoreCalls

(* The reply to another request is not taken. *)
LEMMA TakenCall ==
    ASSUME WorldOK, NEW r, Taken(r), MoreCalls, NEW s, CallComing(s)
    PROVE  CallComing(s)'
<1>1. CASE \E i \in DOMAIN calls : calls[i].req = s
  BY <1>1, MoreCallsFacts DEF CallComing
<1>2. ASSUME NEW i \in DOMAIN inbox, IsReply(i), inbox[i].call.req = s
      PROVE  CallComing(s)'
  <2>1. CASE inbox' = inbox
    BY <1>2, <2>1 DEF CallComing, IsReply
  <2>2. CASE inbox # <<>> /\ ~IsReply(1) /\ inbox' = Tail(inbox)
    <3>1. i - 1 \in DOMAIN inbox' /\ inbox'[i - 1] = inbox[i]
      BY <1>2, <2>2, PopFacts
    <3> QED BY <1>2, <3>1 DEF CallComing, IsReply
  <2> QED BY <2>1, <2>2 DEF Taken
<1> QED BY <1>1, <1>2 DEF CallComing

(* A request that does not move goes on waiting for the same. *)
LEMMA TakenWaits ==
    ASSUME CInv, WorldOK, jobs' = jobs, NEW r, Taken(r), MoreCalls,
           NEW s \in Requests, Same(s), Waits(s),
           s # r \/ inbox' = inbox \/ ~Matches(s, inbox[1].call)
    PROVE  Waits(s)'
<1> SUFFICES ASSUME ~Gone(s), Pc(s)' = Pc(s), Ent(s)' = Ent(s)
             PROVE  Waits(s)'
  BY DEF Waits, Same
<1>1. Pc(s) \in UnitPcs => CallComing(s)'
  BY TakenCall DEF Waits
<1>2. ASSUME Pc(s) \in JobPcs PROVE EndComing(0, CallOf(Pc(s)), s, Ent(s))'
  <2> PICK what, n : what = CallOf(Pc(s)) /\ n = Ent(s)
    OBVIOUS
  <2>1. EndComing(0, what, s, n)
    BY <1>2 DEF Waits
  <2>2. EndComing(0, what, s, n)'
    <3>1. CASE inbox' = inbox
      BY <2>1, <3>1 DEF EndComing, Serves, IsReply
    <3>2. CASE inbox # <<>> /\ inbox' = Tail(inbox) /\ ~Matches(s, inbox[1].call)
      <4>1. inbox[1].call \in UnitCalls
        BY <3>2, PopFacts, InboxItem
      <4>2. ~Serves(inbox[1].call, what, s, n)
        BY <1>2, <3>2, <4>1, ServedMatches
      <4> QED BY <2>1, <3>2, <4>2, PopEnd
    <3> QED BY <3>1, <3>2 DEF Taken
  <2>3. CallOf(Pc(s))' = what /\ Ent(s)' = n
    BY DEF CallOf
  <2> QED BY <2>2, <2>3 DEF CallOf
<1> QED BY <1>1, <1>2 DEF Waits, CallOf

(* The messages that stay are expected. *)
LEMMA ShrinkExpected ==
    ASSUME WorldOK, ExpectedMessages, RepliesKept, NEW r \in Requests, Only(r), Shrinks, MoreCalls,
           Same(r) \/ Gone(r)' \/ Silent(r) \/ Silent(r)'
    PROVE  /\ \A i \in DOMAIN calls : ExpectedCall(i)'
           /\ \A i \in DOMAIN inbox' : ExpectedReply(i)'
<1>1. ASSUME NEW i \in DOMAIN calls PROVE ExpectedCall(i)'
  <2> PICK c : c = calls[i]
    OBVIOUS
  <2>1. /\ c.req \in Requests /\ Expected(c.req, c.what, c.ent)
        /\ i \in DOMAIN calls' /\ calls'[i] = c
    BY CallItem, MoreCallsFacts DEF ExpectedMessages, ExpectedCall
  <2>2. Same(c.req) \/ Gone(c.req)'
    BY <2>1 DEF Only, Silent
  <2>3. Expected(c.req, c.what, c.ent)'
    BY <2>1, <2>2, ExpectedKept
  <2> QED BY <2>1, <2>3 DEF ExpectedCall
<1>2. ASSUME NEW i \in DOMAIN inbox', IsReply(i)' PROVE ExpectedReply(i)'
  <2>1. PICK j \in DOMAIN inbox : inbox'[i] = inbox[j]
    BY PopFacts DEF Shrinks
  <2>2. PICK c : c = inbox[j].call
    OBVIOUS
  <2>3. IsReply(j)
    BY <1>2, <2>1 DEF IsReply
  <2>4. c.req \in Requests /\ Expected(c.req, c.what, c.ent)
    BY <2>2, <2>3, InboxItem DEF ExpectedMessages, ExpectedReply
  <2>5. Same(c.req) \/ Gone(c.req)'
    BY <1>2, <2>1, <2>2, <2>3, <2>4 DEF Only, Silent
  <2>6. Expected(c.req, c.what, c.ent)'
    BY <2>4, <2>5, ExpectedKept
  <2> QED BY <2>1, <2>2, <2>6 DEF ExpectedReply
<1>3. ASSUME NEW i \in DOMAIN inbox' PROVE ExpectedReply(i)'
  BY <1>2 DEF ExpectedReply
<1> QED BY <1>1, <1>3

(* A step of r that calls nothing and does not wait for systemd afterwards. *)
LEMMA MoverUnit ==
    ASSUME CInv, WorldOK, UnitOK, RepliesKept, UNCHANGED <<calls, jobs>>,
           NEW r \in Requests, Only(r), Taken(r),
           \/ Gone(r)'
           \/ /\ ~Gone(r)' /\ Pc(r)' \notin UnitPcs \cup JobPcs
              /\ reply[r] = "none" \/ (~Gone(r) /\ Pc(r) \notin UnitPcs)
           \/ Same(r) /\ (inbox' = inbox \/ ~Matches(r, inbox[1].call))
    PROVE  UnitOK'
<1>1. MoreCalls /\ Shrinks
  BY DEF MoreCalls, Shrinks, Taken
<1>2. OneMessage' /\ EndAfterReply'
  BY <1>1, ShrinkOne, ShrinkEnd DEF UnitOK
<1>3. ExpectedMessages'
  <2>1. Same(r) \/ Gone(r)' \/ Silent(r)
    BY SilentFacts DEF UnitOK
  <2>2. /\ \A i \in DOMAIN calls : ExpectedCall(i)'
        /\ \A i \in DOMAIN inbox' : ExpectedReply(i)'
    BY <1>1, <2>1, ShrinkExpected DEF UnitOK
  <2>3. calls' = calls
    OBVIOUS
  <2> QED BY <2>2, <2>3 DEF ExpectedMessages
<1>4. ASSUME NEW s \in Requests PROVE Waits(s)'
  <2>1. CASE Same(s) /\ (s # r \/ inbox' = inbox \/ ~Matches(s, inbox[1].call))
    BY <1>1, <2>1, TakenWaits DEF UnitOK
  <2>2. CASE s = r /\ (Gone(r)' \/ Pc(r)' \notin UnitPcs \cup JobPcs)
    BY <2>2 DEF Waits
  <2> QED BY <2>1, <2>2 DEF Only
<1> QED BY <1>2, <1>3, <1>4 DEF UnitOK

(* A step of r that calls systemd and waits for the reply. *)
LEMMA CallUnit ==
    ASSUME CInv, WorldOK, UnitOK, RepliesKept, jobs' = jobs,
           NEW r \in Requests, Only(r), Taken(r),
           ~Gone(r), Pc(r) \notin UnitPcs, ~Gone(r)', Ent(r)' = Ent(r),
           NEW what \in UnitPcs, Pc(r)' = what,
           calls' = Append(calls, Call(r, what))
    PROVE  UnitOK'
<1> PICK c : c = Call(r, what)
  OBVIOUS
<1>1. c \in UnitCalls /\ c.req = r /\ c.what = what /\ c.ent = Ent(r)
  BY CallFacts DEF Call, Ent, Gone, UnitPcs
<1>2. MoreCalls /\ Shrinks
  BY <1>1 DEF MoreCalls, Shrinks, Taken
<1>3. Silent(r)
  BY SilentFacts DEF UnitOK
<1>4. /\ DOMAIN calls' = DOMAIN calls \cup {Len(calls) + 1}
      /\ Len(calls) + 1 \notin DOMAIN calls
      /\ calls'[Len(calls) + 1] = c
      /\ \A i \in DOMAIN calls : calls'[i] = calls[i]
  <2>1. calls \in Seq(UnitCalls)
    BY DEF WorldOK
  <2> QED BY <1>1, <2>1
<1>5. \A i \in DOMAIN inbox' : \E j \in DOMAIN inbox : inbox'[i] = inbox[j]
  BY PopFacts DEF Taken
<1>6. OneMessage'
  <2>1. \A i, j \in DOMAIN calls' : calls'[i].req = calls'[j].req => i = j
    BY <1>1, <1>3, <1>4 DEF UnitOK, OneMessage, Silent
  <2>2. \A i \in DOMAIN calls', j \in DOMAIN inbox' :
           inbox'[j].type = "reply" => calls'[i].req # inbox'[j].call.req
    BY <1>1, <1>3, <1>4, <1>5 DEF UnitOK, OneMessage, Silent, IsReply
  <2>3. \A i, j \in DOMAIN inbox' :
          IsReply(i)' /\ IsReply(j)' /\ inbox'[i].call.req = inbox'[j].call.req => i = j
    BY <1>2, ShrinkReplies DEF UnitOK
  <2> QED BY <2>1, <2>2, <2>3 DEF OneMessage, IsReply
<1>7. ExpectedMessages'
  <2>1. /\ \A i \in DOMAIN calls : ExpectedCall(i)'
        /\ \A i \in DOMAIN inbox' : ExpectedReply(i)'
    BY <1>2, <1>3, ShrinkExpected DEF UnitOK
  <2>2. reply'[r] # "none"
    BY DEF CInv, ChainOK, Gone, RepliesKept
  <2>3. PICK k : k = Len(calls) + 1
    OBVIOUS
  <2>4. DOMAIN calls' = DOMAIN calls \cup {k} /\ calls'[k] = c
    BY <1>4, <2>3
  <2>5. ExpectedCall(k)'
    BY <1>1, <2>2, <2>4 DEF ExpectedCall, Expected
  <2> QED BY <2>1, <2>4, <2>5 DEF ExpectedMessages
<1>8. ASSUME NEW s \in Requests PROVE Waits(s)'
  <2>1. CASE s # r
    BY <1>2, <2>1, TakenWaits DEF UnitOK, Only
  <2>2. CASE s = r
    <3>1. CallComing(r)'
      BY <1>1, <1>4 DEF CallComing
    <3>2. Pc(r)' \notin JobPcs
      BY DEF UnitPcs, JobPcs
    <3> QED BY <2>2, <3>1, <3>2 DEF Waits
  <2> QED BY <2>1, <2>2
<1> QED BY <1>2, <1>6, <1>7, <1>8, ShrinkEnd DEF UnitOK

(* The reply resumes the request it is for, which then waits for the job, or the request is gone. *)
ReplyTo(r, c) ==
    /\ RepliesKept /\ Only(r) /\ stack = <<>>
    /\ inbox # <<>> /\ inbox' = Tail(inbox)
    /\ 1 \in DOMAIN inbox /\ IsReply(1) /\ c = inbox[1].call
    /\ UNCHANGED <<calls, jobs, ecalls, eanswers, proc, queue>>
    /\ \/ Gone(r)'
       \/ /\ inbox[1].ok /\ ~Gone(r) /\ ~Gone(r)' /\ Pc(r) = c.what /\ Ent(r)' = Ent(r)
          /\ Depth(r)' = Depth(r) /\ Pc(r)' = JobOf[c.what]

(* The dispatch of a reply. *)
LEMMA ReplyEffect ==
    ASSUME CInv, WorldOK, UnitOK, DeliverReply
    PROVE  \E r \in Requests, c \in UnitCalls : c.req = r /\ ReplyTo(r, c)
<1> PICK c, r : c = Head(inbox).call /\ r = c.req
  OBVIOUS
<1>1. /\ stack = <<>> /\ inbox # <<>> /\ inbox' = Tail(inbox)
      /\ UNCHANGED <<calls, jobs, ecalls, eanswers, proc, queue>>
      /\ Head(inbox) = inbox[1] /\ 1 \in DOMAIN inbox /\ IsReply(1) /\ c = inbox[1].call
      /\ c \in UnitCalls /\ r \in Requests /\ c.what \in UnitPcs
  <2>1. Head(inbox) = inbox[1] /\ inbox # <<>> /\ Head(inbox).type = "reply" /\ inbox' = Tail(inbox)
    BY DEF DeliverReply
  <2>2. 1 \in DOMAIN inbox
    BY <2>1, PopFacts
  <2> QED BY <2>1, <2>2, InboxItem DEF DeliverReply, IsReply, Idle, queueVars, entitydVars
<1>2. /\ RepliesKept /\ Only(r)
      /\ \/ Gone(r)'
         \/ /\ inbox[1].ok /\ ~Gone(r) /\ ~Gone(r)' /\ Pc(r) = c.what /\ Ent(r)' = Ent(r)
            /\ Depth(r)' = Depth(r) /\ Pc(r)' = JobOf[c.what]
  <2>1. CASE Awaits(r, c.what) /\ inbox[1].ok /\ chain' = At(r, JobOf[c.what]) /\ UNCHANGED reply
    <3>1. JobOf[c.what] \in Pcs
      BY <1>1, JobOfFacts DEF HoldPcs, UnitPcs
    <3>2. ~Gone(r) /\ Pc(r) = c.what
      BY <2>1 DEF Awaits, Gone, Pc
    <3> QED BY <1>1, <2>1, <3>1, <3>2, AtEffect DEF RepliesKept
  <2>2. CASE Fail(r, <<>>)
    BY <1>1, <2>2, UnwindEffect, RepliesSet DEF Fail
  <2>3. CASE ~Awaits(r, c.what) /\ UNCHANGED <<reply, chain>>
    <3>1. \A s : Same(s)
      BY <2>3, SameFacts
    <3>2. Gone(r)
      BY <1>1, <2>3 DEF UnitOK, ExpectedMessages, ExpectedReply, Expected, Awaits, Gone, Pc
    <3> QED BY <2>3, <3>1, <3>2 DEF Only, RepliesKept, Same
  <2> QED BY <1>1, <2>1, <2>2, <2>3, Zenon DEF DeliverReply, Suspend
<1> QED BY <1>1, <1>2 DEF ReplyTo

(* After the reply the end of the job is still to come. *)
LEMMA ReplyUnit ==
    ASSUME CInv, WorldOK, UnitOK, DeliverReply
    PROVE  UnitOK'
<1> PICK r \in Requests, c \in UnitCalls : c.req = r /\ ReplyTo(r, c)
  BY ReplyEffect
<1>1. /\ inbox # <<>> /\ inbox' = Tail(inbox) /\ UNCHANGED <<calls, jobs>>
      /\ 1 \in DOMAIN inbox /\ IsReply(1) /\ c = inbox[1].call
      /\ r \in Requests /\ c.what \in UnitPcs
  BY DEF ReplyTo, UnitCalls, UnitPcs
<1>2. Shrinks /\ MoreCalls
  BY <1>1 DEF Shrinks, MoreCalls
<1>3. OneMessage' /\ EndAfterReply'
  BY <1>1, <1>2, ShrinkOne, ShrinkEnd DEF UnitOK
<1>4. Silent(r)'
  <2>1. \A i \in DOMAIN calls : calls[i].req # r
    BY <1>1 DEF UnitOK, OneMessage
  <2>2. ASSUME NEW i \in DOMAIN inbox', IsReply(i)' PROVE inbox'[i].call.req # r
    <3>1. i \in Nat /\ i + 1 \in DOMAIN inbox /\ inbox'[i] = inbox[i + 1]
      BY <1>1, PopFacts
    <3>2. i # 0
      BY <1>1 DEF WorldOK
    <3>3. i + 1 # 1
      BY <3>1, <3>2
    <3> QED BY <1>1, <2>2, <3>1, <3>3 DEF UnitOK, OneMessage, IsReply
  <2> QED BY <1>1, <2>1, <2>2 DEF Silent
<1>5. /\ RepliesKept /\ Only(r)
      /\ \/ Gone(r)'
         \/ /\ inbox[1].ok /\ ~Gone(r) /\ ~Gone(r)' /\ Pc(r) = c.what /\ Ent(r)' = Ent(r)
            /\ Pc(r)' = JobOf[c.what]
  BY DEF ReplyTo
<1>6. ExpectedMessages'
  <2>1. /\ \A i \in DOMAIN calls : ExpectedCall(i)'
        /\ \A i \in DOMAIN inbox' : ExpectedReply(i)'
    BY <1>1, <1>2, <1>4, <1>5, ShrinkExpected DEF UnitOK
  <2> QED BY <1>1, <2>1 DEF ExpectedMessages
<1>7. ASSUME NEW s \in Requests, s # r PROVE Waits(s)'
  <2> SUFFICES ASSUME ~Gone(s), Pc(s)' = Pc(s), Ent(s)' = Ent(s)
               PROVE  Waits(s)'
    BY <1>5, <1>7 DEF Waits, Same, Only
  <2>1. ASSUME CallComing(s) PROVE CallComing(s)'
    <3>1. CASE \E i \in DOMAIN calls : calls[i].req = s
      BY <1>1, <3>1 DEF CallComing
    <3>2. ASSUME NEW i \in DOMAIN inbox, IsReply(i), inbox[i].call.req = s PROVE CallComing(s)'
      <4>1. i # 1
        BY <1>1, <1>7, <3>2
      <4>2. i - 1 \in DOMAIN inbox' /\ inbox'[i - 1] = inbox[i]
        BY <1>1, <4>1, PopFacts
      <4> QED BY <3>2, <4>2 DEF CallComing, IsReply
    <3> QED BY <2>1, <3>1, <3>2 DEF CallComing
  <2>2. ASSUME Pc(s) \in JobPcs PROVE EndComing(0, CallOf(Pc(s)), s, Ent(s))'
    <3> PICK what, n : what = CallOf(Pc(s)) /\ n = Ent(s)
      OBVIOUS
    <3>1. EndComing(0, what, s, n)
      BY <2>2 DEF UnitOK, Waits
    <3>2. EndComing(0, what, s, n)'
      BY <1>1, <3>1, PopEnd
    <3>3. CallOf(Pc(s))' = what /\ Ent(s)' = n
      BY DEF CallOf
    <3> QED BY <3>2, <3>3 DEF CallOf
  <2> QED BY <2>1, <2>2 DEF UnitOK, Waits, CallOf
<1>8. Waits(r)'
  <2>1. CASE Gone(r)'
    BY <2>1 DEF Waits
  <2>2. CASE ~Gone(r)'
    <3>1. /\ inbox[1].ok /\ ~Gone(r) /\ Pc(r) = c.what /\ Ent(r)' = Ent(r)
          /\ Pc(r)' = JobOf[c.what]
      BY <1>5, <2>2
    <3>2. Ent(r) = c.ent
      BY <1>1, <3>1 DEF UnitOK, ExpectedMessages, ExpectedReply, Expected
    <3>3. EndComing(1, c.what, r, c.ent)
      BY <1>1, <3>1 DEF UnitOK, EndAfterReply, EndAfter
    <3>4. EndComing(0, c.what, r, c.ent)'
      BY <1>1, <3>3, PopEnd
    <3>5. Pc(r)' \notin UnitPcs /\ CallOf(Pc(r))' = c.what
      BY <1>1, <3>1 DEF UnitPcs, JobOf, CallOf
    <3>6. PICK what, n : what = c.what /\ n = c.ent
      OBVIOUS
    <3>7. EndComing(0, what, r, n)' /\ CallOf(Pc(r))' = what /\ Ent(r)' = n
      BY <3>1, <3>2, <3>4, <3>5, <3>6
    <3> QED BY <3>5, <3>7 DEF Waits
  <2> QED BY <2>1, <2>2
<1> QED BY <1>3, <1>6, <1>7, <1>8 DEF UnitOK

-----------------------------------------------------------------------------
(* Steps of systemd, as seen by the unit calls. *)

(* systemd sends l signals and then m. *)
Sends(l, m) ==
    /\ DOMAIN inbox' = 1..(Len(inbox) + l + 1)
    /\ \A i \in 1..Len(inbox) : inbox'[i] = inbox[i]
    /\ \A i \in (Len(inbox) + 1)..(Len(inbox) + l) : inbox'[i].type = "removed"
    /\ inbox'[Len(inbox) + l + 1] = m

(* A job that is no longer there has been signalled. *)
JobsSignalled ==
    \A job \in jobs : job \in jobs' \/
       \E i \in DOMAIN inbox' : i > Len(inbox) /\ ~IsReply(i)' /\ inbox'[i].call = job

(* An end that is coming is still coming after systemd has sent more. *)
LEMMA SendEnd ==
    ASSUME WorldOK, NEW l \in Nat, NEW m, Sends(l, m), JobsSignalled,
           NEW k \in Nat, k <= Len(inbox), NEW what, NEW r, NEW n, EndComing(k, what, r, n)
    PROVE  EndComing(k, what, r, n)'
<1> PICK e \in Nat : e = Len(inbox) /\ DOMAIN inbox = 1..e
  BY DEF WorldOK
<1>1. ASSUME NEW job \in jobs, Serves(job, what, r, n) PROVE EndComing(k, what, r, n)'
  <2>1. CASE job \in jobs'
    BY <1>1, <2>1 DEF EndComing, Serves
  <2>2. ASSUME NEW i \in DOMAIN inbox', i > e, ~IsReply(i)', inbox'[i].call = job
        PROVE  EndComing(k, what, r, n)'
    <3>1. i > k
      BY <2>2 DEF Sends
    <3> QED BY <1>1, <2>2, <3>1 DEF EndComing, Serves
  <2> QED BY <2>1, <2>2 DEF JobsSignalled
<1>2. ASSUME NEW i \in DOMAIN inbox, i > k, ~IsReply(i), Serves(inbox[i].call, what, r, n)
      PROVE  EndComing(k, what, r, n)'
  <2>1. i \in DOMAIN inbox' /\ inbox'[i] = inbox[i]
    BY DEF Sends
  <2> QED BY <1>2, <2>1 DEF EndComing, Serves, IsReply
<1> QED BY <1>1, <1>2 DEF EndComing

(* The first call is taken. *)
LEMMA TailCalls ==
    ASSUME WorldOK, calls # <<>>, calls' = Tail(calls)
    PROVE  /\ 1 \in DOMAIN calls /\ Head(calls) = calls[1]
           /\ \A i \in DOMAIN calls' : i \in Nat /\ i + 1 # 1 /\ i + 1 \in DOMAIN calls
                                       /\ calls'[i] = calls[i + 1]
           /\ \A i \in DOMAIN calls : i # 1 => i - 1 \in DOMAIN calls' /\ calls'[i - 1] = calls[i]
BY DEF WorldOK

(* systemd replies to a call, or signals the end of a job. *)
LEMMA SendUnit ==
    ASSUME CInv, WorldOK, UnitOK, UNCHANGED <<chain, reply>>,
           NEW l \in Nat, NEW m, Sends(l, m), JobsSignalled,
           \/ calls' = calls /\ m.type # "reply"
           \/ /\ calls # <<>> /\ calls' = Tail(calls) /\ m.type = "reply" /\ m.call = Head(calls)
              /\ m.ok => \E job \in jobs' : Serves(job, m.call.what, m.call.req, m.call.ent)
    PROVE  UnitOK'
<1> PICK e \in Nat : e = Len(inbox) /\ DOMAIN inbox = 1..e
  BY DEF WorldOK
<1> PICK f \in Nat : f = e + l + 1
  OBVIOUS
<1>1. /\ DOMAIN inbox' = 1..f /\ f \notin DOMAIN inbox /\ inbox'[f] = m
      /\ \A i \in DOMAIN inbox : i \in DOMAIN inbox' /\ inbox'[i] = inbox[i] /\ i <= e /\ i \in Nat
      /\ \A i \in DOMAIN inbox' : i \in DOMAIN inbox \/ ~IsReply(i)' \/ i = f
  BY DEF Sends, IsReply
<1>2. \A s : Same(s) /\ Gone(s)' = Gone(s) /\ Pc(s)' = Pc(s) /\ Ent(s)' = Ent(s)
  BY SameFacts DEF Same
<1>3. RepliesKept
  BY DEF RepliesKept
<1>4. ASSUME NEW i \in DOMAIN inbox', IsReply(i)'
      PROVE  \/ i \in DOMAIN inbox /\ inbox'[i] = inbox[i] /\ IsReply(i)
             \/ i = f /\ calls # <<>> /\ calls' = Tail(calls) /\ inbox'[i].call = Head(calls)
  BY <1>1, <1>4 DEF IsReply
<1>5. OneMessage'
  <2>1. CASE calls' = calls /\ m.type # "reply"
    <3>1. \A i \in DOMAIN inbox' : IsReply(i)' =>
             i \in DOMAIN inbox /\ inbox'[i] = inbox[i] /\ IsReply(i)
      BY <1>1, <2>1 DEF IsReply
    <3> QED BY <2>1, <3>1 DEF UnitOK, OneMessage, IsReply
  <2>2. CASE calls # <<>> /\ calls' = Tail(calls)
    <3>1. \A i, j \in DOMAIN calls' : calls'[i].req = calls'[j].req => i = j
      <4>1. ASSUME NEW i \in DOMAIN calls', NEW j \in DOMAIN calls', calls'[i].req = calls'[j].req
            PROVE  i = j
        <5>1. /\ i \in Nat /\ i + 1 \in DOMAIN calls /\ calls'[i] = calls[i + 1]
              /\ j \in Nat /\ j + 1 \in DOMAIN calls /\ calls'[j] = calls[j + 1]
          BY <2>2, TailCalls
        <5>2. i + 1 = j + 1
          BY <4>1, <5>1 DEF UnitOK, OneMessage
        <5> QED BY <5>1, <5>2
      <4> QED BY <4>1
    <3>2. \A i, j \in DOMAIN inbox' :
             IsReply(i)' /\ IsReply(j)' /\ inbox'[i].call.req = inbox'[j].call.req => i = j
      BY <1>4, <2>2, TailCalls DEF UnitOK, OneMessage
    <3>3. ASSUME NEW i \in DOMAIN calls', NEW j \in DOMAIN inbox', IsReply(j)'
          PROVE  calls'[i].req # inbox'[j].call.req
      <4>1. i + 1 \in DOMAIN calls /\ i + 1 # 1 /\ calls'[i] = calls[i + 1]
            /\ 1 \in DOMAIN calls /\ Head(calls) = calls[1]
        BY <2>2, TailCalls
      <4>2. \/ j \in DOMAIN inbox /\ inbox'[j] = inbox[j] /\ IsReply(j)
            \/ inbox'[j].call = Head(calls)
        BY <1>4, <3>3
      <4> QED BY <4>1, <4>2 DEF UnitOK, OneMessage
    <3> QED BY <3>1, <3>2, <3>3 DEF OneMessage
  <2> QED BY <2>1, <2>2
<1>6. ExpectedMessages'
  <2>1. ASSUME NEW i \in DOMAIN calls PROVE Expected(calls[i].req, calls[i].what, calls[i].ent)
    BY DEF UnitOK, ExpectedMessages, ExpectedCall
  <2>2. \A s, what, n : Expected(s, what, n) => Expected(s, what, n)'
    BY <1>2 DEF Expected
  <2>3. ASSUME NEW i \in DOMAIN calls' PROVE ExpectedCall(i)'
    <3>1. PICK j \in DOMAIN calls : calls'[i] = calls[j]
      BY TailCalls
    <3>2. PICK c : c = calls[j]
      OBVIOUS
    <3>3. Expected(c.req, c.what, c.ent)'
      BY <2>1, <2>2, <3>2
    <3> QED BY <3>1, <3>2, <3>3 DEF ExpectedCall
  <2>4. ASSUME NEW i \in DOMAIN inbox', IsReply(i)' PROVE ExpectedReply(i)'
    <3>1. PICK c : c = inbox'[i].call
      OBVIOUS
    <3>2. Expected(c.req, c.what, c.ent)
      <4>1. CASE i \in DOMAIN inbox /\ inbox'[i] = inbox[i] /\ IsReply(i)
        BY <3>1, <4>1 DEF UnitOK, ExpectedMessages, ExpectedReply
      <4>2. CASE calls # <<>> /\ calls' = Tail(calls) /\ inbox'[i].call = Head(calls)
        BY <2>1, <3>1, <4>2, TailCalls
      <4> QED BY <1>4, <2>4, <4>1, <4>2
    <3>3. Expected(c.req, c.what, c.ent)'
      BY <2>2, <3>2
    <3> QED BY <3>1, <3>3 DEF ExpectedReply
  <2> QED BY <2>3, <2>4 DEF ExpectedMessages, ExpectedReply
<1>7. EndAfterReply'
  <2>1. ASSUME NEW i \in DOMAIN inbox', IsReply(i)', inbox'[i].ok PROVE EndAfter(i)'
    <3>1. PICK c : c = inbox'[i].call
      OBVIOUS
    <3>2. EndComing(i, c.what, c.req, c.ent)'
      <4>1. CASE i \in DOMAIN inbox
        <5>1. EndComing(i, c.what, c.req, c.ent) /\ i \in Nat /\ i <= Len(inbox)
          BY <1>1, <2>1, <3>1, <4>1 DEF UnitOK, EndAfterReply, EndAfter, IsReply
        <5> QED BY <5>1, SendEnd
      <4>2. CASE i = f
        <5>1. \E job \in jobs' : Serves(job, c.what, c.req, c.ent)
          BY <1>1, <2>1, <3>1, <4>2 DEF IsReply
        <5> QED BY <5>1 DEF EndComing, Serves
      <4> QED BY <1>1, <2>1, <4>1, <4>2
    <3> QED BY <3>1, <3>2 DEF EndAfter
  <2> QED BY <2>1 DEF EndAfterReply, EndAfter
<1>8. ASSUME NEW s \in Requests PROVE Waits(s)'
  <2> SUFFICES ASSUME ~Gone(s), Pc(s)' = Pc(s), Ent(s)' = Ent(s)
               PROVE  Waits(s)'
    BY <1>2 DEF Waits
  <2>1. ASSUME CallComing(s) PROVE CallComing(s)'
    <3>1. ASSUME NEW i \in DOMAIN inbox, IsReply(i), inbox[i].call.req = s PROVE CallComing(s)'
      BY <1>1, <3>1 DEF CallComing, IsReply
    <3>2. ASSUME NEW i \in DOMAIN calls, calls[i].req = s PROVE CallComing(s)'
      <4>1. CASE i \in DOMAIN calls' /\ calls'[i] = calls[i]
        BY <3>2, <4>1 DEF CallComing
      <4>2. CASE i # 1 /\ calls # <<>> /\ calls' = Tail(calls)
        BY <3>2, <4>2, TailCalls DEF CallComing
      <4>3. CASE i = 1 /\ calls # <<>> /\ calls' = Tail(calls)
        <5>1. m.type = "reply" /\ m.call.req = s
          BY <3>2, <4>3, TailCalls
        <5>2. f \in DOMAIN inbox' /\ inbox'[f].type = "reply" /\ inbox'[f].call.req = s
          BY <1>1, <5>1
        <5> QED BY <5>2 DEF CallComing, IsReply
      <4> QED BY <4>1, <4>2, <4>3
    <3> QED BY <2>1, <3>1, <3>2 DEF CallComing
  <2>2. ASSUME Pc(s) \in JobPcs PROVE EndComing(0, CallOf(Pc(s)), s, Ent(s))'
    <3> PICK what, n : what = CallOf(Pc(s)) /\ n = Ent(s)
      OBVIOUS
    <3>1. EndComing(0, what, s, n)
      BY <2>2 DEF UnitOK, Waits
    <3>2. EndComing(0, what, s, n)'
      BY <3>1, SendEnd
    <3>3. CallOf(Pc(s))' = what /\ Ent(s)' = n
      BY DEF CallOf
    <3> QED BY <3>2, <3>3 DEF CallOf
  <2> QED BY <2>1, <2>2 DEF UnitOK, Waits, CallOf
<1> QED BY <1>5, <1>6, <1>7, <1>8 DEF UnitOK

(* Every cancelled job is signalled. *)
LEMMA CancelledAll ==
    ASSUME NEW S \in SUBSET UnitCalls, IsFiniteSet(S), NEW signals \in Cancelled(S)
    PROVE  /\ signals \in Seq(Messages)
           /\ \A i \in DOMAIN signals : signals[i].type = "removed" /\ signals[i].call \in S
           /\ \A job \in S : \E i \in DOMAIN signals : signals[i].call = job
<1>1. Cardinality(S) \in Nat
  BY FS_CardinalityType
<1>2. PICK order \in SetToSeqs(S) :
         signals = [i \in DOMAIN order |-> Message("removed", order[i], FALSE)]
  BY DEF Cancelled
<1>3. PICK D : D = 1..Cardinality(S)
  OBVIOUS
<1>4. order \in [D -> S] /\ \A i, j \in D : i # j => order[i] # order[j]
  BY <1>2, <1>3 DEF SetToSeqs
<1>5. order \in Injection(D, S)
  BY <1>4 DEF Injection, IsInjective
<1>6. Cardinality(D) = Cardinality(S)
  BY <1>1, <1>3, FS_Interval
<1>7. order \in Surjection(D, S)
  BY <1>5, <1>6, FS_Injection
<1>8. \A job \in S : \E i \in D : order[i] = job
  BY <1>7 DEF Surjection
<1> QED BY <1>2, <1>4, <1>8, CancelledFacts DEF Message

(* systemd finishes a job. *)
LEMMA FinishUnit ==
    ASSUME CInv, WorldOK, UnitOK, NEW job \in jobs, SystemdFinishes(job)
    PROVE  UnitOK'
<1>1. PICK ok : inbox' = Append(inbox, Message("removed", job, ok))
  BY Zenon DEF SystemdFinishes
<1>2. PICK m : m = Message("removed", job, ok)
  OBVIOUS
<1>3. m.type = "removed" /\ m.call = job
  BY <1>2 DEF Message
<1>4. UNCHANGED <<chain, reply, calls>> /\ jobs' = jobs \ {job}
  BY DEF SystemdFinishes, daemonVars
<1>5. PICK e \in Nat : e = Len(inbox) /\ inbox \in Seq(Messages)
  BY DEF WorldOK
<1>6. /\ DOMAIN inbox' = 1..(e + 0 + 1) /\ inbox'[e + 0 + 1] = m
      /\ \A i \in 1..e : inbox'[i] = inbox[i]
  BY <1>1, <1>2, <1>5
<1>7. Sends(0, m)
  BY <1>5, <1>6 DEF Sends
<1>8. JobsSignalled
  <2>1. e + 1 \in DOMAIN inbox' /\ e + 1 > Len(inbox) /\ inbox'[e + 1] = m
    BY <1>5, <1>6
  <2> QED BY <1>3, <1>4, <2>1 DEF JobsSignalled, IsReply
<1> QED BY <1>3, <1>4, <1>7, <1>8, SendUnit

(* After StopUnit is accepted there is a stop job of the slice. *)
LEMMA StopJobThere ==
    ASSUME WorldOK, NEW call \in UnitCalls, NEW s, s = Slice[call.ent], NEW starts,
           \A job \in starts : job.what = "slice",
           jobs' = (jobs \ starts) \cup StopJobs(call.req, s)
    PROVE  \E job \in jobs' : job.what = "stopUnit" /\ Slice[job.ent] = s
<1>1. CASE JobsOn({s}, "stopUnit") # {}
  <2>1. PICK job \in jobs : job.what = "stopUnit" /\ Slice[job.ent] = s
    BY <1>1 DEF JobsOn
  <2> QED BY <2>1
<1>2. CASE JobsOn({s}, "stopUnit") = {}
  <2>1. PICK m : m = CHOOSE n \in Names : Slice[n] = s
    OBVIOUS
  <2>2. [req |-> call.req, what |-> "stopUnit", ent |-> m] \in StopJobs(call.req, s)
    BY <1>2, <2>1 DEF StopJobs
  <2>3. \E n \in Names : Slice[n] = s
    BY DEF UnitCalls
  <2>4. Slice[m] = s
    BY <2>1, <2>3
  <2>5. PICK job \in jobs' : job = [req |-> call.req, what |-> "stopUnit", ent |-> m]
    BY <2>2
  <2> QED BY <2>4, <2>5
<1> QED BY <1>1, <1>2

(* The start jobs that a stop job of slice s cancels. *)
Starts(s) == JobsOn({s} \cup Inside[s], "slice")

(* A call is refused when it fails, its slice is there already, or its process is not. *)
Exists(call) ==
    /\ call.what = "slice"
    /\ \/ Slice[call.ent] \in unit
       \/ JobsOn({Slice[call.ent]}, "slice") \cup JobsOn({Slice[call.ent]}, "stopUnit") # {}
MayRefuse(call) ==
    Exists(call) \/ "call" \in Faults \/ (call.what = "scope" /\ proc[call.ent] # "running")

(* systemd signals l jobs of S, replies to its first call, and accepts it or not. *)
Handled(call, l, S, ok) ==
    /\ calls # <<>> /\ call = Head(calls) /\ calls' = Tail(calls)
    /\ Sends(l, Message("reply", call, ok)) /\ JobsSignalled
    /\ \A i \in (Len(inbox) + 1)..(Len(inbox) + l) : inbox'[i].call \in S
    /\ \/ ~ok /\ S = {} /\ MayRefuse(call) /\ UNCHANGED jobs
       \/ ok /\ call.what # "stopUnit" /\ S = {} /\ jobs' = jobs \cup {call}
       \/ /\ ok /\ call.what = "stopUnit" /\ S = Starts(Slice[call.ent])
          /\ jobs' = (jobs \ S) \cup StopJobs(call.req, Slice[call.ent])

(* systemd handles a call. *)
LEMMA HandleEffect ==
    ASSUME WorldOK, SystemdHandles
    PROVE  \E call \in UnitCalls, l \in Nat, S \in SUBSET UnitCalls, ok \in BOOLEAN :
              Handled(call, l, S, ok)
<1>1. calls # <<>> /\ calls' = Tail(calls)
  BY DEF SystemdHandles
<1>2. PICK call \in UnitCalls : call = Head(calls)
  BY <1>1, TailFacts DEF WorldOK
<1>3. PICK s : s = Slice[call.ent]
  OBVIOUS
<1>4. PICK starts : starts = Starts(s)
  OBVIOUS
<1>5. /\ starts \subseteq UnitCalls /\ IsFiniteSet(starts) /\ \A job \in starts : job.what = "slice"
      /\ {} \subseteq UnitCalls /\ IsFiniteSet({})
  <2>1. starts \subseteq jobs
    BY <1>4 DEF Starts, JobsOn
  <2> QED BY <1>4, <2>1, FS_Subset, FS_EmptySet DEF WorldOK, Starts, JobsOn
<1>6. \/ /\ call.what = "stopUnit" /\ jobs' = (jobs \ starts) \cup StopJobs(call.req, s)
         /\ \E signals \in Cancelled(starts) :
               inbox' = inbox \o signals \o <<Message("reply", call, TRUE)>>
      \/ /\ call.what # "stopUnit" /\ jobs' = jobs \cup {call}
         /\ \E signals \in Cancelled({}) :
               inbox' = inbox \o signals \o <<Message("reply", call, TRUE)>>
      \/ inbox' = Append(inbox, Message("reply", call, FALSE)) /\ MayRefuse(call) /\ UNCHANGED jobs
  BY <1>2, <1>3, <1>4 DEF SystemdHandles, Starts, MayRefuse, Exists, Outcomes
<1>7. \A ok \in BOOLEAN :
         /\ Message("reply", call, ok) \in Messages /\ Message("reply", call, ok).ok = ok
         /\ Message("reply", call, ok).type = "reply" /\ Message("reply", call, ok).call = call
  BY DEF Message, Messages
<1>8. PICK e \in Nat : e = Len(inbox) /\ inbox \in Seq(Messages)
  BY DEF WorldOK
<1>9. CASE inbox' = Append(inbox, Message("reply", call, FALSE)) /\ MayRefuse(call) /\ UNCHANGED jobs
  <2>1. PICK m \in Messages : m = Message("reply", call, FALSE)
    BY <1>7
  <2>3. /\ DOMAIN inbox' = 1..(e + 0 + 1) /\ inbox'[e + 0 + 1] = m
        /\ \A i \in 1..e : inbox'[i] = inbox[i]
    <3>1. inbox' = Append(inbox, m)
      BY <1>9, <2>1
    <3> QED BY <1>8, <3>1
  <2>4. Sends(0, m)
    BY <1>8, <2>3 DEF Sends
  <2>5. JobsSignalled
    BY <1>9 DEF JobsSignalled
  <2>6. \A i \in (e + 1)..(e + 0) : FALSE
    OBVIOUS
  <2>7. Handled(call, 0, {}, FALSE)
    BY <1>1, <1>2, <1>8, <1>9, <2>1, <2>4, <2>5, <2>6 DEF Handled
  <2> QED BY <1>2, <2>7
<1>10. ASSUME NEW S, S \subseteq UnitCalls, IsFiniteSet(S), NEW signals \in Cancelled(S),
              inbox' = inbox \o signals \o <<Message("reply", call, TRUE)>>,
              jobs \ S \subseteq jobs'
       PROVE  \E l \in Nat :
                 /\ Sends(l, Message("reply", call, TRUE)) /\ JobsSignalled
                 /\ \A i \in (Len(inbox) + 1)..(Len(inbox) + l) : inbox'[i].call \in S
  <2>1. PICK m \in Messages : m = Message("reply", call, TRUE)
    BY <1>7
  <2>3. /\ signals \in Seq(Messages)
        /\ \A i \in DOMAIN signals : signals[i].type = "removed" /\ signals[i].call \in S
        /\ \A job \in S : \E i \in DOMAIN signals : signals[i].call = job
    BY <1>10, CancelledAll
  <2>4. PICK l \in Nat : l = Len(signals) /\ DOMAIN signals = 1..l
    BY <2>3
  <2>5. PICK t \in Seq(Messages) : t = inbox \o signals
    BY <1>8, <2>3, ConcatFacts
  <2>6. /\ Len(t) = e + l /\ \A i \in 1..e : t[i] = inbox[i]
        /\ \A i \in 1..l : t[i + e] = signals[i]
    BY <1>8, <2>3, <2>4, <2>5, ConcatFacts
  <2>7. inbox' = t \o <<m>> /\ <<m>> \in Seq(Messages) /\ Len(<<m>>) = 1 /\ <<m>>[1] = m
    <3>1. inbox' = t \o <<m>>
      BY <1>10, <2>1, <2>5
    <3> QED BY <3>1
  <2>8. /\ DOMAIN inbox' = 1..(e + l + 1) /\ \A i \in 1..(e + l) : inbox'[i] = t[i]
        /\ inbox'[1 + (e + l)] = m
    <3>1. /\ DOMAIN (t \o <<m>>) = 1..(Len(t) + 1)
          /\ \A i \in 1..Len(t) : (t \o <<m>>)[i] = t[i]
          /\ (t \o <<m>>)[1 + Len(t)] = m
      BY <2>7, ConcatFacts
    <3> QED BY <2>6, <2>7, <3>1
  <2>9. \A i \in (e + 1)..(e + l) : inbox'[i].type = "removed" /\ inbox'[i].call \in S
    <3>1. ASSUME NEW i \in (e + 1)..(e + l) PROVE inbox'[i].type = "removed" /\ inbox'[i].call \in S
      <4>1. i - e \in 1..l /\ (i - e) + e = i /\ i \in 1..(e + l)
        OBVIOUS
      <4>2. inbox'[i] = signals[i - e]
        BY <2>6, <2>8, <4>1
      <4> QED BY <2>3, <2>4, <4>1, <4>2
    <3> QED BY <3>1
  <2>10. Sends(l, m)
    <3>1. \A i \in 1..e : i \in 1..(e + l)
      OBVIOUS
    <3>2. 1 + (e + l) = e + l + 1
      OBVIOUS
    <3> QED BY <1>8, <2>6, <2>8, <2>9, <3>1, <3>2 DEF Sends
  <2>11. JobsSignalled
    <3>1. ASSUME NEW job \in S
          PROVE  \E i \in DOMAIN inbox' : i > Len(inbox) /\ ~IsReply(i)' /\ inbox'[i].call = job
      <4>1. PICK i \in 1..l : signals[i].call = job
        BY <2>3, <2>4
      <4>2. PICK j \in Nat : j = i + e
        OBVIOUS
      <4>3. j \in (e + 1)..(e + l) /\ j \in 1..(e + l) /\ j \in 1..(e + l + 1) /\ j > e
        BY <4>2
      <4>4. inbox'[j] = signals[i]
        BY <2>6, <2>8, <4>2, <4>3
      <4>5. j \in DOMAIN inbox' /\ inbox'[j].type = "removed" /\ inbox'[j].call = job
        BY <2>8, <2>9, <4>1, <4>3, <4>4
      <4> QED BY <1>8, <4>3, <4>5 DEF IsReply
    <3> QED BY <1>10, <3>1 DEF JobsSignalled
  <2> QED BY <1>8, <2>1, <2>9, <2>10, <2>11
<1>11. ASSUME NEW S \in SUBSET UnitCalls, IsFiniteSet(S), jobs \ S \subseteq jobs',
              \E signals \in Cancelled(S) :
                 inbox' = inbox \o signals \o <<Message("reply", call, TRUE)>>,
              \/ call.what # "stopUnit" /\ S = {} /\ jobs' = jobs \cup {call}
              \/ /\ call.what = "stopUnit" /\ S = Starts(Slice[call.ent])
                 /\ jobs' = (jobs \ S) \cup StopJobs(call.req, Slice[call.ent])
       PROVE  \E l \in Nat : Handled(call, l, S, TRUE)
  <2>1. PICK l \in Nat : /\ Sends(l, Message("reply", call, TRUE)) /\ JobsSignalled
                         /\ \A i \in (Len(inbox) + 1)..(Len(inbox) + l) : inbox'[i].call \in S
    BY <1>10, <1>11
  <2>2. Handled(call, l, S, TRUE)
    BY <1>1, <1>2, <1>11, <2>1 DEF Handled
  <2> QED BY <2>2
<1>12. CASE call.what = "stopUnit" /\ jobs' = (jobs \ starts) \cup StopJobs(call.req, s)
            /\ \E signals \in Cancelled(starts) :
                  inbox' = inbox \o signals \o <<Message("reply", call, TRUE)>>
  <2>1. \E l \in Nat : Handled(call, l, starts, TRUE)
    BY <1>3, <1>4, <1>5, <1>11, <1>12
  <2> QED BY <1>2, <1>5, <2>1
<1>13. CASE call.what # "stopUnit" /\ jobs' = jobs \cup {call}
            /\ \E signals \in Cancelled({}) :
                  inbox' = inbox \o signals \o <<Message("reply", call, TRUE)>>
  <2>1. \E l \in Nat : Handled(call, l, {}, TRUE)
    BY <1>5, <1>11, <1>13
  <2> QED BY <1>2, <1>5, <2>1
<1> QED BY <1>6, <1>9, <1>12, <1>13

(* A call that is accepted has the job its caller will wait for. *)
LEMMA HandleUnit ==
    ASSUME CInv, WorldOK, UnitOK, SystemdHandles
    PROVE  UnitOK'
<1>1. UNCHANGED <<chain, reply>>
  BY DEF SystemdHandles, daemonVars
<1> PICK call \in UnitCalls, l \in Nat, S \in SUBSET UnitCalls, ok \in BOOLEAN :
       Handled(call, l, S, ok)
  BY HandleEffect
<1> PICK m : m = Message("reply", call, ok)
  OBVIOUS
<1>2. m.type = "reply" /\ m.call = call /\ m.ok = ok
  BY DEF Message
<1>3. ok => \E job \in jobs' : Serves(job, call.what, call.req, call.ent)
  <2>1. CASE call.what = "stopUnit" /\ ok
    <3>1. S = Starts(Slice[call.ent]) /\ jobs' = (jobs \ S) \cup StopJobs(call.req, Slice[call.ent])
      BY <2>1 DEF Handled
    <3>2. \A job \in S : job.what = "slice"
      BY <3>1 DEF Starts, JobsOn
    <3>3. \E job \in jobs' : job.what = "stopUnit" /\ Slice[job.ent] = Slice[call.ent]
      BY <3>1, <3>2, StopJobThere
    <3> QED BY <2>1, <3>3 DEF Serves
  <2>2. CASE call.what # "stopUnit"
    BY <2>2 DEF Handled, Serves
  <2> QED BY <2>1, <2>2
<1> QED BY <1>1, <1>2, <1>3, SendUnit DEF Handled

-----------------------------------------------------------------------------
(* The four things a step of the coroutine on top of the stack can do. *)

(* It gets in line. *)
Queues(r) ==
    /\ ~Gone(r)' /\ Pc(r)' = "queued" /\ Ent(r)' = Ent(r) /\ Depth(r)' = Depth(r)
    /\ queue' = [queue EXCEPT ![Ent(r)] = Append(@, <<r, Depth(r)>>)]
    /\ UNCHANGED <<calls, ecalls, proc>>

(* It goes on, returns to the coroutine that awaits it, or ends. *)
GoesOn(r) ==
    /\ Gone(r)' \/ (~Gone(r)' /\ Pc(r)' \in RunPcs /\ OnTop(r)')
    /\ \A n \in Names : n # Ent(r) \/ Pc(r) # "spawn" => proc'[n] = proc[n]
    /\ UNCHANGED <<queue, calls, ecalls>>

(* It calls systemd. *)
CallsSystemd(r) ==
    /\ ~Gone(r)' /\ Pc(r)' = "slice" /\ Ent(r)' = Ent(r)
    /\ calls' = Append(calls, Call(r, "slice"))
    /\ Pc(r) = "spawn" /\ \A n \in Names : n # Ent(r) => proc'[n] = proc[n]
    /\ UNCHANGED <<queue, ecalls>>

(* It calls its entityd. *)
CallsEntityd(r) ==
    /\ ~Gone(r)' /\ Pc(r)' \in BusPcs /\ Ent(r)' = Ent(r) /\ Pc(r) \in {"components", "entered"}
    /\ ecalls' = [ecalls EXCEPT ![Ent(r)] = Append(@, Call(r, Pc(r)'))]
    /\ UNCHANGED <<queue, calls, proc>>

(* The coroutine that runs is on top of the call stack. *)
LEMMA OnTopFacts ==
    ASSUME CInv, NEW r \in Requests, NEW pc, Running(r, pc)
    PROVE  ~Gone(r) /\ Pc(r) = pc /\ OnTop(r) /\ Tail(stack) \in Seq(StackItems)
<1>1. /\ stack # <<>> /\ Head(stack) = Run(r) /\ chain[r] # <<>> /\ Frame(r).pc = pc
  BY RunningFacts
<1>2. stack \in Seq(StackItems)
  BY DEF CInv, StackOK
<1> QED BY <1>1, <1>2, TailFacts DEF Gone, Pc, OnTop

(* No chain changes. *)
LEMMA StayEffect ==
    ASSUME NEW r, UNCHANGED <<chain, stack>>
    PROVE  /\ Only(r) /\ Same(r)
           /\ OnTop(r)' = OnTop(r)
BY SameFacts DEF Only, OnTop

(* co_await enqueue(). *)
LEMMA EnqueueEffect ==
    ASSUME CInv, WorldOK, NEW r \in Requests, Enqueue(r)
    PROVE  Only(r) /\ (Queues(r) \/ GoesOn(r))
<1> USE DEF Pcs, RunPcs
<1>1. /\ ~Gone(r) /\ Pc(r) = "enqueue" /\ OnTop(r)
      /\ UNCHANGED <<calls, ecalls, proc, inbox, jobs, eanswers>>
  BY OnTopFacts DEF Enqueue, worldVars, entitydVars, systemdVars
<1>2. CASE /\ queue' = [queue EXCEPT ![Frame(r).ent] = Append(@, <<r, Depth(r)>>)]
           /\ chain' = At(r, "queued")
  BY <1>1, <1>2, AtEffect DEF Queues, Ent
<1>3. CASE UNCHANGED <<queue, stack>> /\ chain' = At(r, "entered")
  BY <1>1, <1>3, AtEffect DEF GoesOn, OnTop
<1> QED BY <1>2, <1>3, Zenon DEF Enqueue, Suspend

(* start() goes on with its uplink, or without one. *)
LEMMA StartUplinkEffect ==
    ASSUME CInv, WorldOK, NEW r \in Requests, StartUplink(r)
    PROVE  Only(r) /\ GoesOn(r)
<1> USE DEF Pcs, RunPcs
<1>1. /\ ~Gone(r) /\ Pc(r) = "entered" /\ OnTop(r)
      /\ UNCHANGED <<queue, stack, calls, ecalls, proc>>
  BY OnTopFacts DEF StartUplink, worldVars, entitydVars, systemdVars, queueVars
<1>2. CASE chain' = At(r, "spawn")
  BY <1>1, <1>2, AtEffect DEF GoesOn, OnTop
<1>3. ASSUME NEW u, chain' = [At(r, "uplink") EXCEPT ![r] = Append(@, NewFrame(u))]
      PROVE  Only(r) /\ GoesOn(r)
  BY <1>1, <1>3, UplinkEffect DEF GoesOn, OnTop
<1> QED BY <1>2, <1>3, Zenon DEF StartUplink

(* Every step of a running coroutine is one of the four. *)
LEMMA RunEffect ==
    ASSUME CInv, WorldOK, NEW r \in Requests, RunStep(r)
    PROVE  /\ Only(r) /\ RepliesKept /\ ~Gone(r) /\ Pc(r) \in RunPcs /\ OnTop(r)
           /\ UNCHANGED <<inbox, jobs, eanswers>>
           /\ Queues(r) \/ GoesOn(r) \/ CallsSystemd(r) \/ CallsEntityd(r)
<1> USE DEF Pcs, RunPcs, worldVars, entitydVars, systemdVars, queueVars
<1>1. \E pc \in RunPcs : Running(r, pc)
  BY DEF RunStep, Enqueue, StartAlreadyLive, StartUplink, DanglingCrash, Spawn, SpawnForkFails,
         SpawnAllocFails, SpawnBusFails, SpawnHandshakeFails, Components, StopNotLive, StopShutdown,
         StopBusClosed
<1>2. ~Gone(r) /\ Pc(r) \in RunPcs /\ OnTop(r) /\ Tail(stack) \in Seq(StackItems)
  BY <1>1, OnTopFacts
<1>3. UNCHANGED <<inbox, jobs, eanswers>>
  BY Zenon
     DEF RunStep, Enqueue, StartAlreadyLive, StartUplink, DanglingCrash, Spawn, SpawnForkFails,
         SpawnAllocFails, SpawnBusFails, SpawnHandshakeFails, Components, StopNotLive, StopShutdown,
         StopBusClosed, Abort
<1>4. CASE Enqueue(r) \/ StartUplink(r)
  <2>1. UNCHANGED reply
    BY <1>4 DEF Enqueue, StartUplink
  <2> QED BY <1>2, <1>3, <1>4, <2>1, EnqueueEffect, StartUplinkEffect DEF RepliesKept
<1>5. CASE StartAlreadyLive(r)
  <2>1. Return(r, Tail(stack)) /\ UNCHANGED <<queue, calls, ecalls, proc>>
    BY <1>5 DEF StartAlreadyLive
  <2> QED BY <1>2, <1>3, <2>1, ReturnEffect DEF GoesOn
<1>6. CASE DanglingCrash(r) \/ SpawnHandshakeFails(r) \/ StopBusClosed(r)
  <2>1. UNCHANGED <<reply, chain, stack, queue, calls, ecalls, proc>>
    BY <1>6 DEF DanglingCrash, SpawnHandshakeFails, StopBusClosed, Abort
  <2>2. Only(r) /\ Same(r) /\ OnTop(r)' = OnTop(r)
    BY <2>1, StayEffect
  <2> QED BY <1>2, <1>3, <2>1, <2>2 DEF GoesOn, RepliesKept, Same
<1>7. CASE Spawn(r)
  <2>1. /\ Running(r, "spawn") /\ Spawned(Frame(r).ent, "running") /\ SystemdCall(r, "slice")
        /\ chain' = At(r, "slice") /\ UNCHANGED <<reply, queue, ecalls>>
    BY <1>7 DEF Spawn, Suspend
  <2>2. \A n \in Names : n # Ent(r) => proc'[n] = proc[n]
    BY <2>1 DEF Spawned, Ent
  <2>3. Pc(r) = "spawn"
    BY <2>1, OnTopFacts
  <2> QED BY <1>2, <1>3, <2>1, <2>2, <2>3, AtEffect DEF CallsSystemd, SystemdCall, RepliesKept
<1>8. CASE SpawnForkFails(r)
  <2>1. Unwind(r, Tail(stack)) /\ UNCHANGED <<reply, queue, calls, ecalls, proc>>
    BY <1>8 DEF SpawnForkFails
  <2> QED BY <1>2, <1>3, <2>1, UnwindEffect DEF GoesOn, RepliesKept
<1>9. CASE SpawnAllocFails(r) \/ SpawnBusFails(r)
  <2>1. /\ Running(r, "spawn") /\ Fail(r, Tail(stack)) /\ UNCHANGED <<queue, calls, ecalls>>
        /\ \E e : proc' = [proc EXCEPT ![Frame(r).ent] = e]
    BY <1>9, Zenon DEF SpawnAllocFails, SpawnBusFails, Spawned
  <2>2. \A n \in Names : n # Ent(r) => proc'[n] = proc[n]
    BY <2>1 DEF Ent
  <2>3. Pc(r) = "spawn"
    BY <2>1, OnTopFacts
  <2>4. RepliesKept /\ Only(r) /\ Gone(r)'
    BY <2>1, UnwindEffect, RepliesSet DEF Fail
  <2> QED BY <1>2, <1>3, <2>1, <2>2, <2>3, <2>4 DEF GoesOn
<1>10. CASE Components(r)
  <2>1. UNCHANGED <<queue, proc, calls>> /\ Pc(r) = "components"
    BY <1>10, OnTopFacts DEF Components
  <2>2. \/ Return(r, Tail(stack)) /\ UNCHANGED ecalls
        \/ /\ EntitydCall(r, "component") /\ chain' = At(r, "component") /\ UNCHANGED reply
        \/ UNCHANGED <<reply, chain, stack, ecalls>>
    BY <1>10, Zenon DEF Components, Suspend
  <2>3. CASE Return(r, Tail(stack)) /\ UNCHANGED ecalls
    BY <1>2, <1>3, <2>1, <2>3, ReturnEffect DEF GoesOn
  <2>4. CASE EntitydCall(r, "component") /\ chain' = At(r, "component") /\ UNCHANGED reply
    BY <1>2, <1>3, <2>1, <2>4, AtEffect DEF CallsEntityd, EntitydCall, RepliesKept, Ent, BusPcs
  <2>5. CASE UNCHANGED <<reply, chain, stack, ecalls>>
    <3>1. Only(r) /\ Same(r) /\ OnTop(r)' = OnTop(r)
      BY <2>5, StayEffect
    <3> QED BY <1>2, <1>3, <2>1, <2>5, <3>1 DEF GoesOn, RepliesKept, Same
  <2> QED BY <2>2, <2>3, <2>4, <2>5
<1>11. CASE StopNotLive(r)
  <2>1. Fail(r, Tail(stack)) /\ UNCHANGED <<queue, calls, ecalls, proc>>
    BY <1>11 DEF StopNotLive
  <2>2. RepliesKept /\ Only(r) /\ Gone(r)'
    BY <2>1, UnwindEffect, RepliesSet DEF Fail
  <2> QED BY <1>2, <1>3, <2>1, <2>2 DEF GoesOn
<1>12. CASE StopShutdown(r)
  <2>1. /\ EntitydCall(r, "shutdown") /\ chain' = At(r, "shutdown")
        /\ UNCHANGED <<reply, queue, calls, proc>> /\ Pc(r) = "entered"
    BY <1>12, OnTopFacts DEF StopShutdown, Suspend
  <2> QED BY <1>2, <1>3, <2>1, AtEffect DEF CallsEntityd, EntitydCall, RepliesKept, Ent, BusPcs
<1> QED BY <1>4, <1>5, <1>6, <1>7, <1>8, <1>9, <1>10, <1>11, <1>12 DEF RunStep

(* ~queue_token resumes the first coroutine in line. *)
Resumes(r, n) ==
    /\ Only(r) /\ ~Gone(r) /\ Pc(r) = "queued" /\ Ent(r) = n
    /\ ~Gone(r)' /\ Pc(r)' = "entered" /\ OnTop(r)' /\ Ent(r)' = Ent(r) /\ Depth(r)' = Depth(r)
    /\ queue[n] # <<>> /\ Head(queue[n]) = <<r, Depth(r)>>
    /\ queue' = [queue EXCEPT ![n] = Tail(@)]
    /\ chain' = At(r, "entered")

(* ~queue_token. *)
LEMMA DropEffect ==
    ASSUME CInv, DropToken
    PROVE  /\ \A r : ~OnTop(r)
           /\ UNCHANGED <<reply, calls, jobs, inbox, ecalls, eanswers, proc>>
           /\ UNCHANGED <<chain, queue>> \/ \E r \in Requests, n \in Names : Resumes(r, n)
<1> PICK n, q, w, t : n = Head(stack).ent /\ q = queue[n] /\ w = Head(q) /\ t = Tail(q)
  OBVIOUS
<1>1. /\ stack # <<>> /\ Head(stack).kind = "drop" /\ stack \in Seq(StackItems)
      /\ UNCHANGED <<reply, calls, jobs, inbox, ecalls, eanswers, proc>>
  BY DEF DropToken, worldVars, entitydVars, systemdVars, CInv, StackOK
<1>2. \A r : ~OnTop(r)
  BY <1>1, TailFacts DEF OnTop, Run
<1>3. CASE q = <<>>
  BY <1>1, <1>2, <1>3 DEF DropToken
<1>4. CASE q # <<>>
  <2>1. /\ queue' = [queue EXCEPT ![n] = Tail(@)]
        /\ chain' = Resumed(w)
        /\ stack' = <<Run(w[1])>> \o Tail(stack)
    BY <1>4, Zenon DEF DropToken, Resumed
  <2>2. n \in Names
    <3>1. Head(stack) \in StackItems
      BY <1>1, TailFacts
    <3> QED BY <1>1, <3>1 DEF StackItems
  <2>3. /\ q \in Seq(Coroutines) /\ Distinct(q)
        /\ \A d \in Entries(q) : d \in Coroutines /\ IsQueued(d, n)
    BY <2>2, QueueFacts DEF CInv
  <2>4. w \in Entries(q) /\ w \in Coroutines
    BY <1>4, <2>3, TailDistinct
  <2>5. PICK r \in Requests, k \in Depths : w = <<r, k>>
    BY <2>4 DEF Coroutines
  <2>6. /\ chain[r] # <<>> /\ k = Len(chain[r])
        /\ chain[r][k].ent = n /\ chain[r][k].pc = "queued"
    BY <2>3, <2>4, <2>5 DEF IsQueued
  <2>7. chain' = At(r, "entered") /\ w[1] = r
    BY <2>1, <2>5, <2>6, ResumedAt
  <2>8. ~Gone(r) /\ Pc(r) = "queued" /\ Ent(r) = n /\ w = <<r, Depth(r)>>
    BY <2>5, <2>6 DEF Gone, Pc, Ent, Frame, Depth
  <2>9. Only(r) /\ ~Gone(r)' /\ Pc(r)' = "entered" /\ Ent(r)' = Ent(r) /\ Depth(r)' = Depth(r)
    BY <2>7, <2>8, AtEffect DEF Pcs
  <2>10. OnTop(r)'
    <3>1. Tail(stack) \in Seq(StackItems)
      BY <1>1, TailFacts
    <3> QED BY <2>1, <2>7, <3>1 DEF OnTop
  <2>11. Resumes(r, n)
    BY <1>4, <2>1, <2>7, <2>8, <2>9, <2>10 DEF Resumes
  <2> QED BY <1>1, <1>2, <2>2, <2>11
<1> QED BY <1>3, <1>4

(* A request is refused, or its first frame runs. *)
LEMMA RequestEffect ==
    ASSUME CInv, WorldOK, NEW r \in Requests, NEW o \in Ops, NEW n \in Names, Request(r, o, n)
    PROVE  /\ Only(r) /\ RepliesKept /\ reply[r] = "none" /\ Gone(r) /\ stack = <<>>
           /\ UNCHANGED <<calls, jobs, inbox, ecalls, eanswers, proc, queue>>
           /\ Same(r) \/ (~Gone(r)' /\ Pc(r)' = "enqueue" /\ OnTop(r)')
<1>1. /\ reply[r] = "none" /\ chain[r] = <<>> /\ stack = <<>>
      /\ UNCHANGED <<calls, jobs, inbox, ecalls, eanswers, proc, queue>>
  BY DEF Request, Idle, worldVars, entitydVars, systemdVars, queueVars, CInv, ChainOK
<1>2. CASE /\ reply' = [reply EXCEPT ![r] = "pending"]
           /\ chain' = [chain EXCEPT ![r] = <<NewFrame(n)>>]
           /\ stack' = <<Run(r)>>
  <2>1. /\ chain'[r] = <<NewFrame(n)>> /\ \A s \in Requests : s # r => chain'[s] = chain[s]
    BY <1>2 DEF CInv, ChainOK
  <2>2. ~Gone(r)' /\ Pc(r)' = "enqueue" /\ OnTop(r)'
    BY <1>2, <2>1 DEF Gone, Pc, Frame, Depth, NewFrame, OnTop
  <2>3. RepliesKept
    BY <1>2, RepliesSet
  <2> QED BY <1>1, <2>1, <2>2, <2>3, SameFacts DEF Only, Gone
<1>3. CASE reply' = [reply EXCEPT ![r] = "error"] /\ UNCHANGED <<chain, stack>>
  <2>1. Only(r) /\ Same(r)
    BY <1>3, StayEffect
  <2> QED BY <1>1, <1>3, <2>1, RepliesSet DEF Gone
<1> QED BY <1>2, <1>3 DEF Request

(* sd-bus answers in place of the other side: the request ends. *)
LEMMA FailEffect ==
    ASSUME CInv, WorldOK, NEW r \in Requests, NEW rest, Fail(r, rest)
    PROVE  Only(r) /\ RepliesKept /\ Gone(r)'
BY UnwindEffect, RepliesSet DEF Fail

(* sd-bus answers in place of an entityd or of systemd. *)
LEMMA HangupEffect ==
    ASSUME CInv, WorldOK, NEW r \in Requests,
           EntitydHangup(r) \/ EntitydCallTimesOut(r) \/ SystemdCallTimesOut(r)
    PROVE  /\ Only(r) /\ RepliesKept /\ Gone(r)' /\ stack = <<>>
           /\ UNCHANGED <<calls, jobs, inbox, ecalls, eanswers, proc, queue>>
<1>1. /\ Fail(r, <<>>) /\ stack = <<>>
      /\ UNCHANGED <<calls, jobs, inbox, ecalls, eanswers, proc, queue>>
  BY DEF EntitydHangup, EntitydCallTimesOut, SystemdCallTimesOut, Idle, worldVars, entitydVars,
         systemdVars, queueVars
<1> QED BY <1>1, FailEffect

(* The answer of an entityd resumes the request, or the request is gone. *)
LEMMA ComponentEffect ==
    ASSUME CInv, WorldOK, BusOK, NEW n \in Names, DeliverComponent(n),
           NEW r, r = Head(eanswers[n]).req
    PROVE  /\ r \in Requests /\ Only(r) /\ RepliesKept /\ stack = <<>>
           /\ eanswers[n] # <<>> /\ eanswers' = [eanswers EXCEPT ![n] = Tail(@)]
           /\ UNCHANGED <<calls, jobs, inbox, ecalls, proc, queue>>
           /\ Gone(r)' \/ (~Gone(r) /\ Pc(r) = "component" /\ ~Gone(r)' /\ Pc(r)' = "spawn" /\ OnTop(r)')
<1>1. /\ r \in Requests /\ stack = <<>> /\ Head(eanswers[n]).what = "component"
      /\ eanswers[n] # <<>> /\ eanswers' = [eanswers EXCEPT ![n] = Tail(@)]
      /\ UNCHANGED <<calls, jobs, inbox, ecalls, proc, queue>>
      /\ \/ Awaits(r, "component") /\ Return(r, <<>>)
         \/ ~Awaits(r, "component") /\ UNCHANGED <<reply, chain, stack>>
  BY AnswerFacts DEF DeliverComponent, Idle, systemdVars, queueVars
<1>2. CASE Awaits(r, "component") /\ Return(r, <<>>)
  <2>1. ~Gone(r) /\ Pc(r) = "component" /\ <<>> \in Seq(StackItems)
    BY <1>2 DEF Awaits, Gone, Pc
  <2> QED BY <1>1, <1>2, <2>1, ReturnEffect
<1>3. CASE ~Awaits(r, "component") /\ UNCHANGED <<reply, chain, stack>>
  <2>1. Only(r) /\ Same(r)
    BY <1>3, StayEffect
  <2>2. 1 \in DOMAIN eanswers[n] /\ Head(eanswers[n]) = eanswers[n][1]
    BY <1>1 DEF WorldOK
  <2>3. Gone(r)
    BY <1>1, <1>3, <2>2 DEF BusOK, ExpectedOn, Expected, Awaits, Gone, Pc
  <2> QED BY <1>1, <1>3, <2>1, <2>3 DEF RepliesKept, Same
<1> QED BY <1>1, <1>2, <1>3

(* The answer to Shutdown: the request calls StopUnit, or is gone. *)
LEMMA ShutdownEffect ==
    ASSUME CInv, WorldOK, BusOK, NEW n \in Names, DeliverShutdown(n),
           NEW r, r = Head(eanswers[n]).req
    PROVE  /\ r \in Requests /\ Only(r) /\ RepliesKept /\ stack = <<>> /\ stack' = <<>>
           /\ eanswers[n] # <<>> /\ eanswers' = [eanswers EXCEPT ![n] = Tail(@)]
           /\ \A m \in Names : proc'[m] = "running" => proc[m] = "running"
           /\ UNCHANGED <<jobs, inbox, ecalls, queue>>
           /\ \/ Gone(r)' /\ UNCHANGED calls
              \/ /\ ~Gone(r) /\ Pc(r) = "shutdown" /\ ~Gone(r)' /\ Pc(r)' = "stopUnit"
                 /\ Ent(r)' = Ent(r) /\ Depth(r)' = Depth(r)
                 /\ calls' = Append(calls, Call(r, "stopUnit"))
<1>1. /\ r \in Requests /\ stack = <<>> /\ Head(eanswers[n]).what = "shutdown"
      /\ eanswers[n] # <<>> /\ eanswers' = [eanswers EXCEPT ![n] = Tail(@)]
      /\ UNCHANGED <<jobs, inbox, ecalls, queue, reply>>
      /\ \/ /\ Awaits(r, "shutdown") /\ proc' = [proc EXCEPT ![n] = "none"]
            /\ calls' = Append(calls, Call(r, "stopUnit"))
            /\ chain' = At(r, "stopUnit") /\ stack' = <<>>
         \/ ~Awaits(r, "shutdown") /\ UNCHANGED <<proc, calls, chain, stack>>
  BY AnswerFacts DEF DeliverShutdown, Idle, queueVars, Suspend, SystemdCall
<1>2. CASE /\ Awaits(r, "shutdown") /\ proc' = [proc EXCEPT ![n] = "none"]
           /\ calls' = Append(calls, Call(r, "stopUnit"))
           /\ chain' = At(r, "stopUnit") /\ stack' = <<>>
  <2>1. ~Gone(r) /\ Pc(r) = "shutdown"
    BY <1>2 DEF Awaits, Gone, Pc
  <2>2. Only(r) /\ ~Gone(r)' /\ Pc(r)' = "stopUnit" /\ Ent(r)' = Ent(r) /\ Depth(r)' = Depth(r)
    BY <1>1, <1>2, <2>1, AtEffect DEF Pcs
  <2>3. \A m \in Names : proc'[m] = "running" => proc[m] = "running"
    BY <1>2 DEF WorldOK
  <2> QED BY <1>1, <1>2, <2>1, <2>2, <2>3 DEF RepliesKept
<1>3. CASE ~Awaits(r, "shutdown") /\ UNCHANGED <<proc, calls, chain, stack>>
  <2>1. Only(r) /\ Same(r)
    BY <1>3, StayEffect
  <2>2. 1 \in DOMAIN eanswers[n] /\ Head(eanswers[n]) = eanswers[n][1]
    BY <1>1 DEF WorldOK
  <2>3. Gone(r)
    BY <1>1, <1>3, <2>2 DEF BusOK, ExpectedOn, Expected, Awaits, Gone, Pc
  <2> QED BY <1>1, <1>3, <2>1, <2>3 DEF RepliesKept, Same
<1> QED BY <1>1, <1>2, <1>3

(* Two requests that have the token of the same entity are the same. *)
LEMMA TokenAlone ==
    ASSUME CInv, NEW r \in Requests, ~Gone(r), Pc(r) \notin {"enqueue", "queued"},
           NEW s \in Requests, ~Gone(s), Pc(s) \notin {"enqueue", "queued"}, Ent(r) = Ent(s)
    PROVE  r = s
<1>1. ASSUME NEW x \in Requests, ~Gone(x), Pc(x) \notin {"enqueue", "queued"}
      PROVE  <<x, Depth(x)>> \in Tokens(Ent(x)) /\ Ent(x) \in Names
  <2>1. Depth(x) \in Nat /\ Depth(x) # 0 /\ Depth(x) <= Cardinality(Names) + 1
        /\ DOMAIN chain[x] = 1..Depth(x)
    BY <1>1, CardType DEF CInv, ChainOK, Depth, Gone
  <2>2. Depth(x) \in DOMAIN chain[x] /\ <<x, Depth(x)>> \in Coroutines
    BY <2>1, CardType DEF Coroutines, Depths
  <2>3. Ent(x) \in Names
    BY <1>1, PcType
  <2> QED BY <1>1, <2>2, <2>3 DEF Tokens, Pc, Ent, Frame
<1>2. /\ <<r, Depth(r)>> \in Tokens(Ent(r)) /\ Ent(r) \in Names
      /\ <<s, Depth(s)>> \in Tokens(Ent(s))
  BY <1>1
<1>3. <<r, Depth(r)>> = <<s, Depth(s)>>
  BY <1>2 DEF CInv, TokenOK
<1> QED BY <1>3

(* A signal matches at most one request: the one with the token of the entity. *)
LEMMA OneMatch ==
    ASSUME CInv, SlicesDistinct, NEW call \in UnitCalls,
           NEW r \in Requests, Matches(r, call), NEW s \in Requests, Matches(s, call)
    PROVE  r = s
<1>1. ASSUME NEW x \in Requests, Matches(x, call)
      PROVE  ~Gone(x) /\ Pc(x) \in JobPcs /\ Slice[Ent(x)] = Slice[call.ent] /\ Ent(x) \in Names
  <2>1. ~Gone(x) /\ Pc(x) \in JobPcs
    BY <1>1 DEF Matches, Awaits, JobOf, JobPcs, Gone, Pc
  <2>2. Slice[Ent(x)] = Slice[call.ent]
    BY <1>1 DEF Matches, Call, Ent
  <2> QED BY <2>1, <2>2, PcType
<1>2. Ent(r) = Ent(s)
  BY <1>1 DEF SlicesDistinct
<1>3. \A pc \in JobPcs : pc \notin {"enqueue", "queued"}
  BY DEF JobPcs
<1> QED BY <1>1, <1>2, <1>3, TokenAlone

(* The dispatch of a JobRemoved signal. *)
SignalTo(r) ==
    /\ Only(r) /\ RepliesKept /\ stack = <<>> /\ Taken(r)
    /\ UNCHANGED <<jobs, ecalls, eanswers, proc, queue>>
    /\ \/ Gone(r)' /\ UNCHANGED calls
       \/ /\ ~Gone(r) /\ Pc(r) = "sliceJob" /\ ~Gone(r)' /\ Pc(r)' = "scope" /\ Ent(r)' = Ent(r)
          /\ calls' = Append(calls, Call(r, "scope"))
       \/ /\ ~Gone(r) /\ Pc(r) \in JobPcs /\ ~Gone(r)' /\ Pc(r)' \in {"components", "spawn"}
          /\ OnTop(r)' /\ UNCHANGED calls /\ (Pc(r) = "scopeJob" \/ Depth(r) # 1)
       \/ Same(r) /\ UNCHANGED calls /\ ~Matches(r, inbox[1].call)

(* A JobRemoved signal is dispatched to one request, or to none. *)
LEMMA SignalEffect ==
    ASSUME CInv, WorldOK, SlicesDistinct, DeliverJobRemoved
    PROVE  \E r \in Requests : SignalTo(r)
<1>1. /\ stack = <<>> /\ inbox # <<>> /\ ~IsReply(1) /\ Head(inbox) = inbox[1] /\ 1 \in DOMAIN inbox
      /\ inbox' = Tail(inbox)
      /\ UNCHANGED <<jobs, ecalls, eanswers, proc, queue>>
  <2>1. inbox \in Seq(Messages)
    BY DEF WorldOK
  <2> QED BY <2>1 DEF DeliverJobRemoved, Idle, IsReply, entitydVars, queueVars
<1>2. ASSUME NEW r \in Requests, Matches(r, Head(inbox).call) PROVE Taken(r)
  BY <1>1, <1>2, InboxItem, OneMatch DEF Taken
<1>3. ASSUME NEW r \in Requests, Matches(r, Head(inbox).call), Fail(r, <<>>), UNCHANGED calls
      PROVE  SignalTo(r)
  BY <1>1, <1>2, <1>3, FailEffect DEF SignalTo
<1>4. ASSUME NEW r \in Requests, Matches(r, Head(inbox).call), JobDone(r)
      PROVE  SignalTo(r)
  <2>1. Taken(r)
    BY <1>2, <1>4
  <2>2. CASE /\ Awaits(r, "sliceJob") /\ SystemdCall(r, "scope") /\ chain' = At(r, "scope")
             /\ UNCHANGED reply
    <3>1. ~Gone(r) /\ Pc(r) = "sliceJob"
      BY <2>2 DEF Awaits, Gone, Pc
    <3> QED BY <1>1, <2>1, <2>2, <3>1, AtEffect DEF SignalTo, SystemdCall, Pcs, RepliesKept
  <2>3. CASE /\ Awaits(r, "scopeJob") /\ chain' = At(r, "components") /\ stack' = <<Run(r)>>
             /\ UNCHANGED <<calls, reply>>
    <3>1. ~Gone(r) /\ Pc(r) = "scopeJob"
      BY <2>3 DEF Awaits, Gone, Pc
    <3>2. OnTop(r)'
      BY <2>3 DEF OnTop
    <3> QED BY <1>1, <2>1, <2>3, <3>1, <3>2, AtEffect DEF SignalTo, Pcs, RepliesKept, JobPcs
  <2>4. CASE Awaits(r, "stopJob") /\ Return(r, <<>>) /\ UNCHANGED calls
    <3>1. ~Gone(r) /\ Pc(r) = "stopJob" /\ <<>> \in Seq(StackItems)
      BY <2>4 DEF Awaits, Gone, Pc
    <3> QED BY <1>1, <2>1, <2>4, <3>1, ReturnEffect DEF SignalTo, JobPcs
  <2> QED BY <1>4, <2>2, <2>3, <2>4, Zenon DEF JobDone, Suspend
<1>5. CASE Ignored(Head(inbox).call)
  <2>1. PICK r \in Requests : TRUE
    BY <1>1, InboxItem
  <2>2. Only(r) /\ Same(r)
    BY <1>5, StayEffect DEF Ignored
  <2>3. Taken(r) /\ ~Matches(r, inbox[1].call) /\ UNCHANGED <<calls, reply>>
    BY <1>1, <1>5 DEF Ignored, Taken
  <2>4. SignalTo(r)
    BY <1>1, <2>2, <2>3 DEF SignalTo, RepliesKept
  <2> QED BY <2>4
<1> QED BY <1>3, <1>4, <1>5, Zenon DEF DeliverJobRemoved

-----------------------------------------------------------------------------
(* Every step, as seen by the buses of the entityds. *)

(* Nothing of request r is under way to or from entityd n. *)
SilentOn(r, n) ==
    /\ \A i \in DOMAIN ecalls[n] : ecalls[n][i].req # r
    /\ \A i \in DOMAIN eanswers[n] : eanswers[n][i].req # r

(* No process that a request waits for is replaced by a new one. *)
NoneReplaced ==
    \A s \in Requests : ~Gone(s) /\ Pc(s) \in BusPcs =>
        (proc'[Ent(s)] = "running" => proc[Ent(s)] = "running")

(* A message to or from an entityd is a call of a request. *)
LEMMA BusItem ==
    ASSUME WorldOK, NEW n \in Names
    PROVE  /\ \A i \in DOMAIN ecalls[n] : ecalls[n][i] \in Calls /\ ecalls[n][i].req \in Requests
           /\ \A i \in DOMAIN eanswers[n] : eanswers[n][i] \in Calls /\ eanswers[n][i].req \in Requests
<1>1. ecalls[n] \in Seq(Calls) /\ eanswers[n] \in Seq(Calls)
  BY DEF WorldOK
<1>2. \A c \in Calls : c.req \in Requests
  BY DEF Calls
<1> QED BY <1>1, <1>2

(* Messages to and from entityds are about what an entityd is asked for. *)
BusWhats ==
    \A n \in Names :
        /\ \A i \in DOMAIN ecalls[n] : ecalls[n][i].what \in BusPcs
        /\ \A i \in DOMAIN eanswers[n] : eanswers[n][i].what \in BusPcs

(* A request that does not wait for an entityd has nothing under way to one. *)
LEMMA SilentOnFacts ==
    ASSUME WorldOK, BusOK, BusWhats, NEW r \in Requests, NEW n \in Names,
           reply[r] = "none" \/ (~Gone(r) /\ Pc(r) \notin BusPcs)
    PROVE  SilentOn(r, n)
BY DEF SilentOn, BusOK, BusWhats, ExpectedOn, Expected

(* A request that spawns an entityd is the only one that uses the entity. *)
LEMMA SpawnsAlone ==
    ASSUME CInv, NEW r \in Requests, ~Gone(r), Pc(r) = "spawn",
           NEW s \in Requests, ~Gone(s), Pc(s) \in BusPcs
    PROVE  Ent(s) # Ent(r)
BY TokenAlone DEF BusPcs

(* A message to or from an entityd stays expected. *)
LEMMA ExpectedOnKept ==
    ASSUME WorldOK, BusOK, RepliesKept, NEW r \in Requests, Only(r), NEW n \in Names,
           Same(r) \/ Gone(r)' \/ SilentOn(r, n),
           NEW c, \/ \E i \in DOMAIN ecalls[n] : c = ecalls[n][i]
                  \/ \E i \in DOMAIN eanswers[n] : c = eanswers[n][i]
    PROVE  Expected(c.req, c.what, n)'
<1>1. c.req \in Requests /\ Expected(c.req, c.what, n)
  BY BusItem DEF BusOK, ExpectedOn
<1>2. Same(c.req) \/ Gone(c.req)'
  BY <1>1 DEF Only, SilentOn
<1> QED BY <1>1, <1>2, ExpectedKept

(* A step of r that leaves the calls to entityds alone. *)
LEMMA MoverBus ==
    ASSUME CInv, WorldOK, BusOK, BusWhats, RepliesKept, UNCHANGED <<ecalls, eanswers>>,
           NEW r \in Requests, Only(r), NoneReplaced,
           \/ Gone(r)'
           \/ /\ ~Gone(r)' /\ Pc(r)' \notin BusPcs
              /\ reply[r] = "none" \/ (~Gone(r) /\ Pc(r) \notin BusPcs)
           \/ Same(r)
    PROVE  BusOK'
<1>1. ASSUME NEW n \in Names PROVE Same(r) \/ Gone(r)' \/ SilentOn(r, n)
  BY SilentOnFacts
<1>2. ExpectedOn(ecalls)' /\ ExpectedOn(eanswers)'
  <2>1. ASSUME NEW n \in Names, NEW i \in DOMAIN ecalls[n]
        PROVE  Expected(ecalls[n][i].req, ecalls[n][i].what, n)'
    <3>1. PICK c : c = ecalls[n][i]
      OBVIOUS
    <3>2. Expected(c.req, c.what, n)'
      BY <1>1, <3>1, ExpectedOnKept
    <3>3. ecalls'[n][i] = c
      BY <3>1
    <3> QED BY <3>2, <3>3
  <2>2. ASSUME NEW n \in Names, NEW i \in DOMAIN eanswers[n]
        PROVE  Expected(eanswers[n][i].req, eanswers[n][i].what, n)'
    <3>1. PICK c : c = eanswers[n][i]
      OBVIOUS
    <3>2. Expected(c.req, c.what, n)'
      BY <1>1, <3>1, ExpectedOnKept
    <3>3. eanswers'[n][i] = c
      BY <3>1
    <3> QED BY <3>2, <3>3
  <2>3. ecalls' = ecalls /\ eanswers' = eanswers
    OBVIOUS
  <2> QED BY <2>1, <2>2, <2>3 DEF ExpectedOn
<1>3. OneOnBus'
  BY DEF BusOK, OneOnBus
<1>4. ASSUME NEW s \in Requests, ~Gone(s)', Pc(s)' \in BusPcs PROVE AnswerComing(s, Ent(s))'
  <2>1. Same(s)
    BY <1>4 DEF Only
  <2>2. PICK n : n = Ent(s)
    OBVIOUS
  <2>3. AnswerComing(s, n) /\ (proc'[n] = "running" => proc[n] = "running") /\ Ent(s)' = n
    BY <1>4, <2>1, <2>2 DEF BusOK, NoneReplaced, Same
  <2>4. AnswerComing(s, n)'
    BY <2>3 DEF AnswerComing
  <2> QED BY <2>3, <2>4 DEF AnswerComing
<1> QED BY <1>2, <1>3, <1>4 DEF BusOK

(* t is a with c added at the end; the messages of t and b differ. *)
Appended(a, b, c, t) ==
    /\ OneOn(t, b)
    /\ \A i \in DOMAIN t : t[i] = c \/ (i \in DOMAIN a /\ t[i] = a[i])
    /\ \A i \in DOMAIN a : i \in DOMAIN t /\ t[i] = a[i]
    /\ \E i \in DOMAIN t : t[i] = c

(* t is b without its first message, whose request has no other in a and t. *)
Popped(a, b, t) ==
    /\ OneOn(a, t) /\ Head(b) = b[1] /\ 1 \in DOMAIN b
    /\ \A i \in DOMAIN a : a[i].req # b[1].req
    /\ \A i \in DOMAIN t : t[i].req # b[1].req
    /\ \A i \in DOMAIN t : \E j \in DOMAIN b : t[i] = b[j]
    /\ \A i \in DOMAIN b : i = 1 \/ \E j \in DOMAIN t : t[j] = b[i]

(* A message of a request that has none is added. *)
LEMMA OneAppend ==
    ASSUME NEW a \in Seq(Calls), NEW b \in Seq(Calls), OneOn(a, b), NEW c \in Calls,
           \A i \in DOMAIN a : a[i].req # c.req, \A i \in DOMAIN b : b[i].req # c.req
    PROVE  Appended(a, b, c, Append(a, c))
<1> PICK t : t = Append(a, c)
  OBVIOUS
<1>1. PICK k \in Nat : k = Len(a) + 1 /\ DOMAIN a = 1..(k - 1)
  OBVIOUS
<1>2. /\ DOMAIN t = DOMAIN a \cup {k} /\ k \notin DOMAIN a /\ t[k] = c
      /\ \A i \in DOMAIN a : t[i] = a[i]
  BY <1>1
<1>3. Appended(a, b, c, t)
  BY <1>2 DEF OneOn, Appended
<1> QED BY <1>3

(* The first message is taken. *)
LEMMA OneTail ==
    ASSUME NEW a \in Seq(Calls), NEW b \in Seq(Calls), OneOn(a, b), b # <<>>
    PROVE  Popped(a, b, Tail(b))
<1> PICK t : t = Tail(b)
  OBVIOUS
<1>1. /\ 1 \in DOMAIN b /\ Head(b) = b[1]
      /\ \A i \in DOMAIN t : i \in Nat /\ i + 1 # 1 /\ i + 1 \in DOMAIN b /\ t[i] = b[i + 1]
      /\ \A i \in DOMAIN b : i # 1 => i - 1 \in DOMAIN t /\ t[i - 1] = b[i]
  OBVIOUS
<1>2. \A i, j \in DOMAIN t : i + 1 = j + 1 => i = j
  BY <1>1
<1>3. OneOn(a, t)
  BY <1>1, <1>2 DEF OneOn
<1>4. /\ \A i \in DOMAIN a : a[i].req # b[1].req
      /\ \A i \in DOMAIN t : t[i].req # b[1].req
  BY <1>1 DEF OneOn
<1>5. \A i \in DOMAIN b : i = 1 \/ \E j \in DOMAIN t : t[j] = b[i]
  BY <1>1
<1>6. Popped(a, b, t)
  BY <1>1, <1>3, <1>4, <1>5 DEF Popped
<1> QED BY <1>6

(* The order of the two sequences does not matter. *)
LEMMA OneSwap ==
    ASSUME NEW a, NEW b, OneOn(a, b)
    PROVE  OneOn(b, a) /\ OneOn(<<>>, b)
BY DEF OneOn

(* The first message of a moves to the end of b. *)
LEMMA OneMove ==
    ASSUME NEW a \in Seq(Calls), NEW b \in Seq(Calls), OneOn(a, b), a # <<>>
    PROVE  /\ OneOn(Tail(a), Append(b, Head(a))) /\ OneOn(<<>>, Append(b, Head(a)))
           /\ Popped(b, a, Tail(a)) /\ Appended(b, Tail(a), Head(a), Append(b, Head(a)))
<1> PICK t, c : t = Tail(a) /\ c = Head(a)
  OBVIOUS
<1>1. Popped(b, a, t)
  BY OneSwap, OneTail
<1>2. /\ OneOn(b, t) /\ c = a[1]
      /\ \A i \in DOMAIN b : b[i].req # c.req
      /\ \A i \in DOMAIN t : t[i].req # c.req
  BY <1>1 DEF Popped
<1>3. t \in Seq(Calls) /\ c \in Calls
  BY TailFacts
<1>4. Appended(b, t, c, Append(b, c))
  BY <1>2, <1>3, OneAppend
<1>5. OneOn(Append(b, c), t)
  BY <1>4 DEF Appended
<1> QED BY <1>1, <1>4, <1>5, OneSwap

(* A step of r that calls its entityd. *)
LEMMA CallBus ==
    ASSUME CInv, WorldOK, BusOK, BusWhats, RepliesKept, eanswers' = eanswers,
           NEW r \in Requests, Only(r), ~Gone(r), Pc(r) \notin BusPcs, CallsEntityd(r)
    PROVE  BusOK' /\ BusWhats'
<1> PICK m, what, c : m = Ent(r) /\ what = Pc(r)' /\ c = Call(r, what)
  OBVIOUS
<1>1. /\ m \in Names /\ what \in BusPcs /\ c \in Calls /\ c.req = r /\ c.what = what
      /\ ~Gone(r)' /\ Pc(r)' = what /\ Ent(r)' = m /\ proc' = proc
      /\ ecalls' = [ecalls EXCEPT ![m] = Append(ecalls[m], c)]
  BY CallFacts DEF CallsEntityd, Call, Ent, Gone, BusPcs
<1>2. \A n \in Names : SilentOn(r, n)
  BY SilentOnFacts
<1>3. ASSUME NEW n \in Names
      PROVE  /\ OneOn(ecalls'[n], eanswers'[n])
             /\ \A i \in DOMAIN ecalls'[n] : (n = m /\ ecalls'[n][i] = c) \/
                   (i \in DOMAIN ecalls[n] /\ ecalls'[n][i] = ecalls[n][i])
             /\ \A i \in DOMAIN ecalls[n] : i \in DOMAIN ecalls'[n] /\ ecalls'[n][i] = ecalls[n][i]
             /\ n = m => \E i \in DOMAIN ecalls'[n] : ecalls'[n][i] = c
  <2> PICK a, b : a = ecalls[n] /\ b = eanswers[n]
    OBVIOUS
  <2>1. a \in Seq(Calls) /\ b \in Seq(Calls) /\ OneOn(a, b) /\ eanswers'[n] = b
    BY DEF WorldOK, BusOK, OneOnBus
  <2>2. CASE n # m
    <3>1. ecalls'[n] = a
      BY <1>1, <2>2 DEF WorldOK
    <3> QED BY <2>1, <2>2, <3>1
  <2>3. CASE n = m
    <3>1. PICK t : t = Append(a, c)
      OBVIOUS
    <3>2. ecalls'[n] = t
      BY <1>1, <2>3, <3>1 DEF WorldOK
    <3>3. /\ \A i \in DOMAIN a : a[i].req # c.req
          /\ \A i \in DOMAIN b : b[i].req # c.req
      BY <1>1, <1>2 DEF SilentOn
    <3>4. Appended(a, b, c, t)
      BY <1>1, <2>1, <3>1, <3>3, OneAppend
    <3> QED BY <2>1, <2>3, <3>2, <3>4 DEF Appended
  <2> QED BY <2>2, <2>3
<1>4. Expected(c.req, c.what, m)'
  <2>1. reply'[r] # "none"
    BY DEF CInv, ChainOK, Gone, RepliesKept
  <2> QED BY <1>1, <2>1 DEF Expected
<1>5. ASSUME NEW n \in Names, NEW x, \/ \E i \in DOMAIN ecalls'[n] : x = ecalls'[n][i]
                                     \/ \E i \in DOMAIN eanswers'[n] : x = eanswers'[n][i]
      PROVE  Expected(x.req, x.what, n)' /\ x.what \in BusPcs
  <2>1. CASE n = m /\ x = c
    BY <1>1, <1>4, <2>1
  <2>2. CASE \/ \E i \in DOMAIN ecalls[n] : x = ecalls[n][i]
             \/ \E i \in DOMAIN eanswers[n] : x = eanswers[n][i]
    BY <1>2, <2>2, ExpectedOnKept DEF BusWhats
  <2> QED BY <1>3, <1>5, <2>1, <2>2
<1>6. ExpectedOn(ecalls)' /\ ExpectedOn(eanswers)' /\ BusWhats'
  BY <1>5 DEF ExpectedOn, BusWhats
<1>7. ASSUME NEW s \in Requests, ~Gone(s)', Pc(s)' \in BusPcs PROVE AnswerComing(s, Ent(s))'
  <2>1. CASE s = r
    <3>1. AnswerComing(r, m)'
      BY <1>1, <1>3 DEF AnswerComing
    <3> QED BY <1>1, <2>1, <3>1 DEF AnswerComing
  <2>2. CASE s # r
    <3>1. Same(s) /\ ~Gone(s) /\ Pc(s) \in BusPcs
      BY <1>7, <2>2 DEF Only, Same
    <3>2. PICK n \in Names : n = Ent(s) /\ Ent(s)' = n
      BY <3>1, PcType DEF Same
    <3>3. AnswerComing(s, n)
      BY <3>1, <3>2 DEF BusOK
    <3>4. AnswerComing(s, n)'
      BY <1>1, <1>3, <3>3 DEF AnswerComing
    <3> QED BY <3>2, <3>4 DEF AnswerComing
  <2> QED BY <2>1, <2>2
<1> QED BY <1>3, <1>6, <1>7 DEF BusOK, OneOnBus

(* An answer is dispatched: what r waited for is gone, and so is r, or r goes on. *)
LEMMA AnswerBus ==
    ASSUME CInv, WorldOK, BusOK, BusWhats, RepliesKept, ecalls' = ecalls,
           NEW n \in Names, eanswers[n] # <<>>, eanswers' = [eanswers EXCEPT ![n] = Tail(@)],
           NEW r \in Requests, r = Head(eanswers[n]).req, Only(r), NoneReplaced,
           Gone(r)' \/ (~Gone(r) /\ ~Gone(r)' /\ Pc(r)' \notin BusPcs)
    PROVE  BusOK' /\ BusWhats'
<1> PICK a, b, t : a = ecalls[n] /\ b = eanswers[n] /\ t = Tail(b)
  OBVIOUS
<1>1. /\ a \in Seq(Calls) /\ b \in Seq(Calls) /\ OneOn(a, b) /\ b # <<>>
      /\ ecalls'[n] = a /\ eanswers'[n] = t
      /\ \A x \in Names : x # n => eanswers'[x] = eanswers[x]
  BY DEF WorldOK, BusOK, OneOnBus
<1>2. /\ OneOn(a, t) /\ Head(b) = b[1] /\ 1 \in DOMAIN b
      /\ \A i \in DOMAIN a : a[i].req # b[1].req
      /\ \A i \in DOMAIN t : t[i].req # b[1].req
      /\ \A i \in DOMAIN t : \E j \in DOMAIN b : t[i] = b[j]
      /\ \A i \in DOMAIN b : i = 1 \/ \E j \in DOMAIN t : t[j] = b[i]
  <2>1. Popped(a, b, t)
    BY <1>1, OneTail
  <2> QED BY <2>1 DEF Popped
<1>3. b[1].req = r
  BY <1>2
<1>4. OneOnBus'
  BY <1>1, <1>2 DEF BusOK, OneOnBus
<1>5. ASSUME NEW m \in Names, NEW x, \/ \E i \in DOMAIN ecalls'[m] : x = ecalls'[m][i]
                                     \/ \E i \in DOMAIN eanswers'[m] : x = eanswers'[m][i]
      PROVE  Expected(x.req, x.what, m)' /\ x.what \in BusPcs
  <2>1. \/ \E i \in DOMAIN ecalls[m] : x = ecalls[m][i]
        \/ \E i \in DOMAIN eanswers[m] : x = eanswers[m][i]
    <3>1. CASE m = n
      BY <1>1, <1>2, <1>5, <3>1
    <3>2. CASE m # n
      BY <1>1, <1>5, <3>2
    <3> QED BY <3>1, <3>2
  <2>2. x.req \in Requests /\ Expected(x.req, x.what, m) /\ x.what \in BusPcs
    BY <2>1, BusItem DEF BusOK, ExpectedOn, BusWhats
  <2>3. CASE x.req # r \/ Gone(r)'
    BY <2>2, <2>3, ExpectedKept DEF Only
  <2>4. CASE x.req = r /\ ~Gone(r)'
    <3>1. Ent(r) = m
      BY <2>2, <2>4 DEF Expected
    <3>2. Ent(r) = n
      BY <1>2, <1>3, <2>4 DEF BusOK, ExpectedOn, Expected
    <3>3. x.req # b[1].req
      <4>1. m = n /\ ecalls'[m] = a /\ eanswers'[m] = t
        BY <1>1, <3>1, <3>2
      <4>2. (\E i \in DOMAIN a : x = a[i]) \/ (\E i \in DOMAIN t : x = t[i])
        BY <1>5, <4>1
      <4>3. \A i \in DOMAIN a : a[i].req # b[1].req
        BY <1>2
      <4>4. \A i \in DOMAIN t : t[i].req # b[1].req
        BY <1>2
      <4> QED BY <4>2, <4>3, <4>4
    <3> QED BY <1>3, <2>4, <3>3
  <2> QED BY <2>2, <2>3, <2>4
<1>6. ExpectedOn(ecalls)' /\ ExpectedOn(eanswers)' /\ BusWhats'
  BY <1>5 DEF ExpectedOn, BusWhats
<1>7. ASSUME NEW s \in Requests, ~Gone(s)', Pc(s)' \in BusPcs PROVE AnswerComing(s, Ent(s))'
  <2>1. s # r /\ Same(s) /\ ~Gone(s) /\ Pc(s) \in BusPcs
    BY <1>7 DEF Only, Same
  <2>2. PICK m \in Names : m = Ent(s) /\ Ent(s)' = m
    BY <2>1, PcType DEF Same
  <2>3. AnswerComing(s, m) /\ (proc'[m] = "running" => proc[m] = "running")
    BY <2>1, <2>2 DEF BusOK, NoneReplaced
  <2>4. AnswerComing(s, m)'
    <3>1. CASE m # n
      BY <1>1, <2>3, <3>1 DEF AnswerComing
    <3>2. CASE m = n
      BY <1>1, <1>2, <1>3, <2>1, <2>3, <3>2 DEF AnswerComing
    <3> QED BY <3>1, <3>2
  <2> QED BY <2>2, <2>4 DEF AnswerComing
<1> QED BY <1>4, <1>6, <1>7 DEF BusOK

(* Is x a message of q? *)
In(x, q) == \E i \in DOMAIN q : x = q[i]

(* What a step of systemd or of an entityd does to the messages of entityd n. *)
BusKept(n) ==
    ecalls'[n] = ecalls[n] /\ eanswers'[n] = eanswers[n] /\ (proc'[n] = "running" => proc[n] = "running")
BusLost(n) == ecalls'[n] = <<>> /\ eanswers'[n] = eanswers[n] /\ proc'[n] # "running"
BusAnswered(n) ==
    /\ ecalls[n] # <<>>
    /\ eanswers'[n] = Append(eanswers[n], Head(ecalls[n]))
    /\ \/ ecalls'[n] = Tail(ecalls[n]) /\ proc'[n] = proc[n]
       \/ ecalls'[n] = <<>> /\ proc'[n] # "running"

(* A step of systemd or of an entityd keeps the invariant of the calls to entityds. *)
LEMMA EntitydBus ==
    ASSUME CInv, WorldOK, BusOK, BusWhats, UNCHANGED <<chain, reply>>,
           \A n \in Names : BusKept(n) \/ BusLost(n) \/ BusAnswered(n)
    PROVE  BusOK' /\ BusWhats'
<1>1. \A s : Same(s) /\ Gone(s)' = Gone(s) /\ Pc(s)' = Pc(s) /\ Ent(s)' = Ent(s)
  BY SameFacts DEF Same
<1>2. ASSUME NEW n \in Names
      PROVE  /\ OneOn(ecalls'[n], eanswers'[n])
             /\ \A x : In(x, ecalls'[n]) \/ In(x, eanswers'[n]) => In(x, ecalls[n]) \/ In(x, eanswers[n])
             /\ \A s : AnswerComing(s, n) => AnswerComing(s, n)'
  <2> PICK a, b, c : a = ecalls[n] /\ b = eanswers[n] /\ c = Head(a)
    OBVIOUS
  <2>1. a \in Seq(Calls) /\ b \in Seq(Calls) /\ OneOn(a, b)
    BY DEF WorldOK, BusOK, OneOnBus
  <2>2. CASE BusKept(n)
    BY <2>1, <2>2 DEF BusKept, AnswerComing
  <2>3. CASE BusLost(n)
    BY <2>1, <2>3, OneSwap DEF BusLost, AnswerComing, In
  <2>4. CASE BusAnswered(n)
    <3> PICK t, u : t = Tail(a) /\ u = Append(b, c)
      OBVIOUS
    <3>1. /\ a # <<>> /\ eanswers'[n] = u
          /\ (ecalls'[n] = t /\ proc'[n] = proc[n]) \/ (ecalls'[n] = <<>> /\ proc'[n] # "running")
      BY <2>4 DEF BusAnswered
    <3>2. OneOn(t, u) /\ OneOn(<<>>, u) /\ Popped(b, a, t) /\ Appended(b, t, c, u)
      BY <2>1, <3>1, OneMove
    <3>3. /\ c = a[1] /\ 1 \in DOMAIN a
          /\ \A i \in DOMAIN t : \E j \in DOMAIN a : t[i] = a[j]
          /\ \A i \in DOMAIN a : i = 1 \/ \E j \in DOMAIN t : t[j] = a[i]
      BY <3>2 DEF Popped
    <3>4. /\ \A i \in DOMAIN u : u[i] = c \/ (i \in DOMAIN b /\ u[i] = b[i])
          /\ \A i \in DOMAIN b : i \in DOMAIN u /\ u[i] = b[i]
          /\ \E i \in DOMAIN u : u[i] = c
      BY <3>2 DEF Appended
    <3>5. ASSUME NEW x, In(x, ecalls'[n]) \/ In(x, u) PROVE In(x, a) \/ In(x, b)
      <4>1. In(c, a) /\ (In(x, t) => In(x, a)) /\ ~In(x, <<>>)
        BY <3>3 DEF In
      <4>2. In(x, u) => x = c \/ In(x, b)
        BY <3>4 DEF In
      <4> QED BY <3>1, <3>5, <4>1, <4>2
    <3>6. ASSUME NEW s, AnswerComing(s, n) PROVE AnswerComing(s, n)'
      <4>1. CASE proc'[n] # "running"
        BY <4>1 DEF AnswerComing
      <4>2. CASE \E i \in DOMAIN b : b[i].req = s
        BY <3>1, <3>4, <4>2 DEF AnswerComing
      <4>3. CASE \E i \in DOMAIN a : a[i].req = s /\ ecalls'[n] = t
        <5>1. PICK i \in DOMAIN a : a[i].req = s
          BY <4>3
        <5>2. (\E j \in DOMAIN t : t[j].req = s) \/ (\E j \in DOMAIN u : u[j].req = s)
          BY <3>3, <3>4, <5>1, SMT
        <5> QED BY <3>1, <4>3, <5>2 DEF AnswerComing
      <4> QED BY <3>1, <3>6, <4>1, <4>2, <4>3 DEF AnswerComing
    <3> QED BY <3>1, <3>2, <3>5, <3>6
  <2> QED BY <2>2, <2>3, <2>4
<1>3. ASSUME NEW n \in Names, NEW x, In(x, ecalls'[n]) \/ In(x, eanswers'[n])
      PROVE  Expected(x.req, x.what, n)' /\ x.what \in BusPcs
  <2>1. Expected(x.req, x.what, n) /\ x.what \in BusPcs
    <3>1. In(x, ecalls[n]) \/ In(x, eanswers[n])
      BY <1>2, <1>3
    <3> QED BY <3>1 DEF BusOK, ExpectedOn, BusWhats, In
  <2>2. \A s, what, m : Expected(s, what, m) => Expected(s, what, m)'
    BY <1>1 DEF Expected
  <2> QED BY <2>1, <2>2
<1>4. ExpectedOn(ecalls)' /\ ExpectedOn(eanswers)' /\ BusWhats'
  BY <1>3 DEF ExpectedOn, BusWhats, In
<1>5. ASSUME NEW s \in Requests, ~Gone(s)', Pc(s)' \in BusPcs PROVE AnswerComing(s, Ent(s))'
  <2>1. ~Gone(s) /\ Pc(s) \in BusPcs
    BY <1>1, <1>5
  <2>2. PICK m \in Names : m = Ent(s) /\ Ent(s)' = m
    BY <1>1, <2>1, PcType
  <2>3. AnswerComing(s, m)'
    BY <1>2, <2>1, <2>2 DEF BusOK
  <2> QED BY <2>2, <2>3 DEF AnswerComing
<1> QED BY <1>2, <1>4, <1>5 DEF BusOK, OneOnBus

(* The steps of systemd and of the entityds. *)
LEMMA WorldBus ==
    ASSUME CInv, WorldOK, BusOK, BusWhats,
           SystemdStep \/ \E n \in Names : EntitydStep(n) \/ EntitydDies(n)
    PROVE  BusOK' /\ BusWhats' /\ UNCHANGED <<chain, reply, stack, queue>>
<1> USE DEF systemdVars, entitydVars, daemonVars, queueVars
<1>1. CASE SystemdHandles
  BY <1>1, EntitydBus DEF SystemdHandles, BusKept
<1>2. ASSUME NEW job \in jobs, SystemdFinishes(job)
      PROVE  BusOK' /\ BusWhats' /\ UNCHANGED <<chain, reply, stack, queue>>
  <2>1. UNCHANGED <<chain, reply, stack, queue, eanswers>>
    BY <1>2 DEF SystemdFinishes
  <2>2. JobEffect(job) \/ UNCHANGED <<unit, proc, ecalls>>
    BY <1>2, Zenon DEF SystemdFinishes
  <2>3. ASSUME NEW n \in Names PROVE BusKept(n) \/ BusLost(n)
    <3>1. CASE UNCHANGED <<unit, proc, ecalls>>
      BY <2>1, <3>1 DEF BusKept
    <3>2. CASE JobEffect(job)
      <4>1. \/ proc'[n] = "dead" /\ ecalls'[n] = <<>>
            \/ proc'[n] = proc[n] /\ ecalls'[n] = ecalls[n]
        BY <3>2 DEF JobEffect
      <4> QED BY <2>1, <4>1 DEF BusKept, BusLost
    <3> QED BY <2>2, <3>1, <3>2
  <2> QED BY <2>1, <2>3, EntitydBus
<1>3. ASSUME NEW n \in Names, EntitydStep(n) \/ EntitydDies(n)
      PROVE  BusOK' /\ BusWhats' /\ UNCHANGED <<chain, reply, stack, queue>>
  <2>1. UNCHANGED <<chain, reply, stack, queue>>
    BY <1>3 DEF EntitydStep, EntitydAdds, EntitydAborts, EntitydShutsDown, EntitydDies
  <2>2. ASSUME NEW m \in Names PROVE BusKept(m) \/ BusLost(m) \/ BusAnswered(m)
    <3>1. CASE EntitydAdds(n)
      BY <3>1 DEF EntitydAdds, Handles, BusKept, BusAnswered, WorldOK
    <3>2. CASE EntitydShutsDown(n)
      BY <3>2 DEF EntitydShutsDown, Handles, BusKept, BusAnswered, WorldOK
    <3>3. CASE EntitydAborts(n) \/ EntitydDies(n)
      BY <3>3 DEF EntitydAborts, EntitydDies, BusKept, BusLost, WorldOK
    <3> QED BY <1>3, <3>1, <3>2, <3>3 DEF EntitydStep
  <2> QED BY <2>1, <2>2, EntitydBus
<1> QED BY <1>1, <1>2, <1>3 DEF SystemdStep, SystemdHandles

-----------------------------------------------------------------------------
(* Every step, as seen by the queues and the call stack. *)

(* Only r is resumed or suspended. *)
LEMMA TurnStep ==
    ASSUME CInv, TurnOK, NEW r \in Requests, Only(r),
           \A s \in Requests : s # r => ~OnTop(s),
           \A s \in Requests : s # r /\ ~Gone(s) /\ Pc(s) = "queued" /\ InQueue(s) => InQueue(s)',
           \/ Gone(r)'
           \/ (Pc(r)' = "queued" => InQueue(r)') /\ (Pc(r)' \in RunPcs => OnTop(r)')
    PROVE  TurnOK'
<1>1. ASSUME NEW s \in Requests, ~Gone(s)', s # r
      PROVE  (Pc(s)' = "queued" => InQueue(s)') /\ Pc(s)' \notin RunPcs
  <2>1. ~Gone(s) /\ Pc(s)' = Pc(s)
    BY <1>1 DEF Only, Same
  <2> QED BY <1>1, <2>1 DEF TurnOK
<1> QED BY <1>1 DEF TurnOK

(* A request that does not move stays in line. *)
LEMMA InQueueKept ==
    ASSUME queue' = queue, NEW s, Same(s), InQueue(s)
    PROVE  InQueue(s)'
<1> PICK n, k : n = Ent(s) /\ k = Depth(s)
  OBVIOUS
<1>1. Ent(s)' = n /\ Depth(s)' = k /\ \E i \in DOMAIN queue[n] : queue[n][i] = <<s, k>>
  BY DEF Same, InQueue
<1> QED BY <1>1 DEF InQueue

(* The service loop gives control to r. *)
LEMMA IdleTurn ==
    ASSUME CInv, TurnOK, stack = <<>>, queue' = queue, NEW r \in Requests, Only(r),
           \/ Gone(r)'
           \/ Pc(r)' # "queued" /\ (Pc(r)' \in RunPcs => OnTop(r)')
           \/ Same(r)
    PROVE  TurnOK'
<1>1. \A s : ~OnTop(s)
  BY DEF OnTop
<1>2. \A s \in Requests : s # r /\ ~Gone(s) /\ Pc(s) = "queued" /\ InQueue(s) => InQueue(s)'
  BY InQueueKept DEF Only
<1>3. CASE Same(r)
  <2>1. Gone(r)' \/ (~Gone(r) /\ Pc(r)' = Pc(r))
    BY <1>3 DEF Same
  <2>2. ~Gone(r) /\ Pc(r) = "queued" => InQueue(r)'
    BY <1>3, InQueueKept DEF TurnOK
  <2>3. ~Gone(r) => Pc(r) \notin RunPcs
    BY <1>1 DEF TurnOK
  <2> QED BY <1>1, <1>2, <2>1, <2>2, <2>3, TurnStep
<1> QED BY <1>1, <1>2, <1>3, TurnStep

(* The coroutine on top of the call stack gets in line, goes on, or waits for a message. *)
LEMMA RunTurn ==
    ASSUME CInv, WorldOK, TurnOK, NEW r \in Requests, RunStep(r)
    PROVE  TurnOK'
<1>1. /\ Only(r) /\ ~Gone(r) /\ OnTop(r)
      /\ Queues(r) \/ GoesOn(r) \/ CallsSystemd(r) \/ CallsEntityd(r)
  BY RunEffect
<1>2. \A s \in Requests : s # r => ~OnTop(s)
  BY <1>1 DEF OnTop, Run
<1>3. CASE Queues(r)
  <2> PICK m, k : m = Ent(r) /\ k = Depth(r)
    OBVIOUS
  <2>1. /\ Ent(r)' = m /\ Depth(r)' = k /\ Pc(r)' = "queued"
        /\ queue' = [queue EXCEPT ![m] = Append(queue[m], <<r, k>>)] /\ m \in Names
        /\ queue \in [Names -> Seq(Coroutines)]
    BY <1>1, <1>3, PcType DEF Queues, CInv, QueueOK
  <2>2. \E i \in DOMAIN queue'[m] : queue'[m][i] = <<r, k>>
    <3>1. queue'[m] = Append(queue[m], <<r, k>>) /\ queue[m] \in Seq(Coroutines)
      BY <2>1
    <3>2. Len(queue[m]) + 1 \in DOMAIN queue'[m] /\ queue'[m][Len(queue[m]) + 1] = <<r, k>>
      BY <3>1
    <3> QED BY <3>2
  <2>3. InQueue(r)' /\ "queued" \notin RunPcs
    BY <2>1, <2>2 DEF InQueue, RunPcs
  <2>4. ASSUME NEW s \in Requests, s # r, ~Gone(s), InQueue(s) PROVE InQueue(s)'
    <3> PICK n \in Names : n = Ent(s)
      BY <2>4, PcType
    <3> PICK d : d = Depth(s)
      OBVIOUS
    <3>1. Ent(s)' = n /\ Depth(s)' = d
      BY <1>1, <2>4 DEF Only, Same
    <3>2. PICK i \in DOMAIN queue[n] : queue[n][i] = <<s, d>>
      BY <2>4 DEF InQueue
    <3>3. i \in DOMAIN queue'[n] /\ queue'[n][i] = queue[n][i]
      <4> PICK q, c : q = queue[n] /\ c = <<r, k>>
        OBVIOUS
      <4>1. q \in Seq(Coroutines) /\ i \in DOMAIN q
        BY <2>1, <3>2
      <4>2. queue'[n] = q \/ queue'[n] = Append(q, c)
        BY <2>1
      <4>3. i \in DOMAIN Append(q, c) /\ Append(q, c)[i] = q[i]
        BY <4>1
      <4> QED BY <4>1, <4>2, <4>3
    <3> QED BY <3>1, <3>2, <3>3 DEF InQueue
  <2> QED BY <1>1, <1>2, <2>1, <2>3, <2>4, TurnStep
<1>4. CASE GoesOn(r) \/ CallsSystemd(r) \/ CallsEntityd(r)
  <2>1. /\ queue' = queue
        /\ Gone(r)' \/ (Pc(r)' # "queued" /\ (Pc(r)' \in RunPcs => OnTop(r)'))
    BY <1>4 DEF GoesOn, CallsSystemd, CallsEntityd, RunPcs, BusPcs
  <2>2. \A s \in Requests : s # r /\ ~Gone(s) /\ Pc(s) = "queued" /\ InQueue(s) => InQueue(s)'
    BY <1>1, <2>1, InQueueKept DEF Only
  <2> QED BY <1>1, <1>2, <2>1, <2>2, TurnStep
<1> QED BY <1>1, <1>3, <1>4

(* ~queue_token takes the first in line and lets it run. *)
LEMMA DropTurn ==
    ASSUME CInv, TurnOK, DropToken
    PROVE  TurnOK'
<1>1. /\ \A r : ~OnTop(r)
      /\ UNCHANGED <<chain, queue>> \/ \E r \in Requests, n \in Names : Resumes(r, n)
  BY DropEffect
<1>2. CASE UNCHANGED <<chain, queue>>
  <2>1. ASSUME NEW s \in Requests, ~Gone(s)'
        PROVE  Pc(s)' \notin RunPcs /\ (Pc(s)' = "queued" => InQueue(s)')
    <3>1. Same(s)
      BY <1>2, SameFacts
    <3>2. ~Gone(s) /\ Pc(s)' = Pc(s)
      BY <2>1, <3>1 DEF Same
    <3> QED BY <1>1, <1>2, <3>1, <3>2, InQueueKept DEF TurnOK
  <2> QED BY <2>1 DEF TurnOK
<1>3. ASSUME NEW r \in Requests, NEW n \in Names, Resumes(r, n) PROVE TurnOK'
  <2>1. /\ Only(r) /\ queue[n] # <<>> /\ Head(queue[n]) = <<r, Depth(r)>>
        /\ queue' = [queue EXCEPT ![n] = Tail(@)] /\ Pc(r)' = "entered" /\ OnTop(r)'
        /\ queue \in [Names -> Seq(Coroutines)]
    BY <1>3 DEF Resumes, CInv, QueueOK
  <2>2. ASSUME NEW s \in Requests, s # r, ~Gone(s), InQueue(s) PROVE InQueue(s)'
    <3> PICK m \in Names : m = Ent(s)
      BY <2>2, PcType
    <3> PICK d : d = Depth(s)
      OBVIOUS
    <3>1. Ent(s)' = m /\ Depth(s)' = d
      BY <2>1, <2>2 DEF Only, Same
    <3>2. PICK i \in DOMAIN queue[m] : queue[m][i] = <<s, d>>
      BY <2>2 DEF InQueue
    <3>3. \E j \in DOMAIN queue'[m] : queue'[m][j] = <<s, d>>
      <4>1. CASE m # n
        BY <2>1, <3>2, <4>1
      <4>2. CASE m = n
        <5> PICK q, t : q = queue[m] /\ t = Tail(q)
          OBVIOUS
        <5>1. q \in Seq(Coroutines) /\ q # <<>> /\ queue'[m] = t /\ Head(q) = q[1]
          BY <2>1, <4>2
        <5>2. i # 1
          BY <2>1, <2>2, <3>2, <4>2, <5>1
        <5>3. i - 1 \in DOMAIN t /\ t[i - 1] = q[i]
          BY <3>2, <5>1, <5>2
        <5> QED BY <3>2, <5>1, <5>3
      <4> QED BY <4>1, <4>2
    <3> QED BY <3>1, <3>3 DEF InQueue
  <2> QED BY <1>1, <2>1, <2>2, TurnStep
<1> QED BY <1>1, <1>2, <1>3

-----------------------------------------------------------------------------
(* The invariant. *)

(* The invariant of all the waits. *)
WInv == UnitOK /\ BusOK /\ BusWhats /\ TurnOK

(* What the invariant speaks about, but for the call stack. *)
wakeVars == <<reply, chain, calls, jobs, inbox, ecalls, eanswers, proc, queue>>

(* The same process, or none that anybody waits for. *)
LEMMA SameProc ==
    ASSUME proc' = proc
    PROVE  NoneReplaced
BY DEF NoneReplaced

(* The messages of systemd do not change. *)
LEMMA SameUnit ==
    ASSUME UnitOK, UNCHANGED <<reply, chain, calls, jobs, inbox>>
    PROVE  UnitOK'
<1>1. \A s : Gone(s)' = Gone(s) /\ Pc(s)' = Pc(s) /\ Ent(s)' = Ent(s)
  BY SameFacts DEF Same
<1>2. \A s, what, n : Expected(s, what, n)' = Expected(s, what, n)
  BY <1>1 DEF Expected
<1>3. /\ \A i : IsReply(i)' = IsReply(i)
      /\ \A k, what, r, n : EndComing(k, what, r, n)' = EndComing(k, what, r, n)
  BY DEF IsReply, EndComing, Serves
<1>4. ExpectedMessages'
  BY <1>2, <1>3 DEF UnitOK, ExpectedMessages, ExpectedCall, ExpectedReply
<1>5. EndAfterReply'
  BY <1>3 DEF UnitOK, EndAfterReply, EndAfter
<1>6. OneMessage'
  BY <1>3 DEF UnitOK, OneMessage
<1>7. ASSUME NEW s \in Requests PROVE Waits(s)'
  <2>1. CallComing(s)' = CallComing(s)
    BY <1>3 DEF CallComing
  <2>2. EndComing(0, CallOf(Pc(s)), s, Ent(s)) => EndComing(0, CallOf(Pc(s)), s, Ent(s))'
    <3> PICK what, n : what = CallOf(Pc(s)) /\ n = Ent(s)
      OBVIOUS
    <3>1. CallOf(Pc(s))' = what /\ Ent(s)' = n
      BY <1>1 DEF CallOf
    <3> QED BY <1>3, <3>1
  <2>3. Waits(s)
    BY DEF UnitOK
  <2> QED BY <1>1, <2>1, <2>2, <2>3 DEF Waits
<1> QED BY <1>4, <1>5, <1>6, <1>7 DEF UnitOK

(* The queues and the call stack do not change. *)
LEMMA SameTurn ==
    ASSUME TurnOK, UNCHANGED <<chain, queue, stack>>
    PROVE  TurnOK'
BY DEF TurnOK, Gone, Pc, Ent, Depth, Frame, InQueue, OnTop

(* A step that changes nothing keeps the invariant. *)
LEMMA StutterWInv ==
    ASSUME CInv, WorldOK, WInv, UNCHANGED wakeVars, UNCHANGED stack
    PROVE  WInv'
<1>1. \A n \in Names : BusKept(n)
  BY DEF wakeVars, BusKept
<1> QED BY <1>1, SameUnit, EntitydBus, SameTurn DEF WInv, wakeVars

(* A new request keeps the invariant. *)
LEMMA RequestWInv ==
    ASSUME CInv, WorldOK, WInv, NEW r \in Requests, NEW o \in Ops, NEW n \in Names, Request(r, o, n)
    PROVE  WInv'
<1>1. /\ Only(r) /\ RepliesKept /\ reply[r] = "none" /\ Gone(r) /\ stack = <<>>
      /\ UNCHANGED <<calls, jobs, inbox, ecalls, eanswers, proc, queue>>
      /\ Same(r) \/ (~Gone(r)' /\ Pc(r)' = "enqueue" /\ OnTop(r)')
  BY RequestEffect
<1>2. Taken(r) /\ "enqueue" \notin UnitPcs \cup JobPcs /\ "enqueue" \notin BusPcs
  BY <1>1 DEF Taken, UnitPcs, JobPcs, BusPcs
<1>3. UnitOK'
  BY <1>1, <1>2, MoverUnit DEF WInv
<1>4. BusOK' /\ BusWhats'
  BY <1>1, <1>2, SameProc, MoverBus DEF WInv, BusWhats
<1>5. TurnOK'
  BY <1>1, IdleTurn DEF WInv
<1> QED BY <1>3, <1>4, <1>5 DEF WInv

(* A step of a running coroutine keeps the invariant. *)
LEMMA RunWInv ==
    ASSUME CInv, WorldOK, WInv, NEW r \in Requests, RunStep(r)
    PROVE  WInv'
<1>1. /\ Only(r) /\ RepliesKept /\ ~Gone(r) /\ Pc(r) \in RunPcs
      /\ UNCHANGED <<inbox, jobs, eanswers>>
      /\ Queues(r) \/ GoesOn(r) \/ CallsSystemd(r) \/ CallsEntityd(r)
  BY RunEffect
<1>2. /\ Taken(r) /\ Pc(r) \notin UnitPcs /\ Pc(r) \notin BusPcs
      /\ RunPcs \cap (UnitPcs \cup JobPcs \cup BusPcs) = {}
      /\ BusPcs \cap (UnitPcs \cup JobPcs) = {}
      /\ "slice" \in UnitPcs /\ "slice" \notin BusPcs
      /\ "queued" \notin UnitPcs \cup JobPcs /\ "queued" \notin BusPcs
  BY <1>1 DEF Taken, UnitPcs, JobPcs, BusPcs, RunPcs
<1>3. UnitOK'
  <2>1. CASE Queues(r) \/ GoesOn(r) \/ CallsEntityd(r)
    <3>1. /\ UNCHANGED <<calls, jobs>>
          /\ Gone(r)' \/ (~Gone(r)' /\ Pc(r)' \notin UnitPcs \cup JobPcs)
      BY <1>1, <1>2, <2>1 DEF Queues, GoesOn, CallsEntityd
    <3> QED BY <1>1, <1>2, <3>1, MoverUnit DEF WInv
  <2>2. CASE CallsSystemd(r)
    <3>1. /\ ~Gone(r)' /\ Pc(r)' = "slice" /\ Ent(r)' = Ent(r)
          /\ calls' = Append(calls, Call(r, "slice"))
      BY <2>2 DEF CallsSystemd
    <3> QED BY <1>1, <1>2, <3>1, CallUnit DEF WInv
  <2> QED BY <1>1, <2>1, <2>2
<1>4. BusOK' /\ BusWhats'
  <2>1. CASE CallsEntityd(r)
    BY <1>1, <1>2, <2>1, CallBus DEF WInv
  <2>2. CASE Queues(r) \/ GoesOn(r) \/ CallsSystemd(r)
    <3>1. /\ UNCHANGED <<ecalls, eanswers>>
          /\ Gone(r)' \/ (~Gone(r)' /\ Pc(r)' \notin BusPcs)
          /\ \A n \in Names : n # Ent(r) \/ Pc(r) # "spawn" => proc'[n] = proc[n]
      BY <1>1, <1>2, <2>2 DEF Queues, GoesOn, CallsSystemd
    <3>2. NoneReplaced
      <4>1. ASSUME NEW s \in Requests, ~Gone(s), Pc(s) \in BusPcs PROVE proc'[Ent(s)] = proc[Ent(s)]
        <5>1. Ent(s) \in Names /\ (Pc(r) = "spawn" => Ent(s) # Ent(r))
          BY <1>1, <4>1, PcType, SpawnsAlone
        <5> QED BY <3>1, <5>1
      <4> QED BY <4>1 DEF NoneReplaced
    <3> QED BY <1>1, <1>2, <3>1, <3>2, MoverBus DEF WInv, BusWhats
  <2> QED BY <1>1, <2>1, <2>2
<1>5. TurnOK'
  BY RunTurn DEF WInv
<1> QED BY <1>3, <1>4, <1>5 DEF WInv

(* ~queue_token keeps the invariant. *)
LEMMA DropWInv ==
    ASSUME CInv, WorldOK, WInv, DropToken
    PROVE  WInv'
<1>1. /\ UNCHANGED <<reply, calls, jobs, inbox, ecalls, eanswers, proc>>
      /\ UNCHANGED <<chain, queue>> \/ \E r \in Requests, n \in Names : Resumes(r, n)
  BY DropEffect
<1>2. TurnOK'
  BY DropTurn DEF WInv
<1>3. CASE UNCHANGED <<chain, queue>>
  <2>1. \A n \in Names : BusKept(n)
    BY <1>1 DEF BusKept
  <2> QED BY <1>1, <1>2, <1>3, <2>1, SameUnit, EntitydBus DEF WInv
<1>4. ASSUME NEW r \in Requests, NEW n \in Names, Resumes(r, n) PROVE WInv'
  <2>1. Only(r) /\ ~Gone(r) /\ Pc(r) = "queued" /\ ~Gone(r)' /\ Pc(r)' = "entered"
    BY <1>4 DEF Resumes
  <2>2. /\ Taken(r) /\ RepliesKept
        /\ \A pc \in {"queued", "entered"} : pc \notin UnitPcs \cup JobPcs /\ pc \notin BusPcs
    BY <1>1 DEF Taken, RepliesKept, UnitPcs, JobPcs, BusPcs
  <2>3. UnitOK'
    BY <1>1, <2>1, <2>2, MoverUnit DEF WInv
  <2>4. BusOK' /\ BusWhats'
    BY <1>1, <2>1, <2>2, SameProc, MoverBus DEF WInv, BusWhats
  <2> QED BY <1>2, <2>3, <2>4 DEF WInv
<1> QED BY <1>1, <1>3, <1>4

(* Dispatching a message of systemd keeps the invariant. *)
LEMMA SystemBusWInv ==
    ASSUME CInv, WorldOK, WInv, SlicesDistinct, SystemBusStep
    PROVE  WInv'
<1>1. CASE DeliverReply
  <2> PICK r \in Requests, c \in UnitCalls : c.req = r /\ ReplyTo(r, c)
    BY <1>1, ReplyEffect DEF WInv
  <2>1. /\ RepliesKept /\ Only(r) /\ stack = <<>>
        /\ UNCHANGED <<ecalls, eanswers, proc, queue>>
        /\ Gone(r)' \/ (~Gone(r) /\ ~Gone(r)' /\ Pc(r) = c.what /\ Pc(r)' = JobOf[c.what])
    BY DEF ReplyTo
  <2>2. c.what \in UnitPcs
    BY DEF UnitCalls, UnitPcs
  <2>3. /\ c.what \notin BusPcs
        /\ JobOf[c.what] \notin BusPcs /\ JobOf[c.what] \notin RunPcs /\ JobOf[c.what] # "queued"
    BY <2>2 DEF JobOf, UnitPcs, BusPcs, RunPcs
  <2>4. UnitOK'
    BY <1>1, ReplyUnit DEF WInv
  <2>5. BusOK' /\ BusWhats'
    BY <2>1, <2>3, SameProc, MoverBus DEF WInv, BusWhats
  <2>6. TurnOK'
    BY <2>1, <2>3, IdleTurn DEF WInv
  <2> QED BY <2>4, <2>5, <2>6 DEF WInv
<1>2. CASE DeliverJobRemoved
  <2> PICK r \in Requests : SignalTo(r)
    BY <1>2, SignalEffect
  <2>1. /\ Only(r) /\ RepliesKept /\ stack = <<>> /\ Taken(r)
        /\ UNCHANGED <<jobs, ecalls, eanswers, proc, queue>>
    BY DEF SignalTo
  <2>2. CASE Gone(r)' /\ UNCHANGED calls
    <3>1. UnitOK'
      BY <2>1, <2>2, MoverUnit DEF WInv
    <3>2. BusOK' /\ BusWhats'
      BY <2>1, <2>2, SameProc, MoverBus DEF WInv, BusWhats
    <3> QED BY <2>1, <2>2, <3>1, <3>2, IdleTurn DEF WInv
  <2>3. CASE /\ ~Gone(r) /\ Pc(r) = "sliceJob" /\ ~Gone(r)' /\ Pc(r)' = "scope" /\ Ent(r)' = Ent(r)
             /\ calls' = Append(calls, Call(r, "scope"))
    <3>1. /\ Pc(r) \notin UnitPcs /\ "scope" \in UnitPcs /\ Pc(r) \notin BusPcs /\ Pc(r)' \notin BusPcs
          /\ Pc(r)' # "queued" /\ Pc(r)' \notin RunPcs
      BY <2>3 DEF UnitPcs, BusPcs, RunPcs
    <3>2. UnitOK'
      BY <2>1, <2>3, <3>1, CallUnit DEF WInv
    <3>3. BusOK' /\ BusWhats'
      BY <2>1, <2>3, <3>1, SameProc, MoverBus DEF WInv, BusWhats
    <3> QED BY <2>1, <3>1, <3>2, <3>3, IdleTurn DEF WInv
  <2>4. CASE /\ ~Gone(r) /\ Pc(r) \in JobPcs /\ ~Gone(r)' /\ Pc(r)' \in {"components", "spawn"}
             /\ OnTop(r)' /\ UNCHANGED calls
    <3>1. /\ Pc(r) \notin UnitPcs /\ Pc(r)' \notin UnitPcs \cup JobPcs
          /\ Pc(r) \notin BusPcs /\ Pc(r)' \notin BusPcs /\ Pc(r)' # "queued"
      BY <2>4 DEF UnitPcs, BusPcs, JobPcs
    <3>2. UnitOK'
      BY <2>1, <2>4, <3>1, MoverUnit DEF WInv
    <3>3. BusOK' /\ BusWhats'
      BY <2>1, <2>4, <3>1, SameProc, MoverBus DEF WInv, BusWhats
    <3> QED BY <2>1, <2>4, <3>1, <3>2, <3>3, IdleTurn DEF WInv
  <2>5. CASE Same(r) /\ UNCHANGED calls /\ ~Matches(r, inbox[1].call)
    <3>1. UnitOK'
      BY <2>1, <2>5, MoverUnit DEF WInv
    <3>2. BusOK' /\ BusWhats'
      BY <2>1, <2>5, SameProc, MoverBus DEF WInv, BusWhats
    <3> QED BY <2>1, <2>5, <3>1, <3>2, IdleTurn DEF WInv
  <2> QED BY <2>2, <2>3, <2>4, <2>5 DEF SignalTo
<1> QED BY <1>1, <1>2 DEF SystemBusStep

(* An error of sd-bus keeps the invariant. *)
LEMMA HangupWInv ==
    ASSUME CInv, WorldOK, WInv, NEW r \in Requests,
           EntitydHangup(r) \/ EntitydCallTimesOut(r) \/ SystemdCallTimesOut(r)
    PROVE  WInv'
<1>1. /\ Only(r) /\ RepliesKept /\ Gone(r)' /\ stack = <<>>
      /\ UNCHANGED <<calls, jobs, inbox, ecalls, eanswers, proc, queue>>
  BY HangupEffect
<1>2. Taken(r)
  BY <1>1 DEF Taken
<1>3. UnitOK'
  BY <1>1, <1>2, MoverUnit DEF WInv
<1>4. BusOK' /\ BusWhats'
  BY <1>1, SameProc, MoverBus DEF WInv, BusWhats
<1> QED BY <1>1, <1>3, <1>4, IdleTurn DEF WInv

(* Dispatching an answer of an entityd keeps the invariant. *)
LEMMA EntityBusWInv ==
    ASSUME CInv, WorldOK, WInv, NEW n \in Names, EntityBusStep(n)
    PROVE  WInv'
<1> PICK r : r = Head(eanswers[n]).req
  OBVIOUS
<1>1. CASE DeliverComponent(n)
  <2>1. /\ r \in Requests /\ Only(r) /\ RepliesKept /\ stack = <<>>
        /\ eanswers[n] # <<>> /\ eanswers' = [eanswers EXCEPT ![n] = Tail(@)]
        /\ UNCHANGED <<calls, jobs, inbox, ecalls, proc, queue>>
        /\ \/ Gone(r)'
           \/ ~Gone(r) /\ Pc(r) = "component" /\ ~Gone(r)' /\ Pc(r)' = "spawn" /\ OnTop(r)'
    BY <1>1, ComponentEffect DEF WInv
  <2>2. /\ Taken(r) /\ "component" \notin UnitPcs /\ "spawn" \notin UnitPcs \cup JobPcs
        /\ "spawn" \notin BusPcs
    BY <2>1 DEF Taken, UnitPcs, JobPcs, BusPcs
  <2>3. UnitOK'
    BY <2>1, <2>2, MoverUnit DEF WInv
  <2>4. BusOK' /\ BusWhats'
    BY <2>1, <2>2, SameProc, AnswerBus DEF WInv
  <2>5. TurnOK'
    BY <2>1, IdleTurn DEF WInv
  <2> QED BY <2>3, <2>4, <2>5 DEF WInv
<1>2. CASE DeliverShutdown(n)
  <2>1. /\ r \in Requests /\ Only(r) /\ RepliesKept /\ stack = <<>>
        /\ eanswers[n] # <<>> /\ eanswers' = [eanswers EXCEPT ![n] = Tail(@)]
        /\ \A m \in Names : proc'[m] = "running" => proc[m] = "running"
        /\ UNCHANGED <<jobs, inbox, ecalls, queue>>
        /\ \/ Gone(r)' /\ UNCHANGED calls
           \/ /\ ~Gone(r) /\ Pc(r) = "shutdown" /\ ~Gone(r)' /\ Pc(r)' = "stopUnit"
              /\ Ent(r)' = Ent(r) /\ calls' = Append(calls, Call(r, "stopUnit"))
    BY <1>2, ShutdownEffect DEF WInv
  <2>2. /\ Taken(r) /\ "shutdown" \notin UnitPcs /\ "stopUnit" \in UnitPcs
        /\ "stopUnit" \notin BusPcs /\ "stopUnit" \notin RunPcs
    BY <2>1 DEF Taken, UnitPcs, BusPcs, RunPcs
  <2>3. NoneReplaced
    BY <2>1, PcType DEF NoneReplaced
  <2>4. UnitOK'
    <3>1. CASE Gone(r)' /\ UNCHANGED calls
      BY <2>1, <2>2, <3>1, MoverUnit DEF WInv
    <3>2. CASE /\ ~Gone(r) /\ Pc(r) = "shutdown" /\ ~Gone(r)' /\ Pc(r)' = "stopUnit"
               /\ Ent(r)' = Ent(r) /\ calls' = Append(calls, Call(r, "stopUnit"))
      BY <2>1, <2>2, <3>2, CallUnit DEF WInv
    <3> QED BY <2>1, <3>1, <3>2
  <2>5. BusOK' /\ BusWhats'
    BY <2>1, <2>2, <2>3, AnswerBus DEF WInv
  <2>6. TurnOK'
    BY <2>1, <2>2, IdleTurn DEF WInv
  <2> QED BY <2>4, <2>5, <2>6 DEF WInv
<1>3. CASE \E s \in Requests : EntitydHangup(s)
  BY <1>3, HangupWInv
<1>4. CASE DanglingAdvance(n)
  <2>1. UNCHANGED wakeVars /\ UNCHANGED stack
    BY <1>4 DEF DanglingAdvance, Abort, wakeVars, worldVars, entitydVars, systemdVars, queueVars
  <2> QED BY <2>1, StutterWInv
<1> QED BY <1>1, <1>2, <1>3, <1>4 DEF EntityBusStep

(* A step of systemd or of an entityd keeps the invariant. *)
LEMMA WorldWInv ==
    ASSUME CInv, WorldOK, WInv, SystemdStep \/ \E n \in Names : EntitydStep(n) \/ EntitydDies(n)
    PROVE  WInv'
<1>1. BusOK' /\ BusWhats' /\ UNCHANGED <<chain, reply, stack, queue>>
  BY WorldBus DEF WInv
<1>2. TurnOK'
  BY <1>1, SameTurn DEF WInv
<1>3. CASE SystemdStep
  BY <1>1, <1>2, <1>3, HandleUnit, FinishUnit DEF WInv, SystemdStep
<1>4. CASE \E n \in Names : EntitydStep(n) \/ EntitydDies(n)
  <2>1. UNCHANGED <<calls, jobs, inbox>>
    BY <1>4 DEF EntitydStep, EntitydAdds, EntitydAborts, EntitydShutsDown, EntitydDies, systemdVars
  <2> QED BY <1>1, <1>2, <2>1, SameUnit DEF WInv
<1> QED BY <1>3, <1>4

(* A new daemon: systemd still has calls and jobs, but nobody waits for them. *)
LEMMA RestartWInv ==
    ASSUME CInv, WorldOK, WInv, DaemonRestarts
    PROVE  WInv'
<1>1. /\ \A r \in Requests : Gone(r)'
      /\ inbox' = <<>> /\ calls' = calls
      /\ \A n \in Names : ecalls'[n] = <<>> /\ eanswers'[n] = <<>>
      /\ \A r \in Requests : reply[r] # "none" => reply'[r] # "none"
  BY DEF DaemonRestarts, Gone, WorldOK
<1>2. UnitOK'
  <2>1. ASSUME NEW i \in DOMAIN calls PROVE ExpectedCall(i)'
    <3> PICK c : c = calls[i]
      OBVIOUS
    <3>1. c.req \in Requests /\ reply[c.req] # "none" /\ calls'[i] = c
      BY <1>1, CallItem DEF WInv, UnitOK, ExpectedMessages, ExpectedCall, Expected
    <3> QED BY <1>1, <3>1 DEF ExpectedCall, Expected
  <2>2. ExpectedMessages'
    BY <1>1, <2>1 DEF ExpectedMessages
  <2>3. OneMessage' /\ EndAfterReply'
    BY <1>1 DEF WInv, UnitOK, OneMessage, EndAfterReply
  <2> QED BY <1>1, <2>2, <2>3 DEF UnitOK, Waits
<1>3. BusOK' /\ BusWhats'
  BY <1>1 DEF BusOK, BusWhats, ExpectedOn, OneOnBus, OneOn
<1>4. TurnOK'
  BY <1>1 DEF TurnOK
<1> QED BY <1>2, <1>3, <1>4 DEF WInv

(* The invariant holds initially. *)
LEMMA InitWInv ==
    ASSUME Init
    PROVE  WInv
<1>1. /\ \A r \in Requests : Gone(r)
      /\ inbox = <<>> /\ calls = <<>>
      /\ \A n \in Names : ecalls[n] = <<>> /\ eanswers[n] = <<>>
  BY DEF Init, Gone
<1>2. UnitOK
  BY <1>1 DEF UnitOK, OneMessage, ExpectedMessages, EndAfterReply, Waits
<1>3. BusOK /\ BusWhats
  BY <1>1 DEF BusOK, BusWhats, ExpectedOn, OneOnBus, OneOn
<1>4. TurnOK
  BY <1>1 DEF TurnOK
<1> QED BY <1>2, <1>3, <1>4 DEF WInv

(* Every step keeps the invariant. *)
LEMMA NextWInv ==
    ASSUME CInv, WorldOK, WInv, SlicesDistinct, Next
    PROVE  WInv'
<1>1. CASE \E r \in Requests, o \in Ops, n \in Names : Request(r, o, n)
  BY <1>1, RequestWInv
<1>2. CASE \E n \in Names \cup {None} : Commit(n)
  <2>1. UNCHANGED wakeVars /\ UNCHANGED stack
    BY <1>2 DEF Commit, wakeVars, worldVars, entitydVars, systemdVars, queueVars
  <2> QED BY <2>1, StutterWInv
<1>3. CASE Executes
  BY <1>3, DropWInv, RunWInv DEF Executes
<1>4. CASE SystemBusStep
  BY <1>4, SystemBusWInv
<1>5. CASE \E n \in Names : EntityBusStep(n)
  BY <1>5, EntityBusWInv
<1>6. CASE \E r \in Requests : EntitydCallTimesOut(r) \/ SystemdCallTimesOut(r)
  BY <1>6, HangupWInv
<1>7. CASE SystemdStep \/ \E n \in Names : EntitydStep(n) \/ EntitydDies(n)
  BY <1>7, WorldWInv
<1>8. CASE DaemonRestarts
  BY <1>8, RestartWInv
<1> QED BY <1>1, <1>2, <1>3, <1>4, <1>5, <1>6, <1>7, <1>8 DEF Next

-----------------------------------------------------------------------------
(* The invariant says that every suspended request can be resumed. *)

(* The calls systemd has not handled, its replies and its signals. *)
Sent    == {calls[i] : i \in DOMAIN calls}
Replies == {inbox[i].call : i \in {j \in DOMAIN inbox : inbox[j].type = "reply"}}
Removed == {inbox[i].call : i \in {j \in DOMAIN inbox : inbox[j].type = "removed"}}

(* The call or the reply that is there is the one the request made. *)
LEMMA CallThere ==
    ASSUME CInv, WorldOK, UnitOK, NEW r \in Requests, ~Gone(r), Pc(r) \in UnitPcs
    PROVE  Call(r, Pc(r)) \in Sent \cup Replies
<1>1. ASSUME NEW c \in UnitCalls, c.req = r, Expected(c.req, c.what, c.ent) PROVE c = Call(r, Pc(r))
  BY <1>1 DEF Expected, UnitCalls, Call, Ent, Pc
<1>2. CASE \E i \in DOMAIN calls : calls[i].req = r
  <2>1. PICK i \in DOMAIN calls : calls[i].req = r
    BY <1>2
  <2>2. calls[i] = Call(r, Pc(r))
    BY <1>1, <2>1, CallItem DEF UnitOK, ExpectedMessages, ExpectedCall
  <2> QED BY <2>2 DEF Sent
<1>3. CASE \E i \in DOMAIN inbox : IsReply(i) /\ inbox[i].call.req = r
  <2>1. PICK i \in DOMAIN inbox : IsReply(i) /\ inbox[i].call.req = r
    BY <1>3
  <2>2. inbox[i].call = Call(r, Pc(r))
    BY <1>1, <2>1, InboxItem DEF UnitOK, ExpectedMessages, ExpectedReply
  <2> QED BY <2>1, <2>2 DEF Replies, IsReply
<1> QED BY <1>2, <1>3 DEF UnitOK, Waits, CallComing

(* The job that is there, or its end, is the one the request waits for. *)
LEMMA EndThere ==
    ASSUME CInv, WorldOK, UnitOK, NEW r \in Requests, ~Gone(r), Pc(r) \in JobPcs
    PROVE  \E c \in jobs \cup Removed : c \in UnitCalls /\ Serves(c, CallOf(Pc(r)), r, Ent(r))
<1>1. EndComing(0, CallOf(Pc(r)), r, Ent(r))
  BY DEF UnitOK, Waits
<1>2. \A i \in DOMAIN inbox : ~IsReply(i) => inbox[i].call \in Removed /\ inbox[i].call \in UnitCalls
  <2>1. ASSUME NEW i \in DOMAIN inbox, ~IsReply(i) PROVE inbox[i].type = "removed"
    BY <2>1, InboxItem DEF IsReply, Messages
  <2> QED BY <2>1, InboxItem DEF Removed
<1> QED BY <1>1, <1>2 DEF EndComing, WorldOK

(* Every suspended request can be resumed. *)
LEMMA SomethingComing ==
    ASSUME CInv, WorldOK, WInv, NEW r \in Requests, chain[r] # <<>>
    PROVE  Resumable(r)
<1> PICK pc, n : pc = Pc(r) /\ n = Ent(r)
  OBVIOUS
<1>1. ~Gone(r) /\ pc \in Pcs /\ n \in Names /\ pc # "uplink"
  <2>1. Depth(r) \in 1..Depth(r) /\ ~(Depth(r) < Depth(r))
    BY DEF CInv, ChainOK, Depth
  <2>2. Frame(r).pc # "uplink"
    BY <2>1 DEF CInv, ChainOK, Frame
  <2> QED BY <2>2, PcType DEF Gone, Pc
<1>2. Frame(r).pc = pc /\ Frame(r).ent = n
  BY DEF Pc, Ent
<1>3. CASE pc \in {"slice", "scope", "stopUnit"}
  <2>1. Call(r, pc) \in Sent \cup Replies
    BY <1>1, <1>3, CallThere DEF WInv, UnitPcs
  <2> QED BY <1>2, <1>3, <2>1 DEF Resumable, Sent, Replies
<1>4. CASE pc = "sliceJob"
  <2>1. PICK c \in jobs \cup Removed : c \in UnitCalls /\ Serves(c, "slice", r, n)
    BY <1>1, <1>4, EndThere DEF WInv, JobPcs, CallOf
  <2>2. c = Call(r, "slice")
    BY <1>2, <2>1 DEF Serves, UnitCalls, Call
  <2>3. Call(r, "slice") \in jobs \cup Removed
    BY <2>1, <2>2
  <2> QED BY <1>2, <1>4, <2>3 DEF Resumable, Removed
<1>5. CASE pc = "scopeJob"
  <2>1. PICK c \in jobs \cup Removed : c \in UnitCalls /\ Serves(c, "scope", r, n)
    BY <1>1, <1>5, EndThere DEF WInv, JobPcs, CallOf
  <2>2. c = Call(r, "scope")
    BY <1>2, <2>1 DEF Serves, UnitCalls, Call
  <2>3. Call(r, "scope") \in jobs \cup Removed
    BY <2>1, <2>2
  <2> QED BY <1>2, <1>5, <2>3 DEF Resumable, Removed
<1>6. CASE pc = "stopJob"
  <2>1. \E c \in jobs \cup Removed : c.what = "stopUnit" /\ Slice[c.ent] = Slice[n]
    BY <1>1, <1>6, EndThere DEF WInv, JobPcs, CallOf, Serves
  <2> QED BY <1>2, <1>6, <2>1 DEF Resumable, Removed
<1>7. CASE pc \in {"component", "shutdown"}
  <2>1. AnswerComing(r, n)
    BY <1>1, <1>7 DEF WInv, BusOK, BusPcs
  <2> QED BY <1>2, <1>7, <2>1 DEF Resumable, AnswerComing
<1>8. CASE pc = "queued"
  <2>1. InQueue(r)
    BY <1>1, <1>8 DEF WInv, TurnOK
  <2> QED BY <1>2, <1>8, <2>1 DEF Resumable, InQueue
<1>9. CASE pc \in RunPcs
  <2>1. 1 \in DOMAIN stack /\ stack[1] = Run(r)
    BY <1>1, <1>9 DEF WInv, TurnOK, OnTop, CInv, StackOK
  <2> QED BY <1>2, <1>9, <2>1 DEF Resumable, RunPcs
<1>10. \/ pc \in {"slice", "scope", "stopUnit"} \/ pc = "sliceJob" \/ pc = "scopeJob" \/ pc = "stopJob"
       \/ pc \in {"component", "shutdown"} \/ pc = "queued" \/ pc \in RunPcs
  BY <1>1 DEF Pcs, RunPcs
<1> QED BY <1>3, <1>4, <1>5, <1>6, <1>7, <1>8, <1>9, <1>10

(***************************************************************************)
(* The start() and stop() coroutines never miss what resumes them.  In     *)
(* every state of the daemon, whatever fails, times out, dies or restarts, *)
(* each suspended frame has its call, its reply, its job, the JobRemoved   *)
(* signal of its job, its answer, its place in an entity queue or its turn *)
(* on the call stack still ahead of it.  With two entities in one slice    *)
(* this does not hold: the first Stop takes the signal both wait for.      *)
(***************************************************************************)
THEOREM LifecycleNoLostWakeup ==
    ASSUME SlicesDistinct PROVE Spec => []NoLostWakeup
<1>1. Init => WInv
  BY InitWInv
<1>2. ASSUME CInv, WorldOK, WInv, [Next]_vars PROVE WInv'
  <2>1. CASE Next
    BY <1>2, <2>1, NextWInv
  <2>2. CASE UNCHANGED vars
    <3>1. UNCHANGED wakeVars /\ UNCHANGED stack
      BY <2>2 DEF vars, daemonVars, queueVars, worldVars, entitydVars, systemdVars, wakeVars
    <3> QED BY <1>2, <3>1, StutterWInv
  <2> QED BY <1>2, <2>1, <2>2
<1>3. CInv /\ WorldOK /\ WInv => NoLostWakeup
  BY SomethingComing DEF NoLostWakeup
<1>4. Spec => [](CInv /\ WorldOK)
  BY Invariant
<1> QED BY <1>1, <1>2, <1>3, <1>4, PTL DEF Spec

=============================================================================
