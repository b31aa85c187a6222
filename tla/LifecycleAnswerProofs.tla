----------------------- MODULE LifecycleAnswerProofs -----------------------
(***************************************************************************)
(* What a successful answer means. A Stop that succeeds has stopped its    *)
(* entity, whatever fails: the process is gone, the namespace is torn      *)
(* down, the slice is inactive and nothing is left in _live_entities. A    *)
(* Start that succeeds has started its entity and its uplinks, where       *)
(* nothing is stopped. Both hold for any entities, requests and uplinks;   *)
(* the second half of the module is about the Start.                       *)
(*                                                                         *)
(* A Stop takes the end of any job of its slice for the end of its own, so *)
(* the argument is about all the jobs of that slice. While a Stop waits it *)
(* has the token of the entity, so that nobody else can call for the slice *)
(* or spawn the process. What had been called for before is either handled *)
(* before the StopUnit call, whose job cancels it, or signalled before its *)
(* reply. After the reply there are only stop jobs, and the first of them  *)
(* that succeeds leaves the slice inactive, where it stays.                *)
(***************************************************************************)
EXTENDS LifecycleMessageProofs

(* No slice is inside another: no name begins with another one and a dash. *)
SlicesFlat == \A s \in Slices : Inside[s] = {}

(* Where a Stop waits for its entityd, and where it is done with it. *)
StopPcs == {"shutdown", "stopUnit", "stopJob"}
DownPcs == {"stopUnit", "stopJob"}

-----------------------------------------------------------------------------
(* A Stop is one coroutine, of the entity it was called for. *)
StopFrame(r) ==
    ~Gone(r) /\ op[r] = "stop" =>
        /\ Depth(r) = 1
        /\ Ent(r) = target[r]
        /\ Pc(r) \in {"enqueue", "queued", "entered"} \cup StopPcs

(* Entityd n has answered the call of r. *)
HasAnswer(r, n) == \E i \in DOMAIN eanswers[n] : eanswers[n][i].req = r

(* Entityd n has torn down its namespace and is not asked to set up another. *)
TornDown(n) == ns[n] = "down" /\ ecalls[n] = <<>>

(* Once Shutdown is answered everything is torn down, then the process is gone too. *)
ProcessDown(r) ==
    ~Gone(r) =>
        /\ Pc(r) = "shutdown" /\ HasAnswer(r, Ent(r)) => TornDown(Ent(r))
        /\ Pc(r) \in DownPcs => TornDown(Ent(r)) /\ Ent(r) \notin live /\ proc[Ent(r)] = "none"

(* The call or the job to start the slice of n. *)
IsStart(c, n) == c.what = "slice" /\ c.ent = n

(* Nobody has called for the slice of n after place k of the calls, and it is not being started. *)
NoStartAfter(k, n) == \A i \in DOMAIN calls : i > k => ~IsStart(calls[i], n)
NoStart(n)         == NoStartAfter(0, n) /\ \A job \in jobs : ~IsStart(job, n)

(* Message i, if it is the end of a job of the slice of n, is that of a stop job, which worked if
   it says so. *)
StopSignal(i, n) ==
    ~IsReply(i) /\ inbox[i].call.what # "scope" /\ inbox[i].call.ent = n =>
        inbox[i].call.what = "stopUnit" /\ (inbox[i].ok => Slice[n] \notin unit)

(* From place k of the inbox on the slice of n is only being stopped. *)
OnlyStops(k, n) == NoStart(n) /\ \A i \in DOMAIN inbox : i > k => StopSignal(i, n)

(* From the StopUnit call on, and from its reply on. *)
CallIsLast(r, n) == \A i \in DOMAIN calls : calls[i].req = r => NoStartAfter(i, n)
ReplyStops(r, n) ==
    \A i \in DOMAIN inbox : IsReply(i) /\ inbox[i].ok /\ inbox[i].call.req = r => OnlyStops(i, n)

(* What a Stop waits for from systemd means that its slice is inactive. *)
SliceDown(r) ==
    ~Gone(r) =>
        /\ Pc(r) = "stopUnit" => CallIsLast(r, Ent(r)) /\ ReplyStops(r, Ent(r))
        /\ Pc(r) = "stopJob" => OnlyStops(0, Ent(r))

(* The invariant of a Stop. *)
StopOK(r) == StopFrame(r) /\ ProcessDown(r) /\ SliceDown(r)
StopInv   == \A r \in Requests : StopOK(r)

-----------------------------------------------------------------------------
(* Steps that leave the entity of a Stop alone. *)

(* A Stop stays where it is. *)
LEMMA StopFrameKept ==
    ASSUME NEW r, Same(r), op'[r] = op[r], target'[r] = target[r], StopFrame(r)
    PROVE  StopFrame(r)'
BY DEF StopFrame, Same

(* Nothing of entity n is set up, and no answer of its entityd comes in. *)
LeavesProcess(n) ==
    /\ TornDown(n) => TornDown(n)'
    /\ n \notin live => n \notin live'
    /\ proc[n] = "none" => proc'[n] = "none"
    /\ \A s \in Requests : HasAnswer(s, n)' => HasAnswer(s, n)

(* What is torn down remains so. *)
LEMMA ProcessKept ==
    ASSUME NEW r \in Requests, Same(r), ProcessDown(r),
           ~Gone(r) /\ Pc(r) \in StopPcs => LeavesProcess(Ent(r))
    PROVE  ProcessDown(r)'
<1> SUFFICES ASSUME ~Gone(r)' PROVE ProcessDown(r)'
  BY DEF ProcessDown
<1> PICK n : n = Ent(r)
  OBVIOUS
<1>1. ~Gone(r) /\ Pc(r)' = Pc(r) /\ Ent(r)' = n
  BY DEF Same
<1>2. CASE Pc(r) \notin StopPcs
  BY <1>1, <1>2 DEF ProcessDown, StopPcs, DownPcs
<1>3. CASE Pc(r) \in StopPcs
  <2>1. LeavesProcess(n)
    BY <1>1, <1>3
  <2>2. /\ Pc(r) = "shutdown" /\ HasAnswer(r, n)' => TornDown(n)'
        /\ Pc(r) \in DownPcs => TornDown(n)' /\ n \notin live' /\ proc'[n] = "none"
    BY <1>1, <2>1 DEF ProcessDown, LeavesProcess
  <2> QED BY <1>1, <2>2 DEF ProcessDown, HasAnswer, TornDown
<1> QED BY <1>2, <1>3

(* Nobody but r calls systemd for entity n, and its slice is not started. *)
LeavesSlice(r, n) ==
    /\ calls' = calls \/ \E c \in UnitCalls : calls' = Append(calls, c) /\ c.req # r /\ ~IsStart(c, n)
    /\ Slice[n] \notin unit => Slice[n] \notin unit'

(* Calls for other things than the slice of n. *)
LEMMA OtherCalls ==
    ASSUME WorldOK, NEW r, NEW n, LeavesSlice(r, n)
    PROVE  /\ \A k \in Nat : NoStartAfter(k, n) => NoStartAfter(k, n)'
           /\ CallIsLast(r, n) => CallIsLast(r, n)'
<1>0. calls \in Seq(UnitCalls) /\ Len(calls) \in Nat /\ DOMAIN calls = 1..Len(calls)
  BY DEF WorldOK
<1>1. CASE calls' = calls
  BY <1>1 DEF NoStartAfter, CallIsLast
<1>2. ASSUME NEW c \in UnitCalls, calls' = Append(calls, c), c.req # r, ~IsStart(c, n)
      PROVE  /\ \A k \in Nat : NoStartAfter(k, n) => NoStartAfter(k, n)'
             /\ CallIsLast(r, n) => CallIsLast(r, n)'
  <2>1. \A i \in DOMAIN calls' : \/ i \in DOMAIN calls /\ calls'[i] = calls[i]
                                 \/ calls'[i] = c
    BY <1>0, <1>2, AppendFacts
  <2>2. \A k \in Nat : NoStartAfter(k, n) => NoStartAfter(k, n)'
    BY <1>2, <2>1 DEF NoStartAfter, IsStart
  <2>3. ASSUME CallIsLast(r, n), NEW i \in DOMAIN calls', calls'[i].req = r PROVE NoStartAfter(i, n)'
    <3>1. i \in DOMAIN calls /\ calls[i].req = r
      BY <1>2, <2>1, <2>3
    <3>2. i \in Nat /\ NoStartAfter(i, n)
      BY <1>0, <2>3, <3>1 DEF CallIsLast
    <3> QED BY <2>2, <3>2
  <2> QED BY <2>2, <2>3 DEF CallIsLast
<1> QED BY <1>1, <1>2 DEF LeavesSlice

(* The signals that are left are still those of stop jobs. *)
LEMMA StopsKept ==
    ASSUME WorldOK, jobs' = jobs, NEW r, NEW n, LeavesSlice(r, n), NEW k \in Nat,
           \/ inbox' = inbox /\ OnlyStops(k, n)
           \/ inbox # <<>> /\ inbox' = Tail(inbox) /\ OnlyStops(k + 1, n)
           \/ inbox # <<>> /\ inbox' = Tail(inbox) /\ k = 0 /\ OnlyStops(0, n)
    PROVE  OnlyStops(k, n)'
<1>1. NoStart(n)'
  BY OtherCalls DEF OnlyStops, NoStart
<1>2. CASE inbox' = inbox /\ OnlyStops(k, n)
  BY <1>1, <1>2 DEF OnlyStops, StopSignal, IsReply, LeavesSlice
<1>3. CASE inbox # <<>> /\ inbox' = Tail(inbox)
  <2>1. ASSUME NEW i \in DOMAIN inbox', i > k PROVE StopSignal(i, n)'
    <3>1. i \in Nat /\ i + 1 \in DOMAIN inbox /\ inbox'[i] = inbox[i + 1]
      BY <1>3, PopFacts
    <3>2. i + 1 > k + 1 /\ i + 1 > 0
      BY <2>1, <3>1
    <3>3. StopSignal(i + 1, n)
      BY <1>3, <3>1, <3>2 DEF OnlyStops
    <3> QED BY <3>1, <3>3 DEF StopSignal, IsReply, LeavesSlice
  <2> QED BY <1>1, <2>1 DEF OnlyStops
<1> QED BY <1>2, <1>3

(* What a Stop waits for from systemd still means that its slice is inactive. *)
LEMMA SliceKept ==
    ASSUME WorldOK, jobs' = jobs, Shrinks, NEW r \in Requests, Same(r), SliceDown(r),
           ~Gone(r) /\ Pc(r) \in DownPcs => LeavesSlice(r, Ent(r))
    PROVE  SliceDown(r)'
<1> SUFFICES ASSUME ~Gone(r)', Pc(r)' \in DownPcs PROVE SliceDown(r)'
  BY DEF SliceDown, DownPcs
<1> PICK n : n = Ent(r)
  OBVIOUS
<1>1. ~Gone(r) /\ Pc(r)' = Pc(r) /\ Ent(r)' = n /\ LeavesSlice(r, n)
  BY DEF Same
<1>2. CASE Pc(r) = "stopJob"
  <2>1. OnlyStops(0, n)
    BY <1>1, <1>2 DEF SliceDown
  <2>2. OnlyStops(0, n)'
    BY <1>1, <2>1, StopsKept DEF Shrinks
  <2> QED BY <1>1, <1>2, <2>2 DEF SliceDown
<1>3. CASE Pc(r) = "stopUnit"
  <2>1. CallIsLast(r, n) /\ ReplyStops(r, n)
    BY <1>1, <1>3 DEF SliceDown
  <2>2. CallIsLast(r, n)'
    BY <1>1, <2>1, OtherCalls
  <2>3. ASSUME NEW i \in DOMAIN inbox', IsReply(i)', inbox'[i].ok, inbox'[i].call.req = r
        PROVE  OnlyStops(i, n)'
    <3>1. CASE inbox' = inbox
      <4>1. i \in Nat /\ OnlyStops(i, n)
        BY <2>1, <2>3, <3>1 DEF ReplyStops, IsReply, WorldOK
      <4> QED BY <1>1, <3>1, <4>1, StopsKept
    <3>2. CASE inbox # <<>> /\ inbox' = Tail(inbox)
      <4>1. i \in Nat /\ i + 1 \in DOMAIN inbox /\ inbox'[i] = inbox[i + 1]
        BY <3>2, PopFacts
      <4>2. OnlyStops(i + 1, n)
        BY <2>1, <2>3, <4>1 DEF ReplyStops, IsReply
      <4> QED BY <1>1, <3>2, <4>1, <4>2, StopsKept
    <3> QED BY <3>1, <3>2 DEF Shrinks
  <2>4. ReplyStops(r, n)'
    BY <2>3 DEF ReplyStops
  <2> QED BY <1>1, <1>3, <2>2, <2>4 DEF SliceDown
<1> QED BY <1>1, <1>2, <1>3 DEF DownPcs

-----------------------------------------------------------------------------
(* Steps of the daemon. *)

(* A request that is not in one of the waits of a Stop has nothing to keep. *)
LEMMA OffStop ==
    ASSUME NEW r, Gone(r)' \/ Pc(r)' \notin StopPcs
    PROVE  ProcessDown(r)' /\ SliceDown(r)'
BY DEF ProcessDown, SliceDown, StopPcs, DownPcs

(* Nobody else has the token of the entity that is being stopped. *)
LEMMA StopsAlone ==
    ASSUME CInv, NEW r \in Requests, ~Gone(r), Pc(r) \in StopPcs,
           NEW s \in Requests, s # r, ~Gone(s), Pc(s) \notin {"enqueue", "queued"}
    PROVE  Ent(s) # Ent(r)
BY TokenAlone DEF StopPcs

(* A step that is not about processes, units and messages, for a request it does not move. *)
LEMMA StopStays ==
    ASSUME WorldOK, UNCHANGED worldVars, UNCHANGED <<op, target>>, NEW r \in Requests, Same(r), StopOK(r)
    PROVE  StopOK(r)'
<1>1. \A n : LeavesProcess(n) /\ LeavesSlice(r, n)
  BY DEF LeavesProcess, LeavesSlice, TornDown, HasAnswer, worldVars, entitydVars, systemdVars
<1>2. jobs' = jobs /\ Shrinks
  BY DEF Shrinks, worldVars, systemdVars
<1> QED BY <1>1, <1>2, StopFrameKept, ProcessKept, SliceKept DEF StopOK

(* The same for a request that ends. *)
LEMMA StopEnds ==
    ASSUME NEW r, Gone(r)'
    PROVE  StopOK(r)'
BY OffStop DEF StopOK, StopFrame

(* A new request. *)
LEMMA RequestStop ==
    ASSUME CInv, WorldOK, StopInv, NEW s \in Requests, NEW o \in Ops, NEW n \in Names, Request(s, o, n)
    PROVE  StopInv'
<1>1. /\ Only(s) /\ Gone(s)
      /\ Same(s) \/ (~Gone(s)' /\ Pc(s)' = "enqueue")
  BY RequestEffect
<1>2. UNCHANGED worldVars
  BY DEF Request
<1>3. ASSUME NEW r \in Requests, r # s PROVE StopOK(r)'
  <2>1. op'[r] = op[r] /\ target'[r] = target[r] /\ Same(r) /\ StopOK(r)
    BY <1>1, <1>3 DEF Request, Only, StopInv
  <2>2. \A m : LeavesProcess(m) /\ LeavesSlice(r, m)
    BY <1>2 DEF LeavesProcess, LeavesSlice, TornDown, HasAnswer, worldVars, entitydVars, systemdVars
  <2>3. jobs' = jobs /\ Shrinks
    BY <1>2 DEF Shrinks, worldVars, systemdVars
  <2> QED BY <2>1, <2>2, <2>3, StopFrameKept, ProcessKept, SliceKept DEF StopOK
<1>4. StopOK(s)'
  <2>1. CASE Gone(s)'
    BY <2>1, StopEnds
  <2>2. CASE ~Gone(s)'
    <3>1. Pc(s)' = "enqueue"
      BY <1>1, <2>2 DEF Same
    <3>2. chain'[s] = <<NewFrame(n)>>
      <4>1. chain' # chain
        BY <1>1, <2>2 DEF Gone
      <4> QED BY <4>1 DEF Request, CInv, ChainOK
    <3>3. Depth(s)' = 1 /\ Ent(s)' = n
      BY <3>2 DEF Depth, Ent, Frame, NewFrame
    <3>4. target'[s] = n
      BY DEF Request, WorldOK
    <3>5. StopFrame(s)'
      BY <3>1, <3>3, <3>4 DEF StopFrame
    <3> QED BY <3>1, <3>5, OffStop DEF StopOK, StopPcs
  <2> QED BY <2>1, <2>2
<1> QED BY <1>3, <1>4 DEF StopInv

(* What a step of a running coroutine changes elsewhere. *)
LEMMA RunElse ==
    ASSUME CInv, WorldOK, NEW s \in Requests, RunStep(s)
    PROVE  /\ UNCHANGED <<op, target, ns>>
           /\ unit' \subseteq unit
           /\ live' = live \/ (Pc(s) = "spawn" /\ live' = live \cup {Ent(s)})
<1> USE DEF worldVars, entitydVars, systemdVars
<1>1. CASE Spawn(s) \/ SpawnBusFails(s)
  <2>1. /\ Running(s, "spawn") /\ \E e : Spawned(Frame(s).ent, e)
        /\ UNCHANGED <<op, target, ns>>
    BY <1>1 DEF Spawn, SpawnBusFails
  <2>2. Pc(s) = "spawn"
    BY <2>1, OnTopFacts
  <2> QED BY <2>1, <2>2 DEF Spawned, Ent
<1>2. CASE ~(Spawn(s) \/ SpawnBusFails(s))
  <2>1. UNCHANGED <<op, target, ns, unit, live>>
    BY <1>2, Zenon
       DEF RunStep, Enqueue, StartAlreadyLive, StartUplink, DanglingCrash, SpawnForkFails,
           SpawnAllocFails, SpawnHandshakeFails, Components, StopNotLive, StopShutdown,
           StopBusClosed, Abort
  <2> QED BY <2>1
<1> QED BY <1>1, <1>2

(* A running Stop gets in line, enters, asks its entityd to shut down, or ends. *)
LEMMA RunStopFrame ==
    ASSUME CInv, WorldOK, NEW r \in Requests, RunStep(r), StopFrame(r)
    PROVE  StopFrame(r)'
<1> USE DEF StopPcs, Pcs
<1> SUFFICES ASSUME ~Gone(r)', op[r] = "stop" PROVE StopFrame(r)'
  BY RunElse DEF StopFrame
<1>1. UNCHANGED <<op, target>> /\ ~Gone(r)
  BY RunElse, RunEffect
<1>2. Depth(r) = 1 /\ Ent(r) = target[r] /\ Pc(r) \in {"enqueue", "queued", "entered"} \cup StopPcs
  BY <1>1 DEF StopFrame
<1>3. ASSUME NEW pc \in {"queued", "entered", "shutdown"}, chain' = At(r, pc) PROVE StopFrame(r)'
  BY <1>1, <1>2, <1>3, AtEffect DEF StopFrame
<1>4. CASE UNCHANGED chain
  BY <1>1, <1>4, SameFacts, StopFrameKept
<1>5. ASSUME NEW rest, Fail(r, rest) PROVE StopFrame(r)'
  BY <1>5, FailEffect
<1>6. \A pc \in {"spawn", "components"} : ~Running(r, pc)
  BY <1>2, OnTopFacts
<1>7. CASE Enqueue(r)
  BY <1>3, <1>7 DEF Enqueue, Suspend
<1>8. CASE StopNotLive(r) \/ StopShutdown(r) \/ StopBusClosed(r)
  BY <1>3, <1>4, <1>5, <1>8 DEF StopNotLive, StopShutdown, StopBusClosed, Abort, Suspend
<1>9. ~StartAlreadyLive(r) /\ ~StartUplink(r) /\ ~DanglingCrash(r)
  BY DEF StartAlreadyLive, StartUplink, DanglingCrash
<1>10. /\ ~Spawn(r) /\ ~SpawnForkFails(r) /\ ~SpawnAllocFails(r) /\ ~SpawnBusFails(r)
       /\ ~SpawnHandshakeFails(r) /\ ~Components(r)
  BY <1>6 DEF Spawn, SpawnForkFails, SpawnAllocFails, SpawnBusFails, SpawnHandshakeFails, Components
<1> QED BY <1>7, <1>8, <1>9, <1>10 DEF RunStep

(* A running coroutine. *)
LEMMA RunStop ==
    ASSUME CInv, WorldOK, WInv, StopInv, NEW s \in Requests, RunStep(s)
    PROVE  StopInv'
<1>1. /\ Only(s) /\ ~Gone(s) /\ Pc(s) \in RunPcs
      /\ UNCHANGED <<inbox, jobs, eanswers>>
      /\ Queues(s) \/ GoesOn(s) \/ CallsSystemd(s) \/ CallsEntityd(s)
  BY RunEffect
<1>2. /\ UNCHANGED <<op, target, ns>>
      /\ unit' \subseteq unit
      /\ live' = live \/ (Pc(s) = "spawn" /\ live' = live \cup {Ent(s)})
  BY RunElse
<1>3. ASSUME NEW r \in Requests, r # s PROVE StopOK(r)'
  <2>1. Same(r) /\ StopOK(r) /\ Shrinks
    BY <1>1, <1>3 DEF Only, StopInv, Shrinks
  <2>2. ASSUME ~Gone(r), Pc(r) \in StopPcs
        PROVE  LeavesProcess(Ent(r)) /\ LeavesSlice(r, Ent(r))
    <3> PICK n \in Names : n = Ent(r)
      BY <2>2, PcType
    <3>1. Pc(s) = "enqueue" \/ Ent(s) # n
      BY <1>1, <1>3, <2>2, StopsAlone DEF RunPcs
    <3>2. /\ proc'[n] = proc[n] /\ ecalls'[n] = ecalls[n]
          /\ \/ calls' = calls
             \/ Ent(s) # n /\ calls' = Append(calls, Call(s, "slice"))
      <4>1. CASE Queues(s)
        BY <4>1 DEF Queues
      <4>2. CASE GoesOn(s)
        BY <3>1, <4>2 DEF GoesOn
      <4>3. CASE CallsSystemd(s)
        BY <3>1, <4>3 DEF CallsSystemd
      <4>4. CASE CallsEntityd(s)
        BY <3>1, <4>4 DEF CallsEntityd
      <4> QED BY <1>1, <4>1, <4>2, <4>3, <4>4
    <3>3. LeavesProcess(n)
      BY <1>1, <1>2, <3>1, <3>2 DEF LeavesProcess, TornDown, HasAnswer
    <3>4. Call(s, "slice") \in UnitCalls /\ Call(s, "slice").req = s /\ Call(s, "slice").ent = Ent(s)
      BY <1>1, CallFacts DEF Gone, Call, Ent
    <3>5. LeavesSlice(r, n)
      BY <1>2, <1>3, <3>2, <3>4 DEF LeavesSlice, IsStart
    <3> QED BY <3>3, <3>5
  <2>3. \A pc \in DownPcs : pc \in StopPcs
    BY DEF DownPcs, StopPcs
  <2> QED BY <1>1, <1>2, <2>1, <2>2, <2>3, StopFrameKept, ProcessKept, SliceKept DEF StopOK
<1>4. StopOK(s)'
  <2>1. StopFrame(s)'
    BY RunStopFrame DEF StopInv, StopOK
  <2>2. CASE Gone(s)' \/ Pc(s)' \notin StopPcs
    BY <2>1, <2>2, OffStop DEF StopOK
  <2>3. CASE ~Gone(s)' /\ Pc(s)' \in StopPcs
    <3>1. Pc(s)' = "shutdown" /\ Ent(s)' = Ent(s)
      BY <1>1, <2>3 DEF Queues, GoesOn, CallsSystemd, CallsEntityd, StopPcs, RunPcs, BusPcs
    <3> PICK n \in Names : n = Ent(s)
      BY <1>1, PcType
    <3>2. SilentOn(s, n)
      BY <1>1, SilentOnFacts DEF WInv, RunPcs, BusPcs
    <3>3. ~HasAnswer(s, n)'
      BY <1>1, <3>2 DEF SilentOn, HasAnswer
    <3>4. ProcessDown(s)'
      BY <3>1, <3>3 DEF ProcessDown, HasAnswer, DownPcs
    <3>5. SliceDown(s)'
      BY <3>1 DEF SliceDown
    <3> QED BY <2>1, <3>4, <3>5 DEF StopOK
  <2> QED BY <2>2, <2>3
<1> QED BY <1>3, <1>4 DEF StopInv

(* ~queue_token. *)
LEMMA DropStop ==
    ASSUME CInv, WorldOK, StopInv, DropToken
    PROVE  StopInv'
<1>1. UNCHANGED <<op, target>> /\ UNCHANGED worldVars
  BY DEF DropToken
<1>2. UNCHANGED chain \/ \E s \in Requests, n \in Names : Resumes(s, n)
  BY DropEffect
<1>3. CASE UNCHANGED chain
  BY <1>1, <1>3, SameFacts, StopStays DEF StopInv
<1>4. ASSUME NEW s \in Requests, NEW n \in Names, Resumes(s, n) PROVE StopInv'
  <2>1. ASSUME NEW r \in Requests, r # s PROVE StopOK(r)'
    BY <1>1, <1>4, <2>1, StopStays DEF Resumes, Only, StopInv
  <2>2. ~Gone(s) /\ Pc(s)' = "entered" /\ Ent(s)' = Ent(s) /\ Depth(s)' = Depth(s)
    BY <1>4 DEF Resumes
  <2>3. StopOK(s)'
    BY <1>1, <2>2, OffStop DEF StopInv, StopOK, StopFrame, StopPcs
  <2> QED BY <2>1, <2>3 DEF StopInv
<1> QED BY <1>2, <1>3, <1>4

(* sd-bus answers in place of the other side. *)
LEMMA HangupStop ==
    ASSUME CInv, WorldOK, StopInv, NEW s \in Requests,
           EntitydHangup(s) \/ EntitydCallTimesOut(s) \/ SystemdCallTimesOut(s)
    PROVE  StopInv'
<1>1. UNCHANGED <<op, target>> /\ UNCHANGED worldVars
  BY DEF EntitydHangup, EntitydCallTimesOut, SystemdCallTimesOut
<1>2. Only(s) /\ Gone(s)'
  BY HangupEffect
<1> QED BY <1>1, <1>2, StopStays, StopEnds DEF Only, StopInv

-----------------------------------------------------------------------------
(* Messages that come in. *)

(* A request that a step leaves where it is, with its entity and its slice alone. *)
LEMMA StopKept ==
    ASSUME WorldOK, jobs' = jobs, Shrinks, UNCHANGED <<op, target>>,
           NEW r \in Requests, Same(r), StopOK(r),
           ~Gone(r) /\ Pc(r) \in StopPcs => LeavesProcess(Ent(r)) /\ LeavesSlice(r, Ent(r))
    PROVE  StopOK(r)'
<1>1. op'[r] = op[r] /\ target'[r] = target[r] /\ \A pc \in DownPcs : pc \in StopPcs
  BY DEF DownPcs, StopPcs
<1> QED BY <1>1, StopFrameKept, ProcessKept, SliceKept DEF StopOK

(* The reply to a unit call. *)
LEMMA ReplyStop ==
    ASSUME CInv, WorldOK, WInv, StopInv, DeliverReply
    PROVE  StopInv'
<1> PICK s \in Requests, c \in UnitCalls : c.req = s /\ ReplyTo(s, c)
  BY ReplyEffect DEF WInv
<1>1. UNCHANGED <<op, target, live, ns, unit, proc, ecalls, eanswers, calls, jobs>>
  BY DEF DeliverReply, entitydVars
<1>2. /\ Only(s) /\ inbox # <<>> /\ inbox' = Tail(inbox) /\ IsReply(1) /\ c = inbox[1].call
      /\ \/ Gone(s)'
         \/ /\ inbox[1].ok /\ ~Gone(s) /\ ~Gone(s)' /\ Pc(s) = c.what /\ Ent(s)' = Ent(s)
            /\ Depth(s)' = Depth(s) /\ Pc(s)' = JobOf[c.what]
  BY DEF ReplyTo
<1>3. Shrinks /\ \A r, n : LeavesProcess(n) /\ LeavesSlice(r, n)
  BY <1>1, <1>2 DEF Shrinks, LeavesProcess, LeavesSlice, TornDown, HasAnswer
<1>4. ASSUME NEW r \in Requests, r # s PROVE StopOK(r)'
  BY <1>1, <1>2, <1>3, <1>4, StopKept DEF Only, StopInv
<1>5. ASSUME ~Gone(s)' PROVE StopOK(s)'
  <2>1. StopFrame(s) /\ ProcessDown(s) /\ SliceDown(s)
    BY DEF StopInv, StopOK
  <2>2. c.what \in UnitPcs /\ Pc(s) = c.what /\ Pc(s)' = JobOf[c.what] /\ ~Gone(s)
    BY <1>2, <1>5 DEF UnitCalls, UnitPcs
  <2> PICK n : n = Ent(s)
    OBVIOUS
  <2>3. CASE c.what = "stopUnit"
    <3>1. Pc(s)' = "stopJob" /\ Pc(s) = "stopUnit" /\ Ent(s)' = n
      BY <1>2, <1>5, <2>2, <2>3 DEF JobOf
    <3>2. StopFrame(s)'
      BY <1>1, <1>2, <1>5, <2>1, <2>2, <3>1 DEF StopFrame, StopPcs
    <3>3. TornDown(n) /\ n \notin live /\ proc[n] = "none"
      BY <2>1, <2>2, <3>1 DEF ProcessDown, DownPcs
    <3>4. ProcessDown(s)'
      BY <1>1, <3>1, <3>3 DEF ProcessDown, TornDown
    <3>5. ReplyStops(s, n) /\ 1 \in DOMAIN inbox
      BY <1>2, <2>1, <2>2, <3>1 DEF SliceDown, ReplyTo
    <3>6. OnlyStops(0 + 1, n)
      BY <1>2, <1>5, <3>5 DEF ReplyStops
    <3>7. OnlyStops(0, n)'
      BY <1>1, <1>2, <1>3, <3>6, StopsKept
    <3>8. SliceDown(s)'
      BY <3>1, <3>7 DEF SliceDown
    <3> QED BY <3>2, <3>4, <3>8 DEF StopOK
  <2>4. CASE c.what # "stopUnit"
    <3>1. Pc(s) \notin StopPcs /\ Pc(s)' \notin StopPcs /\ Pc(s) \notin {"enqueue", "queued", "entered"}
      BY <2>2, <2>4 DEF JobOf, UnitPcs, StopPcs
    <3>2. op[s] # "stop"
      BY <2>1, <2>2, <3>1 DEF StopFrame
    <3>3. StopFrame(s)'
      BY <1>1, <3>2 DEF StopFrame
    <3> QED BY <3>1, <3>3, OffStop DEF StopOK
  <2> QED BY <2>3, <2>4
<1> QED BY <1>4, <1>5, StopEnds DEF StopInv

(* A JobRemoved signal. *)
LEMMA SignalStop ==
    ASSUME CInv, WorldOK, WInv, StopInv, SlicesDistinct, DeliverJobRemoved
    PROVE  StopInv'
<1> PICK s \in Requests : SignalTo(s)
  BY SignalEffect
<1>1. UNCHANGED <<op, target, live, ns, unit, proc, ecalls, eanswers, jobs>>
  BY DEF DeliverJobRemoved, entitydVars
<1>2. Only(s) /\ Taken(s)
  BY DEF SignalTo
<1>3. Shrinks /\ \A n : LeavesProcess(n)
  BY <1>1, <1>2 DEF Taken, Shrinks, LeavesProcess, TornDown, HasAnswer
<1>4. ASSUME NEW r \in Requests, r # s PROVE StopOK(r)'
  <2>1. \A n : LeavesSlice(r, n)
    <3>1. CASE UNCHANGED calls
      BY <1>1, <3>1 DEF LeavesSlice
    <3>2. CASE ~Gone(s) /\ calls' = Append(calls, Call(s, "scope"))
      <4>1. Call(s, "scope") \in UnitCalls /\ Call(s, "scope").req = s /\ Call(s, "scope").what = "scope"
        BY <3>2, CallFacts DEF Gone, Call
      <4> QED BY <1>1, <1>4, <3>2, <4>1 DEF LeavesSlice, IsStart
    <3> QED BY <3>1, <3>2 DEF SignalTo
  <2> QED BY <1>1, <1>2, <1>3, <1>4, <2>1, StopKept DEF Only, StopInv
<1>5. StopOK(s)'
  <2>1. StopFrame(s) /\ StopOK(s)
    BY DEF StopInv, StopOK
  <2>2. CASE Gone(s)'
    BY <2>2, StopEnds
  <2>3. CASE Same(s) /\ UNCHANGED calls
    <3>1. \A n : LeavesSlice(s, n)
      BY <1>1, <2>3 DEF LeavesSlice
    <3> QED BY <1>1, <1>3, <2>1, <2>3, <3>1, StopKept
  <2>4. CASE /\ ~Gone(s) /\ Pc(s)' \in {"scope", "components", "spawn"}
             /\ Pc(s) \in {"sliceJob", "scopeJob"} \/ Depth(s) # 1
    <3>1. op[s] # "stop"
      BY <2>1, <2>4 DEF StopFrame, StopPcs
    <3>2. StopFrame(s)'
      BY <1>1, <3>1 DEF StopFrame
    <3> QED BY <2>4, <3>2, OffStop DEF StopOK, StopPcs
  <2> QED BY <2>2, <2>3, <2>4 DEF SignalTo
<1> QED BY <1>4, <1>5 DEF StopInv

(* Taking an answer of entityd n off its queue brings in none. *)
LEMMA AnswersTaken ==
    ASSUME WorldOK, NEW n \in Names, eanswers[n] # <<>>, eanswers' = [eanswers EXCEPT ![n] = Tail(@)],
           NEW m \in Names, NEW r, HasAnswer(r, m)'
    PROVE  HasAnswer(r, m)
<1>1. eanswers[m] \in Seq(Calls) /\ eanswers'[m] = IF m = n THEN Tail(eanswers[m]) ELSE eanswers[m]
  BY DEF WorldOK
<1>2. PICK i \in DOMAIN eanswers'[m] : eanswers'[m][i].req = r
  BY DEF HasAnswer
<1>3. CASE m # n
  BY <1>1, <1>2, <1>3 DEF HasAnswer
<1>4. CASE m = n
  <2>1. eanswers[m] # <<>> /\ eanswers'[m] = Tail(eanswers[m])
    BY <1>1, <1>4
  <2>2. i + 1 \in DOMAIN eanswers[m] /\ eanswers'[m][i] = eanswers[m][i + 1]
    BY <1>1, <1>2, <2>1, TailFacts, ZenonT(30)
  <2> QED BY <1>2, <2>2 DEF HasAnswer
<1> QED BY <1>3, <1>4

(* The answer of an entityd to AddComponent. *)
LEMMA ComponentStop ==
    ASSUME CInv, WorldOK, WInv, StopInv, NEW n \in Names, DeliverComponent(n)
    PROVE  StopInv'
<1> PICK s : s = Head(eanswers[n]).req
  OBVIOUS
<1>1. /\ s \in Requests /\ Only(s)
      /\ eanswers[n] # <<>> /\ eanswers' = [eanswers EXCEPT ![n] = Tail(@)]
      /\ Gone(s)' \/ (~Gone(s) /\ Pc(s) = "component" /\ Pc(s)' = "spawn")
  BY ComponentEffect DEF WInv
<1>2. UNCHANGED <<op, target, live, ns, unit, proc, ecalls, calls, jobs, inbox>>
  BY DEF DeliverComponent, systemdVars
<1>3. /\ Shrinks
      /\ \A m \in Names : LeavesProcess(m)
      /\ \A r, m : LeavesSlice(r, m)
  BY <1>1, <1>2, AnswersTaken DEF Shrinks, LeavesProcess, LeavesSlice, TornDown
<1>4. ASSUME NEW r \in Requests, r # s PROVE StopOK(r)'
  BY <1>1, <1>2, <1>3, <1>4, PcType, StopKept DEF Only, StopInv
<1>5. StopOK(s)'
  <2>1. CASE Gone(s)'
    BY <2>1, StopEnds
  <2>2. CASE ~Gone(s) /\ Pc(s) = "component" /\ Pc(s)' = "spawn"
    <3>1. op[s] # "stop"
      BY <1>1, <2>2 DEF StopInv, StopOK, StopFrame, StopPcs
    <3>2. StopFrame(s)'
      BY <1>2, <3>1 DEF StopFrame
    <3> QED BY <2>2, <3>2, OffStop DEF StopOK, StopPcs
  <2> QED BY <1>1, <2>1, <2>2
<1> QED BY <1>4, <1>5 DEF StopInv

(* The answer of an entityd to Shutdown: the process is reaped and StopUnit called. *)
LEMMA ShutdownStop ==
    ASSUME CInv, WorldOK, WInv, StopInv, NEW n \in Names, DeliverShutdown(n)
    PROVE  StopInv'
<1> PICK s : s = Head(eanswers[n]).req
  OBVIOUS
<1>1. /\ s \in Requests /\ Only(s)
      /\ eanswers[n] # <<>> /\ eanswers' = [eanswers EXCEPT ![n] = Tail(@)]
      /\ \/ Gone(s)' /\ UNCHANGED calls
         \/ /\ ~Gone(s) /\ Pc(s) = "shutdown" /\ ~Gone(s)' /\ Pc(s)' = "stopUnit"
            /\ Ent(s)' = Ent(s) /\ Depth(s)' = Depth(s)
            /\ calls' = Append(calls, Call(s, "stopUnit"))
  BY ShutdownEffect DEF WInv
<1>2. /\ UNCHANGED <<op, target, ns, unit, ecalls, jobs, inbox>>
      /\ \/ Awaits(s, "shutdown") /\ proc' = [proc EXCEPT ![n] = "none"] /\ live' = live \ {n}
         \/ ~Awaits(s, "shutdown") /\ UNCHANGED <<proc, live>>
  BY DEF DeliverShutdown
<1>3. /\ Shrinks
      /\ \A m \in Names : LeavesProcess(m)
  <2>1. \A m \in Names : proc'[m] = "none" \/ proc'[m] = proc[m]
    BY <1>2 DEF WorldOK
  <2> QED BY <1>1, <1>2, <2>1, AnswersTaken DEF Shrinks, LeavesProcess, TornDown
<1>4. ~Gone(s) => /\ Call(s, "stopUnit") \in UnitCalls /\ Call(s, "stopUnit").req = s
                  /\ Call(s, "stopUnit").what = "stopUnit"
  BY <1>1, CallFacts DEF Gone, Call
<1>5. ASSUME NEW r \in Requests, r # s PROVE StopOK(r)'
  <2>1. \A m : LeavesSlice(r, m)
    BY <1>1, <1>2, <1>4, <1>5 DEF LeavesSlice, IsStart
  <2> QED BY <1>1, <1>2, <1>3, <1>5, <2>1, PcType, StopKept DEF Only, StopInv
<1>6. ASSUME ~Gone(s)' PROVE StopOK(s)'
  <2>1. /\ ~Gone(s) /\ Pc(s) = "shutdown" /\ Pc(s)' = "stopUnit" /\ Ent(s)' = Ent(s)
        /\ Depth(s)' = Depth(s) /\ calls' = Append(calls, Call(s, "stopUnit"))
    BY <1>1, <1>6
  <2>2. eanswers[n] \in Seq(Calls)
    BY DEF WorldOK
  <2>3. 1 \in DOMAIN eanswers[n] /\ eanswers[n][1].req = s
    BY <1>1, <2>2
  <2>4. Ent(s) = n /\ HasAnswer(s, n)
    BY <2>1, <2>3 DEF WInv, BusOK, ExpectedOn, Expected, HasAnswer
  <2>5. StopFrame(s) /\ ProcessDown(s)
    BY <1>1 DEF StopInv, StopOK
  <2>6. StopFrame(s)'
    BY <1>2, <2>1, <2>5 DEF StopFrame, StopPcs
  <2>7. TornDown(n) /\ n \notin live' /\ proc'[n] = "none"
    <3>1. Awaits(s, "shutdown")
      BY <2>1 DEF Awaits, Gone, Pc
    <3> QED BY <1>2, <2>1, <2>4, <2>5, <3>1 DEF ProcessDown, WorldOK
  <2>8. ProcessDown(s)'
    BY <1>2, <2>1, <2>4, <2>7 DEF ProcessDown, TornDown
  <2>9. Silent(s)
    BY <1>1, <2>1, SilentFacts DEF WInv, UnitOK, UnitPcs
  <2>10. ReplyStops(s, n)'
    BY <1>2, <2>9 DEF ReplyStops, Silent, IsReply
  <2>11. CallIsLast(s, n)'
    <3>1. calls \in Seq(UnitCalls)
      BY DEF WorldOK
    <3>2. \A i \in DOMAIN calls' : calls'[i].req = s => \A j \in DOMAIN calls' : ~(j > i)
      BY <1>4, <2>1, <2>9, <3>1 DEF Silent
    <3> QED BY <3>2 DEF CallIsLast, NoStartAfter
  <2>12. SliceDown(s)'
    BY <2>1, <2>4, <2>10, <2>11 DEF SliceDown
  <2> QED BY <2>6, <2>8, <2>12 DEF StopOK
<1> QED BY <1>5, <1>6, StopEnds DEF StopInv

-----------------------------------------------------------------------------
(* Steps of systemd. *)

(* Whatever systemd sends, the slice of n is still only being stopped. *)
LEMMA SentStops ==
    ASSUME WorldOK, NEW l \in Nat, NEW m, Sends(l, m), NEW n, NEW k \in Nat, OnlyStops(k, n), NoStart(n)',
           Slice[n] \notin unit => Slice[n] \notin unit',
           \A i \in DOMAIN inbox' : i > Len(inbox) => StopSignal(i, n)'
    PROVE  OnlyStops(k, n)'
<1> PICK e \in Nat : e = Len(inbox) /\ DOMAIN inbox = 1..e
  BY DEF WorldOK
<1>1. ASSUME NEW i \in DOMAIN inbox', i > k, ~(i > e) PROVE StopSignal(i, n)'
  <2>1. i \in DOMAIN inbox /\ inbox'[i] = inbox[i]
    BY <1>1 DEF Sends
  <2>2. StopSignal(i, n)
    BY <1>1, <2>1 DEF OnlyStops
  <2> QED BY <2>1, <2>2 DEF StopSignal, IsReply
<1> QED BY <1>1 DEF OnlyStops

(* The calls behind the first are what is left. *)
LEMMA CallsTaken ==
    ASSUME WorldOK, calls # <<>>, calls' = Tail(calls), NEW n, NEW k \in Nat,
           NoStartAfter(k + 1, n) \/ (k = 0 /\ NoStartAfter(0, n))
    PROVE  NoStartAfter(k, n)'
<1>1. ASSUME NEW i \in DOMAIN calls', i > k PROVE ~IsStart(calls'[i], n)
  <2>1. i \in Nat /\ i + 1 \in DOMAIN calls /\ calls'[i] = calls[i + 1]
    BY TailCalls
  <2>2. i + 1 > k + 1 /\ i + 1 > 0
    BY <1>1, <2>1
  <2> QED BY <2>1, <2>2 DEF NoStartAfter
<1> QED BY <1>1 DEF NoStartAfter, IsStart

(* Handling a call keeps the invariant of a Stop: a start of its slice is cancelled before the
   reply, and none comes after. *)
LEMMA HandleStop ==
    ASSUME CInv, WorldOK, WInv, StopInv, SystemdHandles
    PROVE  StopInv'
<1>1. UNCHANGED <<chain, op, target, live, ns, unit, proc, ecalls, eanswers>>
  BY DEF SystemdHandles, daemonVars, entitydVars
<1> PICK call \in UnitCalls, l \in Nat, S \in SUBSET UnitCalls, ok \in BOOLEAN :
       Handled(call, l, S, ok)
  BY HandleEffect
<1> PICK m : m = Message("reply", call, ok)
  OBVIOUS
<1> PICK e \in Nat : e = Len(inbox) /\ DOMAIN inbox = 1..e
  BY DEF WorldOK
<1>2. m.type = "reply" /\ m.call = call /\ m.ok = ok
  BY DEF Message
<1>3. /\ calls # <<>> /\ call = calls[1] /\ 1 \in DOMAIN calls /\ calls' = Tail(calls) /\ Sends(l, m)
      /\ \A i \in (e + 1)..(e + l) : inbox'[i].call \in S
      /\ S \subseteq jobs
  <2>1. calls # <<>> /\ call = Head(calls) /\ calls' = Tail(calls) /\ Sends(l, m)
    BY DEF Handled
  <2>2. S \subseteq jobs
    BY DEF Handled, Starts, JobsOn
  <2> QED BY <2>1, <2>2, TailCalls DEF Handled
<1>4. ASSUME NEW n PROVE (call.what # "stopUnit" => ~IsStart(call, n))
                         /\ (\A job \in jobs : IsStart(job, n) => call.what = "stopUnit" /\ ok /\ job \in S)
                         => \A job \in jobs' : ~IsStart(job, n)
  <2>1. \A job \in StopJobs(call.req, Slice[call.ent]) : ~IsStart(job, n)
    <3>1. ASSUME NEW job \in StopJobs(call.req, Slice[call.ent]) PROVE ~IsStart(job, n)
      <4>1. \E x : job = [req |-> call.req, what |-> "stopUnit", ent |-> x]
        BY Zenon DEF StopJobs
      <4> QED BY <4>1 DEF IsStart
    <3> QED BY <3>1
  <2> QED BY <2>1 DEF Handled, IsStart
<1>5. ASSUME NEW n, NEW k \in Nat, OnlyStops(k, n) PROVE OnlyStops(k, n)'
  <2>1. NoStart(n)'
    <3>1. NoStartAfter(0, n) /\ \A job \in jobs : ~IsStart(job, n)
      BY <1>5 DEF OnlyStops, NoStart
    <3>2. NoStartAfter(0, n)'
      BY <1>3, <3>1, CallsTaken
    <3>3. ~IsStart(call, n)
      BY <1>3, <3>1 DEF NoStartAfter, WorldOK
    <3> QED BY <1>4, <3>1, <3>2, <3>3 DEF NoStart, IsStart
  <2>2. ASSUME NEW i \in DOMAIN inbox', i > e PROVE StopSignal(i, n)'
    <3>1. i \in (e + 1)..(e + l) \/ inbox'[i] = m
      BY <1>3, <2>2 DEF Sends
    <3>2. CASE inbox'[i] = m
      BY <1>2, <3>2 DEF StopSignal, IsReply
    <3>3. CASE i \in (e + 1)..(e + l)
      <4>1. inbox'[i].call \in S
        BY <1>3, <3>3
      <4>2. inbox'[i].call \in jobs /\ inbox'[i].call.what = "slice"
        BY <1>3, <4>1 DEF Handled, Starts, JobsOn
      <4>3. inbox'[i].call.ent # n
        BY <1>5, <4>2 DEF OnlyStops, NoStart, IsStart
      <4> QED BY <4>3 DEF StopSignal
    <3> QED BY <3>1, <3>2, <3>3
  <2> QED BY <1>1, <1>3, <1>5, <2>1, <2>2, SentStops
<1>6. ASSUME NEW r \in Requests PROVE StopOK(r)'
  <2>1. StopFrame(r) /\ ProcessDown(r) /\ SliceDown(r) /\ Same(r) /\ op'[r] = op[r] /\ target'[r] = target[r]
    BY <1>1, SameFacts DEF StopInv, StopOK
  <2>2. \A n : LeavesProcess(n)
    BY <1>1 DEF LeavesProcess, TornDown, HasAnswer
  <2>3. StopFrame(r)' /\ ProcessDown(r)'
    BY <2>1, <2>2, StopFrameKept, ProcessKept
  <2>4. ASSUME ~Gone(r)', Pc(r)' \in DownPcs PROVE SliceDown(r)'
    <3> PICK n \in Names : n = Ent(r) /\ n = Ent(r)' /\ Pc(r)' = Pc(r) /\ ~Gone(r)
      BY <2>1, <2>4, PcType DEF Same
    <3>1. CASE Pc(r) = "stopJob"
      <4>1. OnlyStops(0, n)'
        BY <1>5, <2>1, <3>1 DEF SliceDown
      <4> QED BY <3>1, <4>1 DEF SliceDown
    <3>2. CASE Pc(r) = "stopUnit"
      <4>1. CallIsLast(r, n) /\ ReplyStops(r, n)
        BY <2>1, <3>2 DEF SliceDown
      <4>2. ASSUME NEW i \in DOMAIN calls', calls'[i].req = r PROVE NoStartAfter(i, n)'
        <5>1. i \in Nat /\ i + 1 \in DOMAIN calls /\ calls[i + 1].req = r
          BY <1>3, <4>2, TailCalls
        <5>2. NoStartAfter(i + 1, n)
          BY <4>1, <5>1 DEF CallIsLast
        <5> QED BY <1>3, <5>1, <5>2, CallsTaken
      <4>3. ASSUME NEW i \in DOMAIN inbox', IsReply(i)', inbox'[i].ok, inbox'[i].call.req = r
            PROVE  OnlyStops(i, n)'
        <5>1. \/ i \in 1..e /\ inbox'[i] = inbox[i]
              \/ i = e + l + 1 /\ inbox'[i] = m
          <6>1. \/ i \in 1..e \/ i \in (e + 1)..(e + l) \/ i = e + l + 1
            BY <1>3, <4>3 DEF Sends
          <6>2. i \notin (e + 1)..(e + l)
            BY <1>3, <4>3 DEF Sends, IsReply
          <6> QED BY <1>3, <6>1, <6>2 DEF Sends
        <5>2. CASE i \in 1..e /\ inbox'[i] = inbox[i]
          <6>1. i \in Nat /\ OnlyStops(i, n)
            BY <4>1, <4>3, <5>2 DEF ReplyStops, IsReply
          <6> QED BY <1>5, <6>1
        <5>3. CASE i = e + l + 1 /\ inbox'[i] = m
          <6>1. call.req = r /\ ok
            BY <1>2, <4>3, <5>3
          <6>2. call.what = "stopUnit" /\ call.ent = n
            BY <1>3, <3>2, <6>1 DEF WInv, UnitOK, ExpectedMessages, ExpectedCall, Expected
          <6>3. NoStartAfter(1, n)
            BY <1>3, <4>1, <6>1 DEF CallIsLast
          <6>4. NoStartAfter(0, n)'
            <7>1. NoStartAfter(0 + 1, n)
              BY <6>3
            <7> QED BY <1>3, <7>1, CallsTaken
          <6>5. \A job \in jobs : IsStart(job, n) => job \in S
            BY <6>1, <6>2 DEF Handled, Starts, JobsOn, IsStart
          <6>6. NoStart(n)'
            BY <1>4, <6>1, <6>2, <6>4, <6>5 DEF NoStart, IsStart
          <6>7. \A j \in DOMAIN inbox' : ~(j > i)
            BY <1>3, <5>3 DEF Sends
          <6> QED BY <6>6, <6>7 DEF OnlyStops
        <5> QED BY <5>1, <5>2, <5>3
      <4>4. CallIsLast(r, n)' /\ ReplyStops(r, n)'
        BY <4>2, <4>3 DEF CallIsLast, ReplyStops
      <4> QED BY <3>2, <4>4 DEF SliceDown
    <3> QED BY <2>4, <3>1, <3>2 DEF DownPcs
  <2>5. SliceDown(r)'
    BY <2>4 DEF SliceDown, DownPcs
  <2> QED BY <2>3, <2>5 DEF StopOK
<1> QED BY <1>6 DEF StopInv

(* Finishing a job keeps the invariant of a Stop: no job but a start of its slice makes the slice
   active again, and there is none. *)
LEMMA FinishStop ==
    ASSUME CInv, WorldOK, WInv, StopInv, SlicesDistinct, SlicesFlat, NEW job \in jobs, SystemdFinishes(job)
    PROVE  StopInv'
<1>1. UNCHANGED <<chain, op, target, live, ns, eanswers, calls>> /\ jobs' = jobs \ {job}
  BY DEF SystemdFinishes, daemonVars
<1>2. PICK ok \in BOOLEAN : /\ inbox' = Append(inbox, Message("removed", job, ok))
                            /\ \/ ok /\ JobEffect(job)
                               \/ ~ok /\ UNCHANGED <<unit, proc, ecalls>>
  <2>1. \A f : Outcomes(f) \subseteq BOOLEAN
    BY DEF Outcomes
  <2>2. PICK ok \in Outcomes("job" \in Faults) :
           /\ inbox' = Append(inbox, Message("removed", job, ok))
           /\ \/ ok /\ JobEffect(job)
              \/ ~ok /\ UNCHANGED <<unit, proc, ecalls>>
    BY Zenon DEF SystemdFinishes
  <2> QED BY <2>1, <2>2, Zenon
<1> PICK m : m = Message("removed", job, ok)
  OBVIOUS
<1> PICK e \in Nat : e = Len(inbox) /\ inbox \in Seq(Messages) /\ DOMAIN inbox = 1..e
  BY DEF WorldOK
<1>3. m.type = "removed" /\ m.call = job /\ m.ok = ok /\ job \in UnitCalls /\ job.ent \in Names
  BY DEF Message, WorldOK, UnitCalls
<1>4. Sends(0, m)
  <2>1. /\ DOMAIN inbox' = 1..(e + 0 + 1) /\ inbox'[e + 0 + 1] = m
        /\ \A i \in 1..e : inbox'[i] = inbox[i]
    BY <1>2
  <2> QED BY <2>1 DEF Sends
<1>5. ASSUME NEW n \in Names, ok
      PROVE  /\ job.what = "slice" /\ job.ent # n /\ Slice[n] \notin unit => Slice[n] \notin unit'
             /\ job.what = "scope" /\ Slice[n] \notin unit => Slice[n] \notin unit'
             /\ job.what = "stopUnit" /\ Slice[n] \notin unit => Slice[n] \notin unit'
             /\ job.what = "stopUnit" /\ job.ent = n => Slice[n] \notin unit'
  <2>0. JobEffect(job)
    BY <1>2, <1>5
  <2> PICK s : s = Slice[job.ent]
    OBVIOUS
  <2>1. Slice[n] \in Slices /\ s \in Slices /\ Slice[n] # Scope(job.ent)
    <3>1. Slice[n] \in Slices /\ s \in Slices
      BY <1>3 DEF Slices
    <3>2. \A t \in Slices, x \in Names : t # Scope(x)
      BY LifecycleAssumption, Zenon DEF Scope
    <3> QED BY <1>3, <3>1, <3>2
  <2>2. CASE job.what = "slice"
    <3>1. unit' = unit \cup {s} \cup {t \in Slices : s \in Inside[t]}
      BY <2>0, <2>2 DEF JobEffect
    <3>2. unit' = unit \cup {s}
      BY <3>1 DEF SlicesFlat
    <3> QED BY <1>3, <2>2, <3>2 DEF SlicesDistinct
  <2>3. CASE job.what = "scope"
    <3>1. unit' = unit \cup {Scope(job.ent)}
      BY <2>0, <2>3 DEF JobEffect
    <3> QED BY <2>1, <2>3, <3>1
  <2>4. CASE job.what = "stopUnit"
    <3>1. unit' \subseteq unit /\ s \notin unit'
      BY <2>0, <2>4 DEF JobEffect
    <3> QED BY <2>4, <3>1
  <2> QED BY <2>2, <2>3, <2>4
<1>6. ASSUME NEW n \in Names, NEW k \in Nat, OnlyStops(k, n) PROVE OnlyStops(k, n)'
  <2>1. NoStart(n) /\ ~IsStart(job, n)
    BY <1>6 DEF OnlyStops, NoStart
  <2>2. NoStart(n)'
    BY <1>1, <2>1 DEF NoStart, NoStartAfter, IsStart
  <2>3. /\ Slice[n] \notin unit => Slice[n] \notin unit'
        /\ job.what = "stopUnit" /\ job.ent = n /\ ok => Slice[n] \notin unit'
    BY <1>2, <1>3, <1>5, <2>1 DEF IsStart, UnitCalls
  <2>4. ASSUME NEW i \in DOMAIN inbox', i > e PROVE StopSignal(i, n)'
    <3>1. inbox'[i] = m
      BY <1>4, <2>4 DEF Sends
    <3>2. job.what # "scope" /\ job.ent = n => job.what = "stopUnit"
      BY <1>3, <2>1 DEF IsStart, UnitCalls
    <3> QED BY <1>3, <2>3, <3>1, <3>2 DEF StopSignal
  <2> QED BY <1>4, <1>6, <2>2, <2>3, <2>4, SentStops
<1>7. ASSUME NEW n \in Names PROVE LeavesProcess(n)
  <2>1. /\ proc[n] = "none" => proc'[n] = "none"
        /\ ecalls[n] = <<>> => ecalls'[n] = <<>>
    BY <1>2 DEF JobEffect, InSlice
  <2> QED BY <1>1, <2>1 DEF LeavesProcess, TornDown, HasAnswer
<1>8. ASSUME NEW r \in Requests PROVE StopOK(r)'
  <2>1. StopFrame(r) /\ ProcessDown(r) /\ SliceDown(r) /\ Same(r) /\ op'[r] = op[r] /\ target'[r] = target[r]
    BY <1>1, SameFacts DEF StopInv, StopOK
  <2>2. StopFrame(r)' /\ ProcessDown(r)'
    BY <1>7, <2>1, StopFrameKept, ProcessKept, PcType
  <2>3. ASSUME ~Gone(r)', Pc(r)' \in DownPcs PROVE SliceDown(r)'
    <3> PICK n \in Names : n = Ent(r) /\ n = Ent(r)' /\ Pc(r)' = Pc(r) /\ ~Gone(r)
      BY <2>1, <2>3, PcType DEF Same
    <3>1. CASE Pc(r) = "stopJob"
      <4>1. OnlyStops(0, n)'
        BY <1>6, <2>1, <3>1 DEF SliceDown
      <4> QED BY <3>1, <4>1 DEF SliceDown
    <3>2. CASE Pc(r) = "stopUnit"
      <4>1. CallIsLast(r, n) /\ ReplyStops(r, n)
        BY <2>1, <3>2 DEF SliceDown
      <4>2. CallIsLast(r, n)'
        BY <1>1, <4>1 DEF CallIsLast, NoStartAfter
      <4>3. ASSUME NEW i \in DOMAIN inbox', IsReply(i)', inbox'[i].ok, inbox'[i].call.req = r
            PROVE  OnlyStops(i, n)'
        <5>1. i \in 1..e /\ inbox'[i] = inbox[i]
          BY <1>3, <1>4, <4>3 DEF Sends, IsReply
        <5>2. i \in Nat /\ OnlyStops(i, n)
          BY <4>1, <4>3, <5>1 DEF ReplyStops, IsReply
        <5> QED BY <1>6, <5>2
      <4>4. ReplyStops(r, n)'
        BY <4>3 DEF ReplyStops
      <4> QED BY <3>2, <4>2, <4>4 DEF SliceDown
    <3> QED BY <2>3, <3>1, <3>2 DEF DownPcs
  <2>4. SliceDown(r)'
    BY <2>3 DEF SliceDown, DownPcs
  <2> QED BY <2>2, <2>4 DEF StopOK
<1> QED BY <1>8 DEF StopInv

-----------------------------------------------------------------------------
(* Steps of the entityds. *)

(* An entityd tears its namespace down before it answers Shutdown, and does nothing after. *)
LEMMA EntitydStop ==
    ASSUME CInv, WorldOK, WInv, StopInv, NEW m \in Names, EntitydStep(m) \/ EntitydDies(m)
    PROVE  StopInv'
<1>1. UNCHANGED <<chain, op, target, live, calls, jobs, unit, inbox>>
  BY DEF EntitydStep, EntitydAdds, EntitydAborts, EntitydShutsDown, EntitydDies, daemonVars, systemdVars
<1>2. \A n \in Names : n # m => /\ ns'[n] = ns[n] /\ proc'[n] = proc[n]
                                /\ ecalls'[n] = ecalls[n] /\ eanswers'[n] = eanswers[n]
  BY DEF EntitydStep, EntitydAdds, EntitydAborts, EntitydShutsDown, EntitydDies, WorldOK
<1>3. ASSUME NEW r \in Requests, ~Gone(r), Ent(r) = m, Pc(r) \in StopPcs PROVE ProcessDown(r)'
  <2>0. Same(r) /\ ProcessDown(r)
    BY <1>1, SameFacts DEF StopInv, StopOK
  <2>1. Pc(r)' = Pc(r) /\ Ent(r)' = m
    BY <1>3, <2>0 DEF Same
  <2>2. CASE Pc(r) \in DownPcs
    <3>1. ecalls[m] = <<>> /\ proc[m] = "none"
      BY <1>3, <2>0, <2>2 DEF ProcessDown, TornDown
    <3> QED BY <3>1 DEF EntitydStep, EntitydAdds, EntitydAborts, EntitydShutsDown, EntitydDies, Handles
  <2>3. CASE Pc(r) = "shutdown"
    <3>1. SUFFICES ASSUME HasAnswer(r, m)' PROVE TornDown(m)'
      BY <2>1, <2>3 DEF ProcessDown, HasAnswer, TornDown, DownPcs
    <3>2. HasAnswer(r, m) => TornDown(m)
      BY <1>3, <2>0, <2>3 DEF ProcessDown
    <3>3. CASE EntitydShutsDown(m)
      BY <3>3 DEF EntitydShutsDown, TornDown, WorldOK
    <3>4. CASE EntitydDies(m)
      BY <3>1, <3>2, <3>4 DEF EntitydDies, TornDown, HasAnswer, WorldOK
    <3>5. CASE EntitydAborts(m)
      BY <3>1, <3>2, <3>5 DEF EntitydAborts, TornDown, HasAnswer, Handles
    <3>6. CASE EntitydAdds(m)
      <4>1. ecalls[m] # <<>> /\ ecalls[m] \in Seq(Calls) /\ eanswers[m] \in Seq(Calls)
        BY <3>6 DEF EntitydAdds, Handles, WorldOK
      <4> PICK c \in Calls : c = Head(ecalls[m]) /\ c.what = "component" /\ c = ecalls[m][1]
        BY <3>6, <4>1, TailFacts DEF EntitydAdds, Handles
      <4>2. eanswers'[m] = Append(eanswers[m], c)
        BY <3>6 DEF EntitydAdds, WorldOK
      <4>3. 1 \in DOMAIN ecalls[m]
        BY <4>1, TailFacts
      <4>4. c.req # r
        BY <1>3, <2>3, <4>3 DEF WInv, BusOK, ExpectedOn, Expected
      <4>5. HasAnswer(r, m)
        <5>1. PICK i \in DOMAIN eanswers'[m] : eanswers'[m][i].req = r
          BY <3>1 DEF HasAnswer
        <5>2. i \in DOMAIN eanswers[m] /\ eanswers'[m][i] = eanswers[m][i]
          BY <4>1, <4>2, <4>4, <5>1, AppendFacts
        <5> QED BY <5>1, <5>2 DEF HasAnswer
      <4> QED BY <3>2, <4>1, <4>5 DEF TornDown
    <3> QED BY <3>3, <3>4, <3>5, <3>6 DEF EntitydStep
  <2> QED BY <1>3, <2>2, <2>3 DEF StopPcs, DownPcs
<1>4. ASSUME NEW r \in Requests PROVE StopOK(r)'
  <2>1. StopFrame(r) /\ ProcessDown(r) /\ SliceDown(r) /\ Same(r)
    BY <1>1, SameFacts DEF StopInv, StopOK
  <2>2. StopFrame(r)'
    BY <1>1, <2>1, StopFrameKept
  <2>3. SliceDown(r)'
    BY <1>1, <2>1, SliceKept DEF LeavesSlice, Shrinks
  <2>4. CASE ~Gone(r) /\ Pc(r) \in StopPcs /\ Ent(r) = m
    BY <1>3, <2>2, <2>3, <2>4 DEF StopOK
  <2>5. CASE ~(~Gone(r) /\ Pc(r) \in StopPcs /\ Ent(r) = m)
    <3>1. \A n \in Names : n # m => LeavesProcess(n)
      BY <1>1, <1>2 DEF LeavesProcess, TornDown, HasAnswer
    <3>2. ProcessDown(r)'
      BY <2>1, <2>5, <3>1, PcType, ProcessKept
    <3> QED BY <2>2, <2>3, <3>2 DEF StopOK
  <2> QED BY <2>4, <2>5
<1> QED BY <1>4 DEF StopInv

-----------------------------------------------------------------------------
(* The invariant holds, and it says what a successful answer means. *)

(* Every step keeps the invariant. *)
LEMMA NextStop ==
    ASSUME CInv, WorldOK, WInv, StopInv, SlicesDistinct, SlicesFlat, [Next]_vars
    PROVE  StopInv'
<1>1. CASE \E r \in Requests, o \in Ops, n \in Names : Request(r, o, n)
  BY <1>1, RequestStop
<1>2. CASE UNCHANGED <<chain, op, target>> /\ UNCHANGED worldVars
  BY <1>2, SameFacts, StopStays DEF StopInv
<1>3. CASE \E n \in Names \cup {None} : Commit(n)
  BY <1>2, <1>3 DEF Commit
<1>4. CASE Executes
  BY <1>4, DropStop, RunStop DEF Executes
<1>5. CASE SystemBusStep
  BY <1>5, ReplyStop, SignalStop DEF SystemBusStep
<1>6. CASE \E n \in Names : EntityBusStep(n)
  <2>1. ASSUME NEW n \in Names, DanglingAdvance(n) PROVE StopInv'
    BY <1>2, <2>1 DEF DanglingAdvance, Abort
  <2> QED BY <1>6, <2>1, ComponentStop, ShutdownStop, HangupStop DEF EntityBusStep
<1>7. CASE \E r \in Requests : EntitydCallTimesOut(r) \/ SystemdCallTimesOut(r)
  BY <1>7, HangupStop
<1>8. CASE SystemdStep
  BY <1>8, HandleStop, FinishStop DEF SystemdStep
<1>9. CASE \E n \in Names : EntitydStep(n) \/ EntitydDies(n)
  BY <1>9, EntitydStop
<1>10. CASE DaemonRestarts
  <2>1. \A r \in Requests : Gone(r)'
    BY <1>10 DEF DaemonRestarts, Gone
  <2> QED BY <2>1, StopEnds DEF StopInv
<1>11. CASE UNCHANGED vars
  BY <1>2, <1>11 DEF vars, daemonVars
<1> QED BY <1>1, <1>3, <1>4, <1>5, <1>6, <1>7, <1>8, <1>9, <1>10, <1>11 DEF Next

(* A frame that returns answers its own request only, and only if it is the outermost. *)
LEMMA ReturnAnswers ==
    ASSUME WorldOK, NEW s \in Requests, NEW rest, Return(s, rest), NEW r \in Requests, reply'[r] # reply[r]
    PROVE  r = s /\ Depth(r) = 1
BY DEF Return, WorldOK

(* An error is not a success. *)
LEMMA FailAnswers ==
    ASSUME WorldOK, NEW s \in Requests, NEW rest, Fail(s, rest), NEW r \in Requests, reply'[r] = "ok"
    PROVE  reply[r] = "ok"
BY DEF Fail, WorldOK

(* The steps in which a request succeeds. *)
Succeeds(r) ==
    /\ Depth(r) = 1
    /\ \/ StartAlreadyLive(r)
       \/ Components(r)
       \/ \E n \in Names : DeliverComponent(n) /\ Awaits(r, "component") /\ r = Head(eanswers[n]).req
       \/ /\ DeliverJobRemoved /\ Awaits(r, "stopJob")
          /\ Head(inbox).ok /\ Matches(r, Head(inbox).call)

(* There are no others. *)
LEMMA SuccessSteps ==
    ASSUME CInv, WorldOK, WInv, NEW r \in Requests, reply[r] = "pending", reply'[r] = "ok", Next
    PROVE  Succeeds(r)
<1>0. reply' # reply /\ reply'[r] # reply[r]
  OBVIOUS
<1>1. CASE \E s \in Requests, o \in Ops, n \in Names : Request(s, o, n)
  <2>1. PICK s \in Requests, a \in {"pending", "error"} : reply' = [reply EXCEPT ![s] = a]
    BY <1>1, Zenon DEF Request
  <2> QED BY <2>1 DEF WorldOK
<1>2. CASE \E n \in Names \cup {None} : Commit(n)
  BY <1>0, <1>2 DEF Commit
<1>3. CASE DropToken
  BY <1>0, <1>3 DEF DropToken
<1>4. ASSUME NEW s \in Requests, RunStep(s) PROVE Succeeds(r)
  <2>1. CASE StartAlreadyLive(s)
    BY <1>0, <2>1, ReturnAnswers DEF StartAlreadyLive, Succeeds
  <2>2. CASE Components(s)
    <3>1. \E rest : Return(s, rest)
      BY <1>0, <2>2 DEF Components
    <3> QED BY <1>0, <2>2, <3>1, ReturnAnswers DEF Succeeds
  <2>3. CASE ~StartAlreadyLive(s) /\ ~Components(s)
    <3>1. UNCHANGED reply \/ \E rest : Fail(s, rest)
      BY <1>4, <2>3, Zenon
         DEF RunStep, Enqueue, StartUplink, DanglingCrash, Spawn, SpawnForkFails, SpawnAllocFails,
             SpawnBusFails, SpawnHandshakeFails, StopNotLive, StopShutdown, StopBusClosed, Abort
    <3> QED BY <1>0, <3>1, FailAnswers
  <2> QED BY <2>1, <2>2, <2>3
<1>5. CASE DeliverReply
  <2>1. Head(inbox).call.req \in Requests
    <3>1. inbox # <<>> /\ inbox \in Seq(Messages)
      BY <1>5 DEF DeliverReply, WorldOK
    <3>2. Head(inbox) \in Messages
      BY <3>1, TailFacts
    <3> QED BY <3>2 DEF Messages, UnitCalls
  <2>2. UNCHANGED reply \/ \E rest : Fail(Head(inbox).call.req, rest)
    BY <1>5 DEF DeliverReply
  <2> QED BY <1>0, <2>1, <2>2, FailAnswers
<1>6. CASE DeliverJobRemoved
  <2>0. ~Ignored(Head(inbox).call)
    BY <1>0 DEF Ignored
  <2>1. PICK s \in Requests :
           /\ Matches(s, Head(inbox).call)
           /\ \/ Head(inbox).ok /\ JobDone(s)
              \/ ~Head(inbox).ok /\ Fail(s, <<>>) /\ UNCHANGED calls
    BY <1>6, <2>0, Zenon DEF DeliverJobRemoved
  <2>2. Head(inbox).ok /\ JobDone(s)
    BY <1>0, <2>1, FailAnswers
  <2>3. Awaits(s, "stopJob") /\ Return(s, <<>>)
    BY <1>0, <2>2 DEF JobDone
  <2>4. r = s /\ Depth(r) = 1
    BY <1>0, <2>3, ReturnAnswers
  <2> QED BY <1>6, <2>1, <2>2, <2>3, <2>4 DEF Succeeds
<1>7. ASSUME NEW n \in Names, EntityBusStep(n) PROVE Succeeds(r)
  <2>1. CASE DeliverComponent(n)
    <3> PICK s : s = Head(eanswers[n]).req
      OBVIOUS
    <3>1. s \in Requests
      BY <2>1, ComponentEffect DEF WInv
    <3>2. Awaits(s, "component") /\ Return(s, <<>>)
      BY <1>0, <2>1 DEF DeliverComponent
    <3>3. r = s /\ Depth(r) = 1
      BY <1>0, <3>1, <3>2, ReturnAnswers
    <3> QED BY <2>1, <3>2, <3>3 DEF Succeeds
  <2>2. CASE DeliverShutdown(n)
    BY <1>0, <2>2 DEF DeliverShutdown
  <2>3. CASE \E s \in Requests : EntitydHangup(s)
    BY <1>0, <2>3, FailAnswers DEF EntitydHangup
  <2>4. CASE DanglingAdvance(n)
    BY <1>0, <2>4 DEF DanglingAdvance, Abort
  <2> QED BY <1>7, <2>1, <2>2, <2>3, <2>4 DEF EntityBusStep
<1>8. CASE \E s \in Requests : EntitydCallTimesOut(s) \/ SystemdCallTimesOut(s)
  BY <1>0, <1>8, FailAnswers DEF EntitydCallTimesOut, SystemdCallTimesOut
<1>9. CASE SystemdStep
  BY <1>0, <1>9 DEF SystemdStep, SystemdHandles, SystemdFinishes, daemonVars
<1>10. CASE \E n \in Names : EntitydStep(n) \/ EntitydDies(n)
  BY <1>0, <1>10
     DEF EntitydStep, EntitydAdds, EntitydAborts, EntitydShutsDown, EntitydDies, daemonVars
<1>11. CASE DaemonRestarts
  BY <1>11 DEF DaemonRestarts
<1> QED BY <1>1, <1>2, <1>3, <1>4, <1>5, <1>6, <1>7, <1>8, <1>9, <1>10, <1>11
        DEF Next, Executes, SystemBusStep

(* What the invariant says about a Stop that succeeds. *)
LEMMA StopSucceeds ==
    ASSUME CInv, WorldOK, WInv, StopInv, SlicesDistinct, Next, NEW r \in Requests,
           op[r] = "stop", reply[r] = "pending", reply'[r] = "ok"
    PROVE  /\ target[r] \notin live
           /\ proc[target[r]] = "none"
           /\ ns[target[r]] = "down"
           /\ Slice[target[r]] \notin unit
<1>1. StopFrame(r) /\ ProcessDown(r) /\ SliceDown(r) /\ Succeeds(r)
  BY SuccessSteps DEF StopInv, StopOK
<1>2. ~StartAlreadyLive(r) /\ ~Components(r)
  <2>1. ~Running(r, "components")
    BY <1>1, OnTopFacts DEF StopFrame, StopPcs
  <2> QED BY <2>1 DEF StartAlreadyLive, Components
<1>3. ~Awaits(r, "component")
  BY <1>1 DEF StopFrame, StopPcs, Awaits, Gone, Pc
<1>4. /\ Idle /\ inbox # <<>> /\ Head(inbox).type = "removed" /\ Head(inbox).ok
      /\ Awaits(r, "stopJob") /\ Matches(r, Head(inbox).call)
  BY <1>1, <1>2, <1>3 DEF Succeeds, DeliverJobRemoved
<1>5. ~Gone(r) /\ Pc(r) = "stopJob"
  BY <1>4 DEF Awaits, Gone, Pc
<1> PICK n \in Names : n = Ent(r) /\ n = target[r]
  BY <1>1, <1>5, PcType DEF StopFrame
<1>6. TornDown(n) /\ n \notin live /\ proc[n] = "none" /\ OnlyStops(0, n)
  BY <1>1, <1>5 DEF ProcessDown, SliceDown, DownPcs
<1>7. 1 \in DOMAIN inbox /\ Head(inbox) = inbox[1]
  BY <1>4, TailFacts DEF WorldOK
<1>8. inbox[1].call.what # "scope" /\ inbox[1].call.ent = n
  <2>1. Head(inbox).call.what # "scope" /\ Slice[n] = Slice[Head(inbox).call.ent]
    BY <1>4, <1>5 DEF Matches, JobOf, Awaits, Pc, Ent
  <2>2. inbox[1].call.ent \in Names
    BY <1>7, InboxItem DEF UnitCalls
  <2> QED BY <1>7, <2>1, <2>2 DEF SlicesDistinct
<1>9. StopSignal(1, n) /\ ~IsReply(1) /\ inbox[1].ok
  BY <1>4, <1>6, <1>7 DEF OnlyStops, IsReply
<1>10. Slice[n] \notin unit
  BY <1>8, <1>9 DEF StopSignal
<1> QED BY <1>6, <1>10 DEF TornDown

(***************************************************************************)
(* When controller::stop answers with success, the entity is down: stop()  *)
(* has waited for the process and erased it, the namespace is torn down,   *)
(* and the slice is inactive although the JobRemoved signal stop() took    *)
(* may have been that of another job. Whatever fails, dies, times out or   *)
(* restarts, and whoever else asks for the entity meanwhile. Two entities  *)
(* in one slice, or in nested slices, are excluded: there a start of the   *)
(* one can make the slice of the other active again.                       *)
(***************************************************************************)
THEOREM LifecycleStopOkMeansDown ==
    ASSUME SlicesDistinct, SlicesFlat PROVE Spec => StopOkMeansDown
<1> DEFINE Inv == WInv /\ StopInv
<1>1. Init => Inv
  <2>1. Init => \A r \in Requests : Gone(r)
    BY DEF Init, Gone
  <2>2. ASSUME NEW r \in Requests, Gone(r) PROVE StopOK(r)
    BY <2>2 DEF StopOK, StopFrame, ProcessDown, SliceDown
  <2> QED BY <2>1, <2>2, InitWInv DEF StopInv
<1>2. ASSUME CInv, WorldOK, Inv, [Next]_vars PROVE Inv'
  <2>1. WInv'
    <3>1. CASE Next
      BY <1>2, <3>1, NextWInv
    <3>2. CASE UNCHANGED vars
      <4>1. UNCHANGED wakeVars /\ UNCHANGED stack
        BY <3>2 DEF vars, daemonVars, queueVars, worldVars, entitydVars, systemdVars, wakeVars
      <4> QED BY <1>2, <4>1, StutterWInv
    <3> QED BY <1>2, <3>1, <3>2
  <2>2. StopInv'
    BY <1>2, NextStop
  <2> QED BY <2>1, <2>2
<1> DEFINE Down == \A r \in Requests :
                      (op[r] = "stop" /\ reply[r] = "pending" /\ reply'[r] = "ok") =>
                         /\ target[r] \notin live
                         /\ proc[target[r]] = "none"
                         /\ ns[target[r]] = "down"
                         /\ Slice[target[r]] \notin unit
<1>3. ASSUME CInv, WorldOK, Inv, [Next]_vars PROVE [Down]_vars
  <2>1. CASE Next
    BY <1>3, <2>1, StopSucceeds
  <2>2. CASE UNCHANGED vars
    BY <2>2
  <2> QED BY <1>3, <2>1, <2>2
<1>4. Spec => [](CInv /\ WorldOK)
  BY Invariant
<1>5. StopOkMeansDown <=> [][Down]_vars
  BY DEF StopOkMeansDown
<1> HIDE DEF Inv, Down
<1> QED BY <1>1, <1>2, <1>3, <1>4, <1>5, PTL DEF Spec

-----------------------------------------------------------------------------
(***************************************************************************)
(* A Start that succeeds has started its entity, where nothing is stopped, *)
(* committed or lost.                                                      *)
(*                                                                         *)
(* An entity that is in _live_entities is up, or the coroutine that has    *)
(* its token is starting it; so a Start that finds it there, and has the   *)
(* token, finds it up. A coroutine that spawns a process has seen a Start  *)
(* of its uplink succeed, and what is up stays up. That no call is refused *)
(* is because a slice is called for once: by the coroutine that spawns the *)
(* process, of an entity that was not live until then.                     *)
(***************************************************************************)

(* Clients only start entities, and nothing fails that could leave one half started. *)
OnlyStarts == Ops \subseteq {"start"} /\ Faults \subseteq {"fork", "handshake"} /\ MaxCommits = 0

(* Where a Start has a process, and is not done with it. *)
StartPcs == {"slice", "sliceJob", "scope", "scopeJob", "components", "component"}

(* The uplink of n, if it has any, is up. *)
UplinkUp(n) == Uplink[n] # None => Up(Uplink[n])

(* A coroutine of request r starts an entity that is not live, once its uplink is up. *)
NotYet(r, i)   == chain[r][i].pc \in {"uplink", "spawn"} => chain[r][i].ent \notin live
StartFrames(r) ==
    ~Gone(r) =>
        /\ chain[r][1].ent = target[r]
        /\ \A i \in 1..Depth(r) : NotYet(r, i)
        /\ Pc(r) \in {"enqueue", "queued", "entered", "spawn"} \cup StartPcs
        /\ Pc(r) \in {"spawn"} \cup StartPcs => UplinkUp(Ent(r))
        /\ Pc(r) \in StartPcs => Ent(r) \in live

(* Some coroutine is starting n. *)
Starting(n) == \E r \in Requests : ~Gone(r) /\ Ent(r) = n /\ Pc(r) \in StartPcs

(* A live entity runs, and is up or about to be. *)
LiveOK == \A n \in live : proc[n] = "running" /\ (Up(n) \/ Starting(n))

(* Entityds are only asked to add components, with their uplinks up, and have done what they answer. *)
BusUp ==
    \A n \in Names :
        /\ \A i \in DOMAIN ecalls[n] : ecalls[n][i].what = "component"
        /\ \A i \in DOMAIN eanswers[n] : eanswers[n][i].what = "component"
        /\ ecalls[n] # <<>> => UplinkUp(n)
        /\ eanswers[n] # <<>> => ns[n] = "up"

(* systemd is only asked to start units of live entities, and refuses nothing. *)
UnitsUp ==
    /\ \A i \in DOMAIN calls : calls[i].what # "stopUnit" /\ calls[i].ent \in live
    /\ \A job \in jobs : job.what # "stopUnit" /\ job.ent \in live
    /\ \A i \in DOMAIN inbox : inbox[i].ok

(* A slice is called for once, when the entity becomes live. *)
Unused(n)  == Slice[n] \notin unit /\ \A job \in jobs : ~IsStart(job, n)
SliceOnce ==
    \A n \in Names :
        /\ n \notin live => Unused(n)
        /\ \A i \in DOMAIN calls : IsStart(calls[i], n) => Unused(n)
        /\ \A i, j \in DOMAIN calls : IsStart(calls[i], n) /\ IsStart(calls[j], n) => i = j

(* The invariant of the Starts. *)
FramesOK == \A r \in Requests : StartFrames(r)
NoStops  == \A r \in Requests : op[r] # "stop"
WorldUp  == LiveOK /\ BusUp /\ UnitsUp /\ SliceOnce
StartInv == NoStops /\ FramesOK /\ WorldUp

-----------------------------------------------------------------------------
(* What the steps of the coroutines do to their frames. *)

(* What is up stays up. *)
UpKept == \A n \in Names : Up(n) => Up(n)'

(* Then so does an uplink. *)
LEMMA UplinkKept ==
    ASSUME UpKept, NEW n \in Names, UplinkUp(n)
    PROVE  UplinkUp(n)'
<1>1. Uplink[n] # None => Uplink[n] \in Names
  BY LifecycleAssumption
<1> QED BY <1>1 DEF UplinkUp, UpKept

(* A coroutine past its co_await enqueue() has the token of its entity. *)
LEMMA FrameToken ==
    ASSUME CInv, NEW r \in Requests, NEW i \in 1..Depth(r), chain[r][i].pc \notin {"enqueue", "queued"}
    PROVE  <<r, i>> \in Tokens(chain[r][i].ent) /\ chain[r][i].ent \in Names
<1>1. /\ chain[r] \in Seq(Frames) /\ DOMAIN chain[r] = 1..Depth(r) /\ Depth(r) \in Nat
      /\ Depth(r) <= Cardinality(Names) + 1
  BY CardType DEF CInv, ChainOK, Depth
<1>2. chain[r][i] \in Frames /\ <<r, i>> \in Coroutines
  BY <1>1, CardType DEF Coroutines, Depths
<1> QED BY <1>1, <1>2 DEF Tokens, Frames

(* No other coroutine than that of s, which is about to be spawned, is still to start its entity. *)
LEMMA SpawnFrames ==
    ASSUME CInv, NEW s \in Requests, ~Gone(s), Pc(s) = "spawn", live' = live \cup {Ent(s)},
           NEW r \in Requests, NEW i \in 1..Depth(r), i # Depth(s) \/ r # s,
           chain'[r][i] = chain[r][i], NotYet(r, i)
    PROVE  NotYet(r, i)'
<1>1. Depth(s) \in 1..Depth(s)
  BY DEF CInv, ChainOK, Gone, Depth
<1>2. <<s, Depth(s)>> \in Tokens(Ent(s)) /\ Ent(s) \in Names
  BY <1>1, FrameToken DEF Pc, Ent, Frame
<1>3. ASSUME chain[r][i].pc \in {"uplink", "spawn"} PROVE chain[r][i].ent # Ent(s)
  <2>1. <<r, i>> \in Tokens(chain[r][i].ent)
    BY <1>3, FrameToken
  <2>2. <<r, i>> # <<s, Depth(s)>>
    OBVIOUS
  <2> QED BY <1>2, <2>1, <2>2 DEF CInv, TokenOK
<1> QED BY <1>3 DEF NotYet

(* The frames of a request that does not move. *)
LEMMA FramesStay ==
    ASSUME CInv, NEW r \in Requests, chain'[r] = chain[r], target'[r] = target[r], StartFrames(r),
           UpKept, live \subseteq live', \A i \in 1..Depth(r) : NotYet(r, i) => NotYet(r, i)'
    PROVE  StartFrames(r)'
<1> SUFFICES ASSUME ~Gone(r)' PROVE StartFrames(r)'
  BY DEF StartFrames
<1>1. /\ ~Gone(r) /\ Pc(r)' = Pc(r) /\ Ent(r)' = Ent(r) /\ Depth(r)' = Depth(r)
      /\ Ent(r) \in Names
  <2>1. Same(r)
    BY SameFacts
  <2> QED BY <2>1, PcType DEF Same
<1> PICK n \in Names : n = Ent(r) /\ n = Ent(r)'
  BY <1>1
<1>2. Pc(r) \in {"spawn"} \cup StartPcs => UplinkUp(n)'
  BY <1>1, UplinkKept DEF StartFrames
<1>3. /\ chain'[r][1].ent = target'[r] /\ \A i \in 1..Depth(r)' : NotYet(r, i)'
      /\ Pc(r)' \in {"enqueue", "queued", "entered", "spawn"} \cup StartPcs
      /\ Pc(r)' \in StartPcs => Ent(r)' \in live'
  BY <1>1 DEF StartFrames
<1> QED BY <1>1, <1>2, <1>3 DEF StartFrames, UplinkUp, Up

(* An entity that is no longer being started is up. *)
FramesMove == FramesOK' /\ \A n \in Names : Starting(n) => Starting(n)' \/ Up(n)

(* The requests that do not move are where they were, and what they start is still being started. *)
LEMMA OthersStay ==
    ASSUME CInv, FramesOK, UpKept, NEW s \in Requests, target' = target, live' = live,
           \A r \in Requests : r # s => chain'[r] = chain[r]
    PROVE  /\ \A r \in Requests : r # s => StartFrames(r)'
           /\ \A n \in Names : Starting(n) =>
                 Starting(n)' \/ (~Gone(s) /\ Ent(s) = n /\ Pc(s) \in StartPcs)
<1>1. ASSUME NEW r \in Requests, r # s PROVE StartFrames(r)'
  <2>1. \A i \in 1..Depth(r) : NotYet(r, i) => NotYet(r, i)'
    BY <1>1 DEF NotYet
  <2> QED BY <1>1, <2>1, FramesStay DEF FramesOK
<1>2. ASSUME NEW n \in Names, NEW r \in Requests, r # s, ~Gone(r), Ent(r) = n, Pc(r) \in StartPcs
      PROVE  Starting(n)'
  <2>1. ~Gone(r)' /\ Ent(r)' = n /\ Pc(r)' \in StartPcs
    BY <1>2, SameFacts DEF Same
  <2> QED BY <2>1 DEF Starting
<1> QED BY <1>1, <1>2 DEF Starting

(* No coroutine moves. *)
LEMMA FramesSame ==
    ASSUME CInv, FramesOK, UpKept, UNCHANGED <<chain, target, live>>
    PROVE  FramesMove
<1>1. ASSUME NEW r \in Requests PROVE StartFrames(r)'
  <2>1. \A i \in 1..Depth(r) : NotYet(r, i) => NotYet(r, i)'
    BY DEF NotYet
  <2> QED BY <2>1, FramesStay DEF FramesOK
<1>2. \A n \in Names : Starting(n) => Starting(n)'
  BY DEF Starting, Gone, Pc, Ent, Frame, Depth
<1> QED BY <1>1, <1>2 DEF FramesMove, FramesOK

(* The coroutine of s goes on to pc, before it spawns its process or after. *)
LEMMA FramesAt ==
    ASSUME CInv, FramesOK, UpKept, target' = target, live' = live,
           NEW s \in Requests, ~Gone(s), NEW pc \in {"queued", "entered", "spawn"} \cup StartPcs,
           chain' = At(s, pc),
           pc \in StartPcs <=> Pc(s) \in StartPcs,
           pc = "spawn" => Ent(s) \notin live /\ UplinkUp(Ent(s))
    PROVE  FramesMove
<1> USE DEF StartPcs
<1>0. pc \in Pcs
  BY DEF Pcs
<1>1. /\ ~Gone(s)' /\ Pc(s)' = pc /\ Ent(s)' = Ent(s) /\ Depth(s)' = Depth(s) /\ Ent(s) \in Names
  BY <1>0, AtEffect, PcType
<1>2. /\ \A r \in Requests : r # s => chain'[r] = chain[r]
      /\ \A i \in 1..Depth(s) : i # Depth(s) => chain'[s][i] = chain[s][i]
      /\ \A i \in 1..Depth(s) : chain'[s][i].ent = chain[s][i].ent
      /\ chain'[s][Depth(s)].pc = pc /\ Depth(s) \in 1..Depth(s) /\ 1 \in 1..Depth(s)
  BY <1>0, AtFacts DEF CInv, Gone, Depth
<1>3. /\ \A r \in Requests : r # s => StartFrames(r)'
      /\ \A n \in Names : Starting(n) =>
            Starting(n)' \/ (~Gone(s) /\ Ent(s) = n /\ Pc(s) \in StartPcs)
  BY <1>2, OthersStay
<1> PICK m \in Names : m = Ent(s)
  BY <1>1
<1>4. Pc(s) \in StartPcs => Starting(m)'
  BY <1>1 DEF Starting
<1>5. StartFrames(s)
  BY DEF FramesOK
<1>6. StartFrames(s)'
  <2>1. \A i \in 1..Depth(s) : NotYet(s, i)'
    <3>1. ASSUME NEW i \in 1..Depth(s), i # Depth(s) PROVE NotYet(s, i)'
      BY <1>2, <1>5, <3>1 DEF StartFrames, NotYet
    <3>2. ASSUME NEW i \in 1..Depth(s), i = Depth(s) PROVE NotYet(s, i)'
      BY <1>2, <3>2 DEF NotYet, Ent, Frame
    <3> QED BY <3>1, <3>2
  <2>2. pc \in {"spawn"} \cup StartPcs => UplinkUp(m)'
    BY <1>5, UplinkKept DEF StartFrames
  <2>3. chain'[s][1].ent = target'[s]
    BY <1>2, <1>5 DEF StartFrames
  <2>4. pc \in StartPcs => m \in live'
    BY <1>5 DEF StartFrames
  <2> QED BY <1>1, <2>1, <2>2, <2>3, <2>4 DEF StartFrames, UplinkUp, Up
<1> QED BY <1>3, <1>4, <1>6 DEF FramesMove, FramesOK

(* A request that ends. *)
LEMMA FramesEnd ==
    ASSUME CInv, FramesOK, UpKept, target' = target, live' = live, NEW s \in Requests,
           \A r \in Requests : r # s => chain'[r] = chain[r], Gone(s)',
           ~Gone(s) /\ Pc(s) \in StartPcs => Up(Ent(s))
    PROVE  FramesMove
<1>1. /\ \A r \in Requests : r # s => StartFrames(r)'
      /\ \A n \in Names : Starting(n) =>
            Starting(n)' \/ (~Gone(s) /\ Ent(s) = n /\ Pc(s) \in StartPcs)
  BY OthersStay
<1>2. StartFrames(s)'
  BY DEF StartFrames
<1> QED BY <1>1, <1>2 DEF FramesMove, FramesOK

(* The coroutine of an entity that is up returns. *)
LEMMA FramesReturn ==
    ASSUME CInv, FramesOK, UpKept, target' = target, live' = live,
           NEW s \in Requests, ~Gone(s), Up(Ent(s)), NEW rest, Return(s, rest)
    PROVE  FramesMove
<1> PICK k : k = Len(chain[s])
  OBVIOUS
<1>1. chain[s] \in Seq(Frames) /\ k \in Nat /\ k # 0 /\ DOMAIN chain = Requests
  BY DEF CInv, ChainOK, Gone
<1>2. CASE k = 1
  <2>1. /\ \A r \in Requests : r # s => chain'[r] = chain[r]
        /\ chain'[s] = <<>>
    BY <1>1, <1>2 DEF Return, Depth
  <2> QED BY <2>1, FramesEnd DEF Gone
<1>3. CASE k # 1
  <2>0. PICK d \in Nat : d = k - 1 /\ d # 0 /\ d < k /\ d + 1 = k
    BY <1>1, <1>3, Predecessor
  <2>1. chain' = [chain EXCEPT ![s] = [SubSeq(chain[s], 1, d) EXCEPT ![d].pc = "spawn"]]
    BY <1>3, <2>0 DEF Return, Depth, Frame
  <2>2. /\ \A r \in Requests : r # s => chain'[r] = chain[r]
        /\ chain'[s] = WithPc(SubSeq(chain[s], 1, d), d, "spawn")
    BY <1>1, <2>1 DEF WithPc
  <2>3. /\ chain'[s] # <<>> /\ Len(chain'[s]) = d /\ chain'[s][d].pc = "spawn"
        /\ \A i \in 1..d : chain'[s][i].ent = chain[s][i].ent
        /\ \A i \in 1..d : i # d => chain'[s][i] = chain[s][i]
        /\ 1 \in 1..d /\ d \in 1..d
    <3>1. d + 1 = Len(chain[s]) /\ d # 0
      BY <2>0
    <3> QED BY <1>1, <2>0, <2>2, <3>1, DropLastFacts
  <2>4. /\ \A r \in Requests : r # s => StartFrames(r)'
        /\ \A n \in Names : Starting(n) =>
              Starting(n)' \/ (~Gone(s) /\ Ent(s) = n /\ Pc(s) \in StartPcs)
    BY <2>2, OthersStay
  <2> PICK m \in Names : m = chain[s][d].ent
    <3>1. d \in 1..k /\ DOMAIN chain[s] = 1..k
      BY <1>1, <2>0
    <3>2. chain[s][d] \in Frames
      BY <1>1, <3>1
    <3> QED BY <3>2 DEF Frames
  <2>5. Uplink[m] = Ent(s) /\ m \notin live /\ chain[s][1].ent = target[s]
        /\ \A i \in 1..d : NotYet(s, i)
    <3>1. d \in 1..Depth(s) /\ d < Depth(s) /\ d + 1 = Depth(s)
      BY <1>1, <2>0 DEF Depth
    <3>2. Uplink[m] = Ent(s) /\ chain[s][d].pc = "uplink"
      BY <3>1 DEF CInv, ChainOK, Ent, Frame
    <3>3. \A i \in 1..d : i \in 1..Depth(s)
      BY <1>1, <3>1 DEF Depth
    <3> QED BY <3>1, <3>2, <3>3 DEF FramesOK, StartFrames, NotYet
  <2>6. UplinkUp(m)'
    BY <2>5, UplinkKept DEF UplinkUp
  <2>7. ~Gone(s)' /\ Depth(s)' = d /\ Pc(s)' = "spawn" /\ Ent(s)' = m
    BY <2>3 DEF Gone, Depth, Pc, Ent, Frame
  <2>8. \A i \in 1..d : NotYet(s, i)'
    BY <2>3, <2>5 DEF NotYet
  <2>9. StartFrames(s)'
    BY <2>3, <2>5, <2>6, <2>7, <2>8 DEF StartFrames, UplinkUp, Up, StartPcs
  <2> QED BY <2>4, <2>9 DEF FramesMove, FramesOK
<1> QED BY <1>2, <1>3

(* The coroutine of an entity that is not live awaits that of its uplink. *)
LEMMA FramesUplink ==
    ASSUME CInv, FramesOK, UpKept, target' = target, live' = live, tree \in 0..MaxCommits,
           NEW s \in Requests, ~Gone(s), Pc(s) = "entered", Ent(s) \notin live, NEW u \in Names,
           chain' = [At(s, "uplink") EXCEPT ![s] = Append(@, NewFrame(u))]
    PROVE  FramesMove
<1> PICK k : k = Len(chain[s])
  OBVIOUS
<1> DEFINE w == WithPc(chain[s], k, "uplink")
<1>1. /\ chain[s] \in Seq(Frames) /\ k \in Nat /\ k # 0 /\ "uplink" \in Pcs /\ DOMAIN chain = Requests
      /\ NewFrame(u) \in Frames
  <2>1. NewFrame(u) \in Frames /\ "uplink" \in Pcs
    BY DEF Pcs, Frames, NewFrame
  <2> QED BY <2>1 DEF CInv, ChainOK, Gone
<1>2. /\ w \in Seq(Frames) /\ Len(w) = k /\ \A i \in 1..k : i # k => w[i] = chain[s][i]
      /\ w[k].ent = chain[s][k].ent /\ w[k].pc = "uplink"
  BY <1>1, PcFacts
<1>3. /\ \A r \in Requests : r # s => chain'[r] = chain[r]
      /\ chain'[s] = Append(w, NewFrame(u))
  BY <1>1 DEF At, Depth, WithPc
<1> HIDE DEF w
<1>4. /\ chain'[s] # <<>> /\ Len(chain'[s]) = k + 1 /\ chain'[s][k + 1] = NewFrame(u)
      /\ \A i \in 1..k : chain'[s][i] = w[i]
  <2>1. PICK f \in Frames : f = NewFrame(u)
    BY <1>1
  <2>2. /\ Append(w, f) # <<>> /\ Len(Append(w, f)) = k + 1 /\ Append(w, f)[k + 1] = f
        /\ \A i \in 1..k : Append(w, f)[i] = w[i]
    BY <1>2, AppendFacts
  <2> QED BY <1>3, <2>1, <2>2
<1>5. /\ \A r \in Requests : r # s => StartFrames(r)'
      /\ \A n \in Names : Starting(n) =>
            Starting(n)' \/ (~Gone(s) /\ Ent(s) = n /\ Pc(s) \in StartPcs)
  BY <1>3, OthersStay
<1>6. /\ ~Gone(s)' /\ Depth(s)' = k + 1 /\ Pc(s)' = "enqueue"
  BY <1>4 DEF Gone, Depth, Pc, Frame, NewFrame
<1>7. StartFrames(s) /\ k = Depth(s) /\ chain[s][k].ent = Ent(s)
  BY DEF FramesOK, Depth, Ent, Frame
<1>8. ASSUME NEW i \in 1..(k + 1) PROVE NotYet(s, i)'
  <2>1. CASE i = k + 1
    BY <1>4, <2>1 DEF NotYet, NewFrame
  <2>2. CASE i = k
    <3>1. PICK m : m = Ent(s)
      OBVIOUS
    <3>2. m \notin live'
      BY <3>1
    <3>3. chain'[s][i].ent = m
      BY <1>1, <1>2, <1>4, <1>7, <2>2, <3>1
    <3> QED BY <3>2, <3>3 DEF NotYet
  <2>3. CASE i # k /\ i # k + 1
    <3>1. i \in 1..k
      BY <1>1, <2>3
    <3> QED BY <1>2, <1>4, <1>7, <2>3, <3>1 DEF NotYet, StartFrames
  <2> QED BY <2>1, <2>2, <2>3
<1>9. chain'[s][1].ent = target'[s]
  <2>1. 1 \in 1..k
    BY <1>1
  <2> QED BY <1>2, <1>4, <1>7, <2>1 DEF StartFrames
<1>10. StartFrames(s)'
  BY <1>6, <1>8, <1>9 DEF StartFrames, StartPcs
<1> QED BY <1>5, <1>10 DEF FramesMove, FramesOK, StartPcs

-----------------------------------------------------------------------------
(* Steps of the daemon. *)

(* Nothing is torn down or killed. *)
LEMMA UpStays ==
    ASSUME UNCHANGED <<proc, ns>>
    PROVE  UpKept
BY DEF UpKept, Up

(* The units, when a Start takes a message and calls for its scope. *)
LEMMA UnitsStay ==
    ASSUME WorldOK, UnitsUp, SliceOnce, UNCHANGED <<live, jobs, unit>>, Shrinks,
           \/ calls' = calls
           \/ \E c \in UnitCalls : calls' = Append(calls, c) /\ c.what = "scope" /\ c.ent \in live
    PROVE  UnitsUp' /\ SliceOnce'
<1>1. \A i \in DOMAIN inbox' : inbox'[i].ok
  BY PopFacts DEF Shrinks, UnitsUp
<1>2. ASSUME NEW i \in DOMAIN calls'
      PROVE  \/ i \in DOMAIN calls /\ calls'[i] = calls[i]
             \/ calls'[i].what = "scope" /\ calls'[i].ent \in live
  <2>1. CASE calls' = calls
    BY <1>2, <2>1
  <2>2. ASSUME NEW c \in UnitCalls, calls' = Append(calls, c), c.what = "scope", c.ent \in live
        PROVE  \/ i \in DOMAIN calls /\ calls'[i] = calls[i]
               \/ calls'[i].what = "scope" /\ calls'[i].ent \in live
    <3>1. PICK l \in Nat : l = Len(calls) /\ DOMAIN calls = 1..l /\ calls \in Seq(UnitCalls)
      BY DEF WorldOK
    <3>2. /\ DOMAIN Append(calls, c) = 1..(l + 1) /\ Append(calls, c)[l + 1] = c
          /\ \A j \in 1..l : Append(calls, c)[j] = calls[j]
      BY <3>1, AppendFacts
    <3>3. i \in 1..l \/ i = l + 1
      BY <1>2, <2>2, <3>2
    <3> QED BY <2>2, <3>1, <3>2, <3>3
  <2> QED BY <2>1, <2>2
<1>3. UnitsUp'
  BY <1>1, <1>2 DEF UnitsUp
<1>4. \A n : Unused(n) => Unused(n)'
  BY DEF Unused, IsStart
<1>5. \A n : \A i \in DOMAIN calls' :
         IsStart(calls'[i], n) => i \in DOMAIN calls /\ IsStart(calls[i], n)
  BY <1>2 DEF IsStart
<1>6. SliceOnce'
  BY <1>4, <1>5 DEF SliceOnce, IsStart
<1> QED BY <1>3, <1>6

(* What is live, when nothing changes but the coroutines. *)
LEMMA LiveStays ==
    ASSUME LiveOK, FramesMove, UpKept, UNCHANGED <<live, proc>>, live \subseteq Names
    PROVE  LiveOK'
BY DEF LiveOK, FramesMove, UpKept

(* A step that changes nothing but the coroutines. *)
LEMMA WorldStays ==
    ASSUME WorldOK, WorldUp, FramesMove, UNCHANGED worldVars
    PROVE  WorldUp'
<1>1. UNCHANGED <<live, proc, ns, ecalls, eanswers, calls, jobs, unit, inbox>>
  BY DEF worldVars, entitydVars, systemdVars
<1>2. UpKept
  BY <1>1, UpStays
<1>3. LiveOK'
  BY <1>1, <1>2, LiveStays DEF WorldUp, WorldOK
<1>4. UnitsUp' /\ SliceOnce'
  BY <1>1, UnitsStay DEF WorldUp, Shrinks
<1>5. BusUp'
  <2>1. \A n \in Names : UplinkUp(n) => UplinkUp(n)'
    BY <1>2, UplinkKept
  <2> QED BY <1>1, <2>1 DEF WorldUp, BusUp
<1> QED BY <1>3, <1>4, <1>5 DEF WorldUp

(* A new request. *)
LEMMA RequestStart ==
    ASSUME CInv, WorldOK, StartInv, OnlyStarts, NEW s \in Requests, NEW o \in Ops, NEW n \in Names,
           Request(s, o, n)
    PROVE  StartInv'
<1>1. o = "start" /\ Gone(s) /\ UNCHANGED worldVars
  BY DEF OnlyStarts, Request, CInv, ChainOK, Gone
<1>2. NoStops'
  BY <1>1 DEF StartInv, NoStops, Request, WorldOK
<1>3. UpKept /\ live' = live
  BY <1>1, UpStays DEF worldVars, entitydVars
<1>4. \A r \in Requests : r # s => chain'[r] = chain[r] /\ target'[r] = target[r]
  BY DEF Request, CInv, ChainOK, WorldOK
<1>5. ASSUME NEW r \in Requests, r # s PROVE StartFrames(r)'
  <2>1. \A i \in 1..Depth(r) : NotYet(r, i) => NotYet(r, i)'
    BY <1>3, <1>4, <1>5 DEF NotYet
  <2> QED BY <1>3, <1>4, <1>5, <2>1, FramesStay DEF StartInv, FramesOK
<1>6. StartFrames(s)'
  <2>1. CASE chain'[s] = <<NewFrame(n)>>
    <3>1. ~Gone(s)' /\ Depth(s)' = 1 /\ Pc(s)' = "enqueue"
      BY <2>1 DEF Gone, Depth, Pc, Frame, NewFrame
    <3>2. chain'[s][1].ent = target'[s]
      BY <2>1 DEF Request, NewFrame, WorldOK
    <3>3. \A i \in 1..1 : NotYet(s, i)'
      BY <2>1 DEF NotYet, NewFrame
    <3> QED BY <3>1, <3>2, <3>3 DEF StartFrames, StartPcs
  <2>2. CASE chain'[s] = <<>>
    BY <2>2 DEF StartFrames, Gone
  <2> QED BY <1>1, <2>1, <2>2 DEF Request, Gone, CInv, ChainOK
<1>7. FramesMove
  <2>1. ASSUME NEW m \in Names, NEW r \in Requests, ~Gone(r), Ent(r) = m, Pc(r) \in StartPcs
        PROVE  Starting(m)'
    <3>1. Same(r)
      BY <1>1, <1>4, <2>1, SameFacts
    <3> QED BY <2>1, <3>1 DEF Same, Starting
  <2> QED BY <1>5, <1>6, <2>1 DEF FramesMove, FramesOK, Starting
<1>8. WorldUp'
  BY <1>1, <1>7, WorldStays DEF StartInv
<1> QED BY <1>2, <1>7, <1>8 DEF StartInv, FramesMove

(* ~queue_token. *)
LEMMA DropStart ==
    ASSUME CInv, WorldOK, StartInv, DropToken
    PROVE  StartInv'
<1>1. UNCHANGED <<op, target>> /\ UNCHANGED worldVars
  BY DEF DropToken
<1>2. UpKept /\ live' = live
  BY <1>1, UpStays DEF worldVars, entitydVars
<1>3. FramesMove
  <2>1. CASE UNCHANGED chain
    BY <1>1, <1>2, <2>1, FramesSame DEF StartInv
  <2>2. ASSUME NEW s \in Requests, NEW n \in Names, Resumes(s, n) PROVE FramesMove
    <3>1. ~Gone(s) /\ Pc(s) = "queued" /\ chain' = At(s, "entered")
      BY <2>2 DEF Resumes
    <3>2. "entered" \notin StartPcs /\ "queued" \notin StartPcs
      BY DEF StartPcs
    <3> QED BY <1>1, <1>2, <3>1, <3>2, FramesAt DEF StartInv
  <2> QED BY <2>1, <2>2, DropEffect
<1>4. WorldUp'
  BY <1>1, <1>3, WorldStays DEF StartInv
<1> QED BY <1>1, <1>3, <1>4 DEF StartInv, NoStops, FramesMove

(* No Commit replaces the tree that _self refers into. *)
LEMMA SelfThere ==
    ASSUME CInv, WorldOK, OnlyStarts, NEW s \in Requests, ~Gone(s)
    PROVE  Frame(s).tree = tree /\ SelfReads(Frame(s)) = {"self"}
<1>1. Frame(s) \in Frames
  BY FrameFacts DEF Gone
<1>2. Frame(s).tree \in 0..0 /\ tree \in 0..0
  BY <1>1 DEF Frames, WorldOK, OnlyStarts
<1> QED BY <1>2 DEF SelfReads

(* A live entity is up when the coroutine that has its token is not starting it. *)
LEMMA LiveIsUp ==
    ASSUME CInv, LiveOK, NEW s \in Requests, ~Gone(s), Pc(s) = "entered", Ent(s) \in live
    PROVE  Up(Ent(s))
<1>1. ASSUME NEW r \in Requests, ~Gone(r), Ent(r) = Ent(s), Pc(r) \in StartPcs PROVE FALSE
  <2>1. r = s
    BY <1>1, TokenAlone DEF StartPcs
  <2> QED BY <1>1, <2>1 DEF StartPcs
<1> QED BY <1>1 DEF LiveOK, Starting

(* A step that changes nothing but the coroutines keeps the invariant. *)
LEMMA QuietStart ==
    ASSUME WorldOK, StartInv, FramesMove, op' = op, UNCHANGED worldVars
    PROVE  StartInv'
<1>1. WorldUp'
  BY WorldStays DEF StartInv
<1> QED BY <1>1 DEF StartInv, NoStops, FramesMove

(* The steps of a running coroutine up to its fork. *)
LEMMA BeforeSpawn ==
    ASSUME CInv, WorldOK, StartInv, OnlyStarts, NEW s \in Requests,
           \/ Enqueue(s) \/ StartAlreadyLive(s) \/ StartUplink(s) \/ SpawnForkFails(s)
           \/ DanglingCrash(s) \/ SpawnHandshakeFails(s)
    PROVE  StartInv'
<1>1. UNCHANGED <<op, target>> /\ UNCHANGED worldVars
  BY DEF Enqueue, StartAlreadyLive, StartUplink, SpawnForkFails, DanglingCrash, SpawnHandshakeFails,
         Abort, worldVars
<1>2. UpKept /\ live' = live /\ FramesOK /\ StartFrames(s) /\ LiveOK
  BY <1>1, UpStays DEF worldVars, entitydVars, StartInv, FramesOK, WorldUp
<1> SUFFICES FramesMove
  BY <1>1, QuietStart
<1> USE DEF StartPcs
<1>3. CASE Enqueue(s)
  <2>1. ~Gone(s) /\ Pc(s) = "enqueue"
    BY <1>3, OnTopFacts DEF Enqueue
  <2>2. chain' = At(s, "queued") \/ chain' = At(s, "entered")
    BY <1>3, Zenon DEF Enqueue, Suspend
  <2> QED BY <1>1, <1>2, <2>1, <2>2, FramesAt
<1>4. CASE StartAlreadyLive(s)
  <2>1. ~Gone(s) /\ Pc(s) = "entered" /\ Ent(s) \in live /\ Return(s, Tail(stack))
    BY <1>4, OnTopFacts DEF StartAlreadyLive, Ent
  <2> QED BY <1>1, <1>2, <2>1, LiveIsUp, FramesReturn
<1>5. CASE StartUplink(s)
  <2>1. ~Gone(s) /\ Pc(s) = "entered" /\ Ent(s) \notin live
    BY <1>5, OnTopFacts DEF StartUplink, Ent
  <2>2. PICK n \in Names : n = Ent(s)
    BY <2>1, PcType
  <2>3. IF Uplink[n] = None THEN chain' = At(s, "spawn")
        ELSE chain' = [At(s, "uplink") EXCEPT ![s] = Append(@, NewFrame(Uplink[n]))]
    <3>1. SelfReads(Frame(s)) = {"self"} /\ Frame(s).ent = n
      BY <2>1, <2>2, SelfThere DEF Ent
    <3>2. PICK self \in SelfReads(Frame(s)) :
             LET u == IF self = "self" THEN Uplink[Frame(s).ent] ELSE None IN
             IF u = None
             THEN chain' = At(s, "spawn")
             ELSE chain' = [At(s, "uplink") EXCEPT ![s] = Append(@, NewFrame(u))]
      BY <1>5, Zenon DEF StartUplink
    <3>3. self = "self"
      BY <3>1, <3>2
    <3> QED BY <3>1, <3>2, <3>3, Zenon
  <2>4. CASE Uplink[n] = None
    <3>1. chain' = At(s, "spawn") /\ UplinkUp(n)
      BY <2>3, <2>4 DEF UplinkUp
    <3> QED BY <1>1, <1>2, <2>1, <2>2, <3>1, FramesAt
  <2>5. CASE Uplink[n] # None
    <3>1. PICK u \in Names : u = Uplink[n]
      BY <2>5, LifecycleAssumption
    <3>2. chain' = [At(s, "uplink") EXCEPT ![s] = Append(@, NewFrame(u))]
      BY <2>3, <2>5, <3>1, Zenon
    <3> QED BY <1>1, <1>2, <2>1, <3>2, FramesUplink DEF WorldOK
  <2> QED BY <2>4, <2>5
<1>6. CASE SpawnForkFails(s)
  <2>1. ~Gone(s) /\ Pc(s) = "spawn" /\ Unwind(s, Tail(stack))
    BY <1>6, OnTopFacts DEF SpawnForkFails
  <2>2. Gone(s)' /\ \A r \in Requests : r # s => chain'[r] = chain[r]
    BY <2>1 DEF Unwind, CInv, ChainOK, Gone
  <2> QED BY <1>1, <1>2, <2>1, <2>2, FramesEnd
<1>7. CASE DanglingCrash(s) \/ SpawnHandshakeFails(s)
  <2>1. chain' = chain
    BY <1>7 DEF DanglingCrash, SpawnHandshakeFails, Abort
  <2> QED BY <1>1, <1>2, <2>1, FramesSame
<1> QED BY <1>3, <1>4, <1>5, <1>6, <1>7

(* The frames, when the coroutine of s has spawned its process. *)
LEMMA FramesSpawn ==
    ASSUME CInv, FramesOK, UpKept, target' = target, NEW s \in Requests, ~Gone(s), Pc(s) = "spawn",
           NEW m \in Names, m = Ent(s), live' = live \cup {m}, chain' = At(s, "slice")
    PROVE  FramesOK' /\ (\A n \in Names : Starting(n) => Starting(n)') /\ Starting(m)'
<1>1. /\ ~Gone(s)' /\ Pc(s)' = "slice" /\ Ent(s)' = Ent(s) /\ Depth(s)' = Depth(s) /\ Ent(s) \in Names
  BY AtEffect, PcType DEF Pcs
<1>2. /\ \A r \in Requests : r # s => chain'[r] = chain[r]
      /\ \A i \in 1..Depth(s) : i # Depth(s) => chain'[s][i] = chain[s][i]
      /\ \A i \in 1..Depth(s) : chain'[s][i].ent = chain[s][i].ent
      /\ chain'[s][Depth(s)].pc = "slice" /\ Depth(s) \in 1..Depth(s) /\ 1 \in 1..Depth(s)
  BY AtFacts DEF CInv, Gone, Depth, Pcs
<1>3. ASSUME NEW r \in Requests, r # s PROVE StartFrames(r)'
  <2>1. \A i \in 1..Depth(r) : NotYet(r, i) => NotYet(r, i)'
    BY <1>2, <1>3, SpawnFrames
  <2> QED BY <1>2, <1>3, <2>1, FramesStay DEF FramesOK
<1>4. StartFrames(s)'
  <2>1. StartFrames(s)
    BY DEF FramesOK
  <2>2. ASSUME NEW i \in 1..Depth(s) PROVE NotYet(s, i)'
    <3>1. CASE i = Depth(s)
      BY <1>2, <3>1 DEF NotYet
    <3>2. CASE i # Depth(s)
      BY <1>2, <2>1, <3>2, SpawnFrames DEF StartFrames
    <3> QED BY <3>1, <3>2
  <2>3. UplinkUp(m)'
    BY <2>1, UplinkKept DEF StartFrames
  <2>4. chain'[s][1].ent = target'[s] /\ m \in live'
    BY <1>2, <2>1 DEF StartFrames
  <2> QED BY <1>1, <2>2, <2>3, <2>4 DEF StartFrames, StartPcs, UplinkUp, Up
<1>5. Starting(m)'
  BY <1>1 DEF Starting, StartPcs
<1>6. ASSUME NEW n \in Names, Starting(n) PROVE Starting(n)'
  <2>1. PICK r \in Requests : ~Gone(r) /\ Ent(r) = n /\ Pc(r) \in StartPcs
    BY <1>6 DEF Starting
  <2>2. r # s
    BY <2>1 DEF StartPcs
  <2>3. ~Gone(r)' /\ Ent(r)' = n /\ Pc(r)' \in StartPcs
    BY <1>2, <2>1, <2>2, SameFacts DEF Same
  <2> QED BY <2>3 DEF Starting
<1>7. FramesOK'
  BY <1>3, <1>4 DEF FramesOK
<1> QED BY <1>5, <1>6, <1>7

(* The units, when an entity that was not live calls for its slice. *)
LEMMA UnitsSpawn ==
    ASSUME WorldOK, UnitsUp, SliceOnce, NEW n \in Names, n \notin live, live' = live \cup {n},
           unit' \subseteq unit, UNCHANGED <<jobs, inbox>>,
           NEW c \in UnitCalls, c.what = "slice", c.ent = n, calls' = Append(calls, c)
    PROVE  UnitsUp' /\ SliceOnce'
<1>1. PICK l \in Nat : l = Len(calls) /\ DOMAIN calls = 1..l /\ calls \in Seq(UnitCalls)
  BY DEF WorldOK
<1>2. /\ DOMAIN Append(calls, c) = 1..(l + 1) /\ Append(calls, c)[l + 1] = c
      /\ \A j \in 1..l : Append(calls, c)[j] = calls[j]
  BY <1>1, AppendFacts
<1>3. ASSUME NEW i \in DOMAIN calls'
      PROVE  \/ i \in DOMAIN calls /\ calls'[i] = calls[i]
             \/ i = l + 1 /\ calls'[i] = c
  <2>1. i \in 1..l \/ i = l + 1
    BY <1>2, <1>3
  <2> QED BY <1>1, <1>2, <2>1
<1>4. UnitsUp'
  BY <1>3 DEF UnitsUp
<1>5. \A m : Unused(m) => Unused(m)'
  BY DEF Unused, IsStart
<1>6. Unused(n) /\ \A i \in DOMAIN calls : ~IsStart(calls[i], n)
  BY DEF SliceOnce, UnitsUp, IsStart
<1>7. ASSUME NEW m \in Names PROVE m \notin live' => Unused(m)'
  BY <1>5 DEF SliceOnce
<1>8. ASSUME NEW m \in Names, NEW i \in DOMAIN calls', IsStart(calls'[i], m)
      PROVE  Unused(m)' /\ (m = n => i = l + 1) /\ (m # n => i \in DOMAIN calls /\ IsStart(calls[i], m))
  <2>1. CASE i \in DOMAIN calls /\ calls'[i] = calls[i]
    BY <1>5, <1>6, <1>8, <2>1 DEF SliceOnce
  <2>2. CASE i = l + 1 /\ calls'[i] = c
    <3>1. m = n
      BY <1>8, <2>2 DEF IsStart
    <3> QED BY <1>5, <1>6, <2>2, <3>1
  <2> QED BY <1>3, <1>8, <2>1, <2>2
<1>9. ASSUME NEW m \in Names, NEW i \in DOMAIN calls', NEW j \in DOMAIN calls',
             IsStart(calls'[i], m), IsStart(calls'[j], m)
      PROVE  i = j
  BY <1>8, <1>9 DEF SliceOnce
<1>10. SliceOnce'
  BY <1>7, <1>8, <1>9 DEF SliceOnce, IsStart
<1> QED BY <1>4, <1>10

(* fork() and the first call. *)
LEMMA SpawnStart ==
    ASSUME CInv, WorldOK, StartInv, NEW s \in Requests, Spawn(s)
    PROVE  StartInv'
<1>1. /\ ~Gone(s) /\ Pc(s) = "spawn" /\ chain' = At(s, "slice")
      /\ UNCHANGED <<op, target, ns, ecalls, eanswers, jobs, inbox>>
  BY OnTopFacts DEF Spawn, Suspend
<1> PICK c : c = Call(s, "slice")
  OBVIOUS
<1>2. PICK n \in Names : n = Ent(s)
  BY <1>1, PcType
<1>3. /\ proc' = [proc EXCEPT ![n] = "running"] /\ live' = live \cup {n} /\ unit' \subseteq unit
      /\ calls' = Append(calls, c)
  BY <1>2 DEF Spawn, Spawned, SystemdCall, Ent
<1>4. c \in UnitCalls /\ c.what = "slice" /\ c.ent = n
  BY <1>1, <1>2, CallFacts DEF Call, Ent, Gone
<1>5. n \notin live
  <2>1. StartFrames(s) /\ Depth(s) \in 1..Depth(s)
    BY <1>1 DEF StartInv, FramesOK, CInv, ChainOK, Gone, Depth
  <2>2. NotYet(s, Depth(s))
    BY <1>1, <2>1 DEF StartFrames
  <2> QED BY <1>1, <1>2, <2>2 DEF NotYet, Pc, Ent, Frame
<1>6. UnitsUp' /\ SliceOnce'
  BY <1>1, <1>3, <1>4, <1>5, UnitsSpawn DEF StartInv, WorldUp
<1>7. proc'[n] = "running" /\ \A m \in Names : m # n => proc'[m] = proc[m]
  BY <1>3 DEF WorldOK
<1>8. UpKept
  BY <1>1, <1>7 DEF UpKept, Up
<1>9. FramesOK' /\ (\A m \in Names : Starting(m) => Starting(m)') /\ Starting(n)'
  BY <1>1, <1>2, <1>3, <1>8, FramesSpawn DEF StartInv
<1>10. LiveOK'
  <2>1. ASSUME NEW m \in live' PROVE proc'[m] = "running" /\ (Up(m)' \/ Starting(m)')
    <3>1. CASE m = n
      BY <1>7, <1>9, <3>1
    <3>2. CASE m # n
      <4>1. m \in live /\ m \in Names
        BY <1>3, <2>1, <3>2 DEF WorldOK
      <4> QED BY <1>7, <1>8, <1>9, <3>2, <4>1 DEF StartInv, WorldUp, LiveOK, UpKept
    <3> QED BY <3>1, <3>2
  <2> QED BY <2>1 DEF LiveOK
<1>11. BusUp'
  <2>1. \A m \in Names : UplinkUp(m) => UplinkUp(m)'
    BY <1>8, UplinkKept
  <2> QED BY <1>1, <2>1 DEF StartInv, WorldUp, BusUp
<1> QED BY <1>1, <1>6, <1>9, <1>10, <1>11 DEF StartInv, WorldUp, NoStops

(* The calls to the entityds, when the coroutine of an entity with its uplink up makes one. *)
LEMMA BusCall ==
    ASSUME WorldOK, BusUp, UpKept, UNCHANGED <<ns, eanswers>>, NEW n \in Names, UplinkUp(n),
           NEW c \in Calls, c.what = "component", ecalls' = [ecalls EXCEPT ![n] = Append(@, c)]
    PROVE  BusUp'
<1>1. ecalls'[n] = Append(ecalls[n], c) /\ \A m \in Names : m # n => ecalls'[m] = ecalls[m]
  BY DEF WorldOK
<1>2. PICK l \in Nat : l = Len(ecalls[n]) /\ DOMAIN ecalls[n] = 1..l /\ ecalls[n] \in Seq(Calls)
  BY DEF WorldOK
<1>3. /\ DOMAIN Append(ecalls[n], c) = 1..(l + 1) /\ Append(ecalls[n], c)[l + 1] = c
      /\ \A j \in 1..l : Append(ecalls[n], c)[j] = ecalls[n][j]
  BY <1>2, AppendFacts
<1>4. ASSUME NEW i \in DOMAIN ecalls'[n] PROVE ecalls'[n][i].what = "component"
  <2>1. i \in 1..l \/ i = l + 1
    BY <1>1, <1>3, <1>4
  <2> QED BY <1>1, <1>2, <1>3, <2>1 DEF BusUp
<1>5. \A m \in Names : UplinkUp(m) => UplinkUp(m)'
  BY UplinkKept
<1> QED BY <1>1, <1>4, <1>5 DEF BusUp

(* The calls to the components, or none. *)
LEMMA ComponentsStart ==
    ASSUME CInv, WorldOK, StartInv, OnlyStarts, NEW s \in Requests, Components(s)
    PROVE  StartInv'
<1>1. /\ ~Gone(s) /\ Pc(s) = "components"
      /\ UNCHANGED <<op, target, live, proc, ns, eanswers, calls, jobs, unit, inbox>>
  BY OnTopFacts DEF Components, systemdVars
<1>2. PICK n \in Names : n = Ent(s)
  BY <1>1, PcType
<1>3. n \in live /\ UplinkUp(n) /\ proc[n] = "running"
  BY <1>1, <1>2 DEF StartInv, FramesOK, StartFrames, StartPcs, WorldUp, LiveOK
<1>4. UpKept
  BY <1>1, UpStays
<1>5. \/ n \notin Networked /\ Return(s, Tail(stack)) /\ UNCHANGED ecalls
      \/ EntitydCall(s, "component") /\ Suspend(s, "component", Tail(stack))
  <2>1. SelfReads(Frame(s)) = {"self"} /\ Frame(s).ent = n
    BY <1>1, <1>2, SelfThere DEF Ent
  <2>2. PICK self \in SelfReads(Frame(s)) :
           LET empty == self = "empty" \/ Frame(s).ent \notin Networked IN
           \/ /\ empty
              /\ Return(s, Tail(stack))
              /\ UNCHANGED <<daemon, ecalls>>
           \/ /\ ~empty /\ proc[Frame(s).ent] = "running"
              /\ EntitydCall(s, "component")
              /\ Suspend(s, "component", Tail(stack))
              /\ UNCHANGED <<daemon, reply>>
           \/ /\ ~empty /\ proc[Frame(s).ent] # "running"
              /\ daemon' = "aborted"
              /\ UNCHANGED <<reply, chain, stack, ecalls>>
    BY Zenon DEF Components
  <2>3. self = "self"
    BY <2>1, <2>2
  <2>4. self # "empty"
    BY <2>3
  <2> QED BY <1>3, <2>1, <2>2, <2>4, Zenon
<1>6. CASE n \notin Networked /\ Return(s, Tail(stack)) /\ UNCHANGED ecalls
  <2>1. Up(n)
    BY <1>3, <1>6 DEF Up
  <2>2. FramesMove
    BY <1>1, <1>2, <1>4, <1>6, <2>1, FramesReturn DEF StartInv
  <2> QED BY <1>1, <1>6, <2>2, QuietStart DEF worldVars, entitydVars, systemdVars
<1>7. CASE EntitydCall(s, "component") /\ Suspend(s, "component", Tail(stack))
  <2>1. chain' = At(s, "component")
    BY <1>7 DEF Suspend
  <2>2. FramesMove
    BY <1>1, <1>4, <2>1, FramesAt DEF StartInv, StartPcs
  <2>3. PICK c \in Calls : c = Call(s, "component") /\ c.what = "component"
    BY <1>1, CallFacts DEF Call, Gone
  <2>4. ecalls' = [ecalls EXCEPT ![n] = Append(@, c)]
    BY <1>2, <1>7, <2>3 DEF EntitydCall, Ent
  <2>5. BusUp'
    BY <1>1, <1>3, <1>4, <2>3, <2>4, BusCall DEF StartInv, WorldUp
  <2>6. LiveOK' /\ UnitsUp' /\ SliceOnce'
    BY <1>1, <1>4, <2>2, LiveStays, UnitsStay DEF StartInv, WorldUp, WorldOK, Shrinks
  <2> QED BY <1>1, <2>2, <2>5, <2>6 DEF StartInv, WorldUp, NoStops, FramesMove
<1> QED BY <1>5, <1>6, <1>7

(* Every step of a running coroutine. *)
LEMMA RunStart ==
    ASSUME CInv, WorldOK, StartInv, OnlyStarts, NEW s \in Requests, RunStep(s)
    PROVE  StartInv'
<1>1. ~SpawnAllocFails(s) /\ ~SpawnBusFails(s)
  BY DEF SpawnAllocFails, SpawnBusFails, OnlyStarts
<1>2. ~StopNotLive(s) /\ ~StopShutdown(s) /\ ~StopBusClosed(s)
  BY DEF StopNotLive, StopShutdown, StopBusClosed, StartInv, NoStops
<1> QED BY <1>1, <1>2, BeforeSpawn, SpawnStart, ComponentsStart DEF RunStep

-----------------------------------------------------------------------------
(* Messages. *)

(* A coroutine takes a message of systemd, and calls for its scope if it was the end of the slice's job. *)
LEMMA MessageStart ==
    ASSUME CInv, WorldOK, StartInv, FramesMove, UNCHANGED <<op, live, jobs, unit>>, UNCHANGED entitydVars,
           Shrinks,
           \/ calls' = calls
           \/ \E c \in UnitCalls : calls' = Append(calls, c) /\ c.what = "scope" /\ c.ent \in live
    PROVE  StartInv'
<1>1. UNCHANGED <<proc, ns, ecalls, eanswers>>
  BY DEF entitydVars
<1>2. UpKept
  BY <1>1, UpStays
<1>3. LiveOK' /\ UnitsUp' /\ SliceOnce'
  BY <1>1, <1>2, LiveStays, UnitsStay DEF StartInv, WorldUp, WorldOK
<1>4. BusUp'
  <2>1. \A n \in Names : UplinkUp(n) => UplinkUp(n)'
    BY <1>2, UplinkKept
  <2> QED BY <1>1, <2>1 DEF StartInv, WorldUp, BusUp
<1> QED BY <1>3, <1>4 DEF StartInv, WorldUp, NoStops, FramesMove

(* The reply to a unit call: no call is refused. *)
LEMMA ReplyStart ==
    ASSUME CInv, WorldOK, StartInv, DeliverReply
    PROVE  StartInv'
<1> PICK c, r : c = Head(inbox).call /\ r = c.req
  OBVIOUS
<1>1. /\ inbox # <<>> /\ inbox' = Tail(inbox) /\ UNCHANGED <<op, target, live, jobs, unit, calls>>
      /\ UNCHANGED entitydVars
  BY DEF DeliverReply
<1>2. Head(inbox).ok /\ c \in UnitCalls /\ r \in Requests /\ c.what \in UnitPcs
  <2>1. 1 \in DOMAIN inbox /\ Head(inbox) = inbox[1]
    BY <1>1, PopFacts DEF WorldOK
  <2> QED BY <2>1, InboxItem DEF StartInv, WorldUp, UnitsUp
<1>3. UpKept
  BY <1>1, UpStays DEF entitydVars
<1>4. \/ Awaits(r, c.what) /\ chain' = At(r, JobOf[c.what])
      \/ UNCHANGED chain
  BY <1>2 DEF DeliverReply, Suspend
<1>5. CASE Awaits(r, c.what) /\ chain' = At(r, JobOf[c.what])
  <2>1. ~Gone(r) /\ Pc(r) = c.what
    BY <1>5 DEF Awaits, Gone, Pc
  <2>2. c.what \in {"slice", "scope"}
    BY <1>2, <2>1 DEF StartInv, FramesOK, StartFrames, StartPcs, UnitPcs
  <2>3. JobOf[c.what] \in {"sliceJob", "scopeJob"}
    BY <2>2 DEF JobOf
  <2>4. PICK pc \in {"sliceJob", "scopeJob"} : chain' = At(r, pc)
    BY <1>5, <2>3
  <2>5. FramesMove
    BY <1>1, <1>2, <1>3, <2>1, <2>2, <2>4, FramesAt DEF StartInv, StartPcs
  <2> QED BY <1>1, <2>5, MessageStart DEF Shrinks
<1>6. CASE UNCHANGED chain
  <2>1. FramesMove
    BY <1>1, <1>3, <1>6, FramesSame DEF StartInv
  <2> QED BY <1>1, <2>1, MessageStart DEF Shrinks
<1> QED BY <1>4, <1>5, <1>6

(* A JobRemoved signal: no job fails. *)
LEMMA SignalStart ==
    ASSUME CInv, WorldOK, StartInv, DeliverJobRemoved
    PROVE  StartInv'
<1>1. /\ inbox # <<>> /\ inbox' = Tail(inbox) /\ UNCHANGED <<op, target, live, jobs, unit>>
      /\ UNCHANGED entitydVars
  BY DEF DeliverJobRemoved
<1>2. Head(inbox).ok
  <2>1. 1 \in DOMAIN inbox /\ Head(inbox) = inbox[1]
    BY <1>1, PopFacts DEF WorldOK
  <2> QED BY <2>1 DEF StartInv, WorldUp, UnitsUp
<1>3. UpKept
  BY <1>1, UpStays DEF entitydVars
<1>4. CASE Ignored(Head(inbox).call)
  <2>1. UNCHANGED <<chain, calls>>
    BY <1>4 DEF Ignored
  <2>2. FramesMove
    BY <1>1, <1>3, <2>1, FramesSame DEF StartInv
  <2> QED BY <1>1, <2>1, <2>2, MessageStart DEF Shrinks
<1>5. ASSUME NEW r \in Requests, JobDone(r) PROVE StartInv'
  <2>1. CASE Awaits(r, "sliceJob") /\ SystemdCall(r, "scope") /\ chain' = At(r, "scope")
    <3>1. ~Gone(r) /\ Pc(r) = "sliceJob"
      BY <2>1 DEF Awaits, Gone, Pc
    <3>2. FramesMove
      BY <1>1, <1>3, <2>1, <3>1, FramesAt DEF StartInv, StartPcs
    <3>3. Ent(r) \in live
      BY <3>1 DEF StartInv, FramesOK, StartFrames, StartPcs
    <3>4. PICK c \in UnitCalls : c = Call(r, "scope") /\ c.what = "scope" /\ c.ent \in live
      BY <3>1, <3>3, CallFacts DEF Call, Ent, Gone
    <3>5. calls' = Append(calls, c)
      BY <2>1, <3>4 DEF SystemdCall
    <3> QED BY <1>1, <3>2, <3>4, <3>5, MessageStart DEF Shrinks
  <2>2. CASE Awaits(r, "scopeJob") /\ chain' = At(r, "components") /\ UNCHANGED calls
    <3>1. ~Gone(r) /\ Pc(r) = "scopeJob"
      BY <2>2 DEF Awaits, Gone, Pc
    <3>2. FramesMove
      BY <1>1, <1>3, <2>2, <3>1, FramesAt DEF StartInv, StartPcs
    <3> QED BY <1>1, <2>2, <3>2, MessageStart DEF Shrinks
  <2>3. ~Awaits(r, "stopJob")
    BY DEF Awaits, StartInv, FramesOK, StartFrames, StartPcs, Gone, Pc
  <2> QED BY <1>5, <2>1, <2>2, <2>3, Zenon DEF JobDone, Suspend
<1> QED BY <1>2, <1>4, <1>5, Zenon DEF DeliverJobRemoved

(* The answer of an entityd: it has set up the namespace. *)
LEMMA AnswerStart ==
    ASSUME CInv, WorldOK, BusOK, StartInv, NEW n \in Names, DeliverComponent(n)
    PROVE  StartInv'
<1> PICK r : r = Head(eanswers[n]).req
  OBVIOUS
<1>1. /\ eanswers[n] # <<>> /\ eanswers' = [eanswers EXCEPT ![n] = Tail(@)]
      /\ UNCHANGED <<op, target, live, proc, ns, ecalls, calls, jobs, unit, inbox>>
      /\ \/ Awaits(r, "component") /\ Return(r, <<>>)
         \/ UNCHANGED chain
  BY DEF DeliverComponent, systemdVars
<1>2. UpKept
  BY <1>1, UpStays
<1>3. /\ Head(eanswers[n]) = eanswers[n][1] /\ 1 \in DOMAIN eanswers[n]
      /\ \A i \in DOMAIN Tail(eanswers[n]) :
            i + 1 \in DOMAIN eanswers[n] /\ Tail(eanswers[n])[i] = eanswers[n][i + 1]
  BY <1>1 DEF WorldOK
<1>4. r \in Requests
  BY <1>3, BusItem
<1>5. ASSUME Awaits(r, "component"), Return(r, <<>>) PROVE FramesMove
  <2>1. ~Gone(r) /\ Pc(r) = "component"
    BY <1>5 DEF Awaits, Gone, Pc
  <2>2. Ent(r) = n
    BY <1>3, <2>1 DEF BusOK, ExpectedOn, Expected
  <2>3. Up(n)
    BY <1>1, <1>4, <2>1, <2>2
       DEF Up, StartInv, FramesOK, StartFrames, StartPcs, WorldUp, LiveOK, BusUp
  <2> QED BY <1>1, <1>2, <1>4, <1>5, <2>1, <2>2, <2>3, FramesReturn DEF StartInv
<1>6. ASSUME UNCHANGED chain PROVE FramesMove
  BY <1>1, <1>2, <1>6, FramesSame DEF StartInv
<1>7. FramesMove
  BY <1>1, <1>5, <1>6
<1>8. LiveOK' /\ UnitsUp' /\ SliceOnce'
  BY <1>1, <1>2, <1>7, LiveStays, UnitsStay DEF StartInv, WorldUp, WorldOK, Shrinks
<1>9. BusUp'
  <2>1. \A m \in Names : UplinkUp(m) => UplinkUp(m)'
    BY <1>2, UplinkKept
  <2>2. eanswers'[n] = Tail(eanswers[n]) /\ \A m \in Names : m # n => eanswers'[m] = eanswers[m]
    BY <1>1 DEF WorldOK
  <2> QED BY <1>1, <1>3, <2>1, <2>2 DEF StartInv, WorldUp, BusUp
<1> QED BY <1>1, <1>7, <1>8, <1>9 DEF StartInv, WorldUp, NoStops, FramesMove

(* No entityd is told to shut down, hangs up or is given up. *)
LEMMA EntityBusStart ==
    ASSUME CInv, WorldOK, BusOK, StartInv, NEW n \in Names, EntityBusStep(n)
    PROVE  StartInv'
<1>1. ~DeliverShutdown(n)
  <2>1. eanswers[n] # <<>> => 1 \in DOMAIN eanswers[n] /\ Head(eanswers[n]) = eanswers[n][1]
    BY DEF WorldOK
  <2> QED BY <2>1 DEF DeliverShutdown, StartInv, WorldUp, BusUp
<1>2. ASSUME NEW r \in Requests, EntitydHangup(r) PROVE FALSE
  <2>1. ~Gone(r) /\ Pc(r) \in {"component", "shutdown"} /\ proc[Ent(r)] # "running"
    BY <1>2 DEF EntitydHangup, Awaits, Gone, Pc, Ent
  <2> QED BY <2>1 DEF StartInv, FramesOK, StartFrames, StartPcs, WorldUp, LiveOK
<1>3. CASE DanglingAdvance(n)
  <2>1. UNCHANGED <<op, target, chain>> /\ UNCHANGED worldVars
    BY <1>3 DEF DanglingAdvance, Abort
  <2>2. UpKept /\ live' = live
    BY <2>1, UpStays DEF worldVars, entitydVars
  <2>3. FramesMove
    BY <2>1, <2>2, FramesSame DEF StartInv
  <2> QED BY <2>1, <2>3, QuietStart
<1> QED BY <1>1, <1>2, <1>3, AnswerStart DEF EntityBusStep

-----------------------------------------------------------------------------
(* systemd and the entityds. *)

(* systemd accepts every call. *)
LEMMA HandleStart ==
    ASSUME CInv, WorldOK, StartInv, OnlyStarts, SlicesDistinct, SystemdHandles
    PROVE  StartInv'
<1>1. /\ UNCHANGED <<op, target, chain, live, unit>> /\ UNCHANGED <<proc, ns, ecalls, eanswers>>
  BY DEF SystemdHandles, daemonVars, entitydVars
<1>2. UpKept
  BY <1>1, UpStays
<1>3. FramesMove
  BY <1>1, <1>2, FramesSame DEF StartInv
<1>4. LiveOK'
  BY <1>1, <1>2, <1>3, LiveStays DEF StartInv, WorldUp, WorldOK
<1>5. BusUp'
  <2>1. \A m \in Names : UplinkUp(m) => UplinkUp(m)'
    BY <1>2, UplinkKept
  <2> QED BY <1>1, <2>1 DEF StartInv, WorldUp, BusUp
<1>6. PICK call \in UnitCalls, l \in Nat, S \in SUBSET UnitCalls, ok \in BOOLEAN : Handled(call, l, S, ok)
  BY HandleEffect
<1>7. /\ calls # <<>> /\ calls' = Tail(calls) /\ call = calls[1] /\ 1 \in DOMAIN calls
      /\ \A i \in DOMAIN calls' : i \in Nat /\ i # 0 /\ i + 1 \in DOMAIN calls /\ calls'[i] = calls[i + 1]
  BY <1>6 DEF Handled, WorldOK
<1>8. /\ call.what # "stopUnit" /\ call.ent \in live /\ call.ent \in Names
      /\ call.what = "slice" => Unused(call.ent)
  BY <1>7 DEF StartInv, WorldUp, UnitsUp, SliceOnce, IsStart, UnitCalls
<1>9. ~MayRefuse(call)
  <2>1. ASSUME call.what = "slice", NEW job \in jobs, Slice[job.ent] = Slice[call.ent],
               job.what \in {"slice", "stopUnit"}
        PROVE  FALSE
    <3>1. job.ent \in Names /\ job.what # "stopUnit"
      BY DEF WorldOK, UnitCalls, StartInv, WorldUp, UnitsUp
    <3>2. IsStart(job, call.ent)
      BY <1>8, <2>1, <3>1 DEF SlicesDistinct, IsStart
    <3> QED BY <1>8, <2>1, <3>2 DEF Unused
  <2>2. ~Exists(call)
    BY <1>8, <2>1 DEF Exists, Unused, JobsOn
  <2>3. proc[call.ent] = "running" /\ "call" \notin Faults
    BY <1>8 DEF StartInv, WorldUp, LiveOK, OnlyStarts
  <2> QED BY <2>2, <2>3 DEF MayRefuse
<1>10. /\ ok /\ jobs' = jobs \cup {call} /\ S = {} /\ Sends(l, Message("reply", call, ok))
       /\ \A i \in (Len(inbox) + 1)..(Len(inbox) + l) : inbox'[i].call \in S
  BY <1>6, <1>8, <1>9 DEF Handled
<1>11. ASSUME NEW i \in DOMAIN inbox' PROVE inbox'[i].ok
  <2>1. PICK e \in Nat : e = Len(inbox) /\ DOMAIN inbox = 1..e
    BY DEF WorldOK
  <2>2. DOMAIN inbox' = 1..(e + l + 1) /\ (\A j \in 1..e : inbox'[j] = inbox[j])
        /\ inbox'[e + l + 1] = Message("reply", call, ok) /\ ~ \E j \in (e + 1)..(e + l) : TRUE
    BY <1>10, <2>1 DEF Sends
  <2>3. i \in 1..e \/ i = e + l + 1
    BY <1>11, <2>2
  <2>4. Message("reply", call, ok).ok
    BY <1>10 DEF Message
  <2> QED BY <2>1, <2>2, <2>3, <2>4 DEF StartInv, WorldUp, UnitsUp
<1>12. UnitsUp'
  BY <1>1, <1>7, <1>8, <1>10, <1>11 DEF UnitsUp, StartInv, WorldUp
<1>13. SliceOnce'
  <2>1. ASSUME NEW n \in Names, Unused(n), ~IsStart(call, n) PROVE Unused(n)'
    BY <1>1, <1>10, <2>1 DEF Unused, IsStart
  <2>2. ASSUME NEW n \in Names, n \notin live' PROVE Unused(n)'
    <3>1. Unused(n) /\ ~IsStart(call, n)
      BY <1>1, <1>8, <2>2 DEF StartInv, WorldUp, SliceOnce, IsStart
    <3> QED BY <2>1, <3>1
  <2>3. ASSUME NEW n \in Names, NEW i \in DOMAIN calls', IsStart(calls'[i], n) PROVE Unused(n)'
    <3>1. i + 1 \in DOMAIN calls /\ IsStart(calls[i + 1], n) /\ i + 1 # 1
      BY <1>7, <2>3
    <3>2. Unused(n) /\ ~IsStart(call, n)
      BY <1>7, <3>1 DEF StartInv, WorldUp, SliceOnce
    <3> QED BY <2>1, <3>2
  <2>4. ASSUME NEW n \in Names, NEW i \in DOMAIN calls', NEW j \in DOMAIN calls',
               IsStart(calls'[i], n), IsStart(calls'[j], n)
        PROVE  i = j
    <3>1. i + 1 \in DOMAIN calls /\ IsStart(calls[i + 1], n) /\ j + 1 \in DOMAIN calls
          /\ IsStart(calls[j + 1], n) /\ i \in Nat /\ j \in Nat
      BY <1>7, <2>4
    <3>2. i + 1 = j + 1
      BY <3>1 DEF StartInv, WorldUp, SliceOnce
    <3> QED BY <3>1, <3>2
  <2> QED BY <2>2, <2>3, <2>4 DEF SliceOnce, IsStart
<1> QED BY <1>1, <1>3, <1>4, <1>5, <1>12, <1>13 DEF StartInv, WorldUp, NoStops, FramesMove

(* A job is done. *)
LEMMA FinishStart ==
    ASSUME CInv, WorldOK, StartInv, OnlyStarts, SlicesDistinct, SlicesFlat,
           NEW job \in jobs, SystemdFinishes(job)
    PROVE  StartInv'
<1>1. /\ UNCHANGED <<op, target, chain, live, ns, eanswers, calls>> /\ jobs' = jobs \ {job}
  BY DEF SystemdFinishes, daemonVars
<1>2. job.what \in {"slice", "scope"} /\ job.ent \in live /\ job \in UnitCalls /\ job.ent \in Names
  BY DEF WorldOK, UnitCalls, StartInv, WorldUp, UnitsUp
<1>3. inbox' = Append(inbox, Message("removed", job, TRUE)) /\ JobEffect(job)
  <2>1. Outcomes("job" \in Faults) = {TRUE}
    BY DEF Outcomes, OnlyStarts
  <2> QED BY <2>1 DEF SystemdFinishes
<1>4. proc' = proc /\ ecalls' = ecalls
  BY <1>2, <1>3 DEF JobEffect, WorldOK
<1>5. job.what = "slice" => unit' = unit \cup {Slice[job.ent]}
  <2>1. {t \in Slices : Slice[job.ent] \in Inside[t]} = {}
    BY DEF SlicesFlat
  <2> QED BY <1>3, <2>1 DEF JobEffect
<1>6. job.what = "scope" => unit' = unit \cup {Scope(job.ent)}
  BY <1>3 DEF JobEffect
<1>7. UpKept
  BY <1>1, <1>4, UpStays
<1>8. FramesMove
  BY <1>1, <1>7, FramesSame DEF StartInv
<1>9. LiveOK'
  BY <1>1, <1>4, <1>7, <1>8, LiveStays DEF StartInv, WorldUp, WorldOK
<1>10. BusUp'
  <2>1. \A m \in Names : UplinkUp(m) => UplinkUp(m)'
    BY <1>7, UplinkKept
  <2> QED BY <1>1, <1>4, <2>1 DEF StartInv, WorldUp, BusUp
<1>11. ASSUME NEW i \in DOMAIN inbox' PROVE inbox'[i].ok
  <2>1. PICK m \in Messages : m = Message("removed", job, TRUE) /\ m.ok
    <3>1. Message("removed", job, TRUE) \in Messages /\ Message("removed", job, TRUE).ok
      BY <1>2 DEF Message, Messages
    <3> QED BY <3>1
  <2>2. PICK e \in Nat : e = Len(inbox) /\ DOMAIN inbox = 1..e /\ inbox \in Seq(Messages)
    BY DEF WorldOK
  <2>3. /\ DOMAIN Append(inbox, m) = 1..(e + 1) /\ Append(inbox, m)[e + 1] = m
        /\ \A j \in 1..e : Append(inbox, m)[j] = inbox[j]
    BY <2>2, AppendFacts
  <2>4. i \in 1..e \/ i = e + 1
    BY <1>3, <1>11, <2>1, <2>3
  <2> QED BY <1>3, <2>1, <2>2, <2>3, <2>4 DEF StartInv, WorldUp, UnitsUp
<1>12. UnitsUp'
  BY <1>1, <1>11 DEF UnitsUp, StartInv, WorldUp
<1>13. ASSUME NEW n \in Names, Unused(n), job.what = "slice" => job.ent # n PROVE Unused(n)'
  <2>1. \A j \in jobs' : ~IsStart(j, n)
    BY <1>1, <1>13 DEF Unused
  <2>2. Slice[n] \notin unit'
    <3>1. Slice[n] # Scope(job.ent)
      BY <1>2, LifecycleAssumption DEF Scope, Slices
    <3>2. job.what = "slice" => Slice[n] # Slice[job.ent]
      BY <1>2, <1>13 DEF SlicesDistinct
    <3> QED BY <1>2, <1>5, <1>6, <1>13, <3>1, <3>2 DEF Unused
  <2> QED BY <2>1, <2>2 DEF Unused, IsStart
<1>14. \A n \in Names : n \notin live => Unused(n)'
  BY <1>2, <1>13 DEF StartInv, WorldUp, SliceOnce
<1>15. ASSUME NEW n \in Names, NEW i \in DOMAIN calls, IsStart(calls[i], n) PROVE Unused(n)'
  <2>1. Unused(n)
    BY <1>15 DEF StartInv, WorldUp, SliceOnce
  <2>2. job.what = "slice" => job.ent # n
    BY <2>1 DEF Unused, IsStart
  <2> QED BY <1>13, <2>1, <2>2
<1>16. SliceOnce'
  BY <1>1, <1>14, <1>15 DEF StartInv, WorldUp, SliceOnce, IsStart
<1> QED BY <1>1, <1>8, <1>9, <1>10, <1>12, <1>16 DEF StartInv, WorldUp, NoStops, FramesMove

(* An entityd does what it is asked for: its uplink is up. *)
LEMMA EntitydStart ==
    ASSUME CInv, WorldOK, StartInv, OnlyStarts, NEW n \in Names, EntitydStep(n) \/ EntitydDies(n)
    PROVE  StartInv'
<1>1. ecalls[n] # <<>> => /\ 1 \in DOMAIN ecalls[n] /\ Head(ecalls[n]) = ecalls[n][1]
                          /\ Head(ecalls[n]) \in Calls
                          /\ \A i \in DOMAIN Tail(ecalls[n]) :
                                i + 1 \in DOMAIN ecalls[n] /\ Tail(ecalls[n])[i] = ecalls[n][i + 1]
  BY DEF WorldOK
<1>2. ecalls[n] # <<>> => Head(ecalls[n]).what = "component" /\ UplinkUp(n)
  BY <1>1 DEF StartInv, WorldUp, BusUp
<1>3. ~EntitydDies(n) /\ ~EntitydShutsDown(n)
  BY <1>2 DEF EntitydDies, EntitydShutsDown, Handles, OnlyStarts
<1>4. ~EntitydAborts(n)
  BY <1>2, LifecycleAssumption DEF EntitydAborts, Handles, OnlyStarts, UplinkUp, Up
<1>5. EntitydAdds(n)
  BY <1>3, <1>4 DEF EntitydStep
<1>6. /\ ecalls[n] # <<>> /\ ns' = [ns EXCEPT ![n] = "up"]
      /\ ecalls' = [ecalls EXCEPT ![n] = Tail(@)]
      /\ eanswers' = [eanswers EXCEPT ![n] = Append(@, Head(ecalls[n]))]
      /\ UNCHANGED <<op, target, chain, live, proc, calls, jobs, unit, inbox>>
  BY <1>5 DEF EntitydAdds, Handles, daemonVars, systemdVars
<1>7. ns'[n] = "up" /\ \A m \in Names : m # n => ns'[m] = ns[m]
  BY <1>6 DEF WorldOK
<1>8. UpKept
  BY <1>6, <1>7 DEF UpKept, Up
<1>9. FramesMove
  BY <1>6, <1>8, FramesSame DEF StartInv
<1>10. LiveOK' /\ UnitsUp' /\ SliceOnce'
  BY <1>6, <1>8, <1>9, LiveStays, UnitsStay DEF StartInv, WorldUp, WorldOK, Shrinks
<1>11. BusUp'
  <2>1. PICK c \in Calls : c = Head(ecalls[n]) /\ c.what = "component"
    BY <1>1, <1>2, <1>6
  <2>2. /\ ecalls'[n] = Tail(ecalls[n]) /\ eanswers'[n] = Append(eanswers[n], c)
        /\ \A m \in Names : m # n => ecalls'[m] = ecalls[m] /\ eanswers'[m] = eanswers[m]
    BY <1>6, <2>1 DEF WorldOK
  <2>3. PICK l \in Nat : l = Len(eanswers[n]) /\ DOMAIN eanswers[n] = 1..l /\ eanswers[n] \in Seq(Calls)
    BY DEF WorldOK
  <2>4. /\ DOMAIN Append(eanswers[n], c) = 1..(l + 1) /\ Append(eanswers[n], c)[l + 1] = c
        /\ \A j \in 1..l : Append(eanswers[n], c)[j] = eanswers[n][j]
    BY <2>3, AppendFacts
  <2>5. ASSUME NEW i \in DOMAIN eanswers'[n] PROVE eanswers'[n][i].what = "component"
    <3>1. i \in 1..l \/ i = l + 1
      BY <2>2, <2>4, <2>5
    <3> QED BY <2>1, <2>2, <2>3, <2>4, <3>1 DEF StartInv, WorldUp, BusUp
  <2>6. \A i \in DOMAIN ecalls'[n] : ecalls'[n][i].what = "component"
    BY <1>1, <1>6, <2>2 DEF StartInv, WorldUp, BusUp
  <2>7. \A m \in Names : UplinkUp(m) => UplinkUp(m)'
    BY <1>8, UplinkKept
  <2> QED BY <1>2, <1>6, <1>7, <2>2, <2>5, <2>6, <2>7 DEF StartInv, WorldUp, BusUp
<1> QED BY <1>6, <1>9, <1>10, <1>11 DEF StartInv, WorldUp, NoStops, FramesMove

-----------------------------------------------------------------------------
(* Every step keeps the invariant of the Starts. *)
LEMMA NextStart ==
    ASSUME CInv, WorldOK, BusOK, StartInv, OnlyStarts, SlicesDistinct, SlicesFlat, Next
    PROVE  StartInv'
<1>1. CASE \E s \in Requests, o \in Ops, n \in Names : Request(s, o, n)
  BY <1>1, RequestStart
<1>2. ~ \E n \in Names \cup {None} : Commit(n)
  BY DEF Commit, OnlyStarts, WorldOK
<1>3. CASE Executes
  BY <1>3, DropStart, RunStart DEF Executes
<1>4. CASE SystemBusStep
  BY <1>4, ReplyStart, SignalStart DEF SystemBusStep
<1>5. CASE \E n \in Names : EntityBusStep(n)
  BY <1>5, EntityBusStart
<1>6. ~ \E r \in Requests : EntitydCallTimesOut(r) \/ SystemdCallTimesOut(r)
  BY DEF EntitydCallTimesOut, SystemdCallTimesOut, OnlyStarts
<1>7. CASE SystemdStep
  BY <1>7, HandleStart, FinishStart DEF SystemdStep
<1>8. CASE \E n \in Names : EntitydStep(n) \/ EntitydDies(n)
  BY <1>8, EntitydStart
<1>9. ~DaemonRestarts
  BY DEF DaemonRestarts, OnlyStarts
<1> QED BY <1>1, <1>2, <1>3, <1>4, <1>5, <1>6, <1>7, <1>8, <1>9 DEF Next

(* In the beginning nothing is live. *)
LEMMA InitStart ==
    ASSUME Init
    PROVE  StartInv
<1>1. NoStops /\ FramesOK
  BY DEF Init, NoStops, FramesOK, StartFrames, Gone
<1>2. LiveOK /\ UnitsUp /\ SliceOnce
  BY DEF Init, LiveOK, UnitsUp, SliceOnce, Unused
<1>3. BusUp
  BY DEF Init, BusUp
<1> QED BY <1>1, <1>2, <1>3 DEF StartInv, WorldUp

(* Nothing happens. *)
LEMMA StutterStart ==
    ASSUME CInv, WorldOK, StartInv, UNCHANGED vars
    PROVE  StartInv'
<1>1. UNCHANGED <<op, target, chain>> /\ UNCHANGED worldVars
  BY DEF vars, daemonVars
<1>2. UpKept /\ live' = live
  BY <1>1, UpStays DEF worldVars, entitydVars
<1>3. FramesMove
  BY <1>1, <1>2, FramesSame DEF StartInv
<1> QED BY <1>1, <1>3, QuietStart

(* The invariant holds. *)
LEMMA StartInvariant ==
    ASSUME OnlyStarts, SlicesDistinct, SlicesFlat
    PROVE  Spec => [](CInv /\ WorldOK /\ WInv /\ StartInv)
<1> DEFINE Inv == WInv /\ StartInv
<1>1. Init => Inv
  BY InitWInv, InitStart
<1>2. ASSUME CInv, WorldOK, Inv, [Next]_vars PROVE Inv'
  <2>1. CASE Next
    BY <1>2, <2>1, NextWInv, NextStart DEF WInv
  <2>2. CASE UNCHANGED vars
    <3>1. UNCHANGED wakeVars /\ UNCHANGED stack
      BY <2>2 DEF vars, daemonVars, queueVars, worldVars, entitydVars, systemdVars, wakeVars
    <3> QED BY <1>2, <2>2, <3>1, StutterWInv, StutterStart
  <2> QED BY <1>2, <2>1, <2>2
<1>3. Spec => [](CInv /\ WorldOK)
  BY Invariant
<1>4. Inv => WInv /\ StartInv
  OBVIOUS
<1> HIDE DEF Inv
<1> QED BY <1>1, <1>2, <1>3, <1>4, PTL DEF Spec

(***************************************************************************)
(* An entityd is told to add a network component only while its uplink is  *)
(* up: entity::start awaits the start() of the uplink, which answers at    *)
(* once only when it has the token and the uplink is up already. This      *)
(* takes that clients neither stop entities nor commit transactions, and   *)
(* that nothing fails but a fork() or a handshake: other faults leave an   *)
(* entity that is half started in _live_entities, where the next start()   *)
(* takes it for one that is up.                                            *)
(***************************************************************************)
THEOREM LifecycleUplinkFirst ==
    ASSUME OnlyStarts, SlicesDistinct, SlicesFlat PROVE Spec => []UplinkFirst
<1>1. StartInv => UplinkFirst
  BY DEF StartInv, WorldUp, BusUp, UplinkFirst, UplinkUp
<1>2. Spec => []StartInv
  BY StartInvariant, PTL
<1> QED BY <1>1, <1>2, PTL

(* What the invariant says about a Start that succeeds. *)
LEMMA StartSucceeds ==
    ASSUME CInv, WorldOK, WInv, StartInv, OnlyStarts, Next, NEW r \in Requests,
           reply[r] = "pending", reply'[r] = "ok"
    PROVE  Up(target[r])
<1>1. Succeeds(r) /\ reply' # reply
  BY SuccessSteps
<1>2. ~Gone(r) => target[r] = Ent(r)
  BY <1>1 DEF Succeeds, StartInv, FramesOK, StartFrames, Ent, Frame
<1>3. CASE StartAlreadyLive(r)
  <2>1. ~Gone(r) /\ Pc(r) = "entered" /\ Ent(r) \in live
    BY <1>3, OnTopFacts DEF StartAlreadyLive, Ent
  <2> QED BY <1>2, <2>1, LiveIsUp DEF StartInv, WorldUp
<1>4. CASE Components(r)
  <2>1. ~Gone(r) /\ Pc(r) = "components"
    BY <1>4, OnTopFacts DEF Components
  <2>2. Ent(r) \in live /\ proc[Ent(r)] = "running"
    BY <2>1 DEF StartInv, FramesOK, StartFrames, StartPcs, WorldUp, LiveOK
  <2>3. SelfReads(Frame(r)) = {"self"}
    BY <2>1, SelfThere
  <2>4. Ent(r) \notin Networked
    BY <1>1, <1>4, <2>3 DEF Components, Ent
  <2> QED BY <1>2, <2>1, <2>2, <2>4 DEF Up
<1>5. ASSUME NEW n \in Names, DeliverComponent(n), Awaits(r, "component"), r = Head(eanswers[n]).req
      PROVE  Up(target[r])
  <2>1. ~Gone(r) /\ Pc(r) = "component" /\ eanswers[n] # <<>>
    BY <1>5 DEF Awaits, Gone, Pc, DeliverComponent
  <2>2. Head(eanswers[n]) = eanswers[n][1] /\ 1 \in DOMAIN eanswers[n]
    BY <2>1 DEF WorldOK
  <2>3. Ent(r) = n
    BY <1>5, <2>1, <2>2 DEF WInv, BusOK, ExpectedOn, Expected
  <2>4. Up(n)
    BY <2>1, <2>3 DEF Up, StartInv, FramesOK, StartFrames, StartPcs, WorldUp, LiveOK, BusUp
  <2> QED BY <1>2, <2>1, <2>3, <2>4
<1>6. ~Awaits(r, "stopJob")
  BY DEF Awaits, StartInv, FramesOK, StartFrames, StartPcs, Gone, Pc
<1> QED BY <1>1, <1>3, <1>4, <1>5, <1>6 DEF Succeeds

(***************************************************************************)
(* When controller::start answers with success, the entity is up: its      *)
(* entityd runs and has set up its namespace, also when start() found it   *)
(* in _live_entities and answered at once, or found another start() of it  *)
(* at work and waited for the token. The hypotheses are those of the       *)
(* theorem before.                                                         *)
(***************************************************************************)
THEOREM LifecycleStartOkMeansUp ==
    ASSUME OnlyStarts, SlicesDistinct, SlicesFlat PROVE Spec => StartOkMeansUp
<1> DEFINE Inv == CInv /\ WorldOK /\ WInv /\ StartInv
<1> DEFINE OkUp == \A r \in Requests :
                      (op[r] = "start" /\ reply[r] = "pending" /\ reply'[r] = "ok") => Up(target[r])
<1>1. ASSUME Inv, [Next]_vars PROVE [OkUp]_vars
  <2>1. CASE Next
    BY <1>1, <2>1, StartSucceeds
  <2>2. CASE UNCHANGED vars
    BY <2>2
  <2> QED BY <1>1, <2>1, <2>2
<1>2. Spec => []Inv
  BY StartInvariant
<1>3. StartOkMeansUp <=> [][OkUp]_vars
  BY DEF StartOkMeansUp
<1> HIDE DEF Inv, OkUp
<1> QED BY <1>1, <1>2, <1>3, PTL DEF Spec

=============================================================================
