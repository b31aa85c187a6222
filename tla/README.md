# A TLA+ model of nonsense

Nonsense manages named *entities* on a Linux host, at present network
namespaces: roots, switches, routers and clients that hang below an *uplink*.
This directory models the daemon `nonsensed`, its child processes
`nonsense-entityd`, the client `nonsensectl`, and what they rely on of systemd,
sd-bus and the kernel. TLC checks the models on small
instances, TLAPS proves the most important properties for every instance.
`PROJECT.json` lists components, runs, mutants, hazards, findings and theorems,
and maps every definition to the lines it was translated from.

    tlc -workers 2 -config Lifecycle.cfg MCEntityLifecycle     # a run
    tlapm EntityQueueProofs.tla                                # the proofs of a module

## 1. The system

`nonsensed` is single threaded. `service::loop` polls one D-Bus connection to
the system bus and one per live entity, and dispatches a message at a time.
Method handlers are C++20 coroutines: they run until they await something (a
reply, a signal, a turn in a queue), and whatever resumes them runs them nested
inside its own call.

| component | source | state | operations | interacts with |
|---|---|---|---|---|
| entity queue | `daemon/entity.cpp` 35-102 | per entity name a flag and a list of suspended handles | `enqueue()`, `~queue_token` | start and stop coroutines |
| controller, entity | `daemon/controller.cpp`, `daemon/entity.cpp` 104-389 | `_live_entities`: name to pid and bus | `Start`, `Stop` | systemd, entityd, the queue, the running configuration |
| promise, calls, signals | `daemon/async.h` | coroutine frames, pending calls, callbacks | `co_return`, `co_yield`, `co_await`, call, subscribe, match | everything above |
| configuration | `daemon/config.cpp` | a json tree | load, copy, assign, `add`, validate, `try_get` | transactions, entities (which keep references into it) |
| transactions | `daemon/transactions.cpp`, `daemon/transaction.cpp` | open transactions: owner and operations | `New`, `Add`, `Commit`, `Discard` | the running configuration |
| service loop | `daemon/service.cpp` | the epoll set | register, unregister, dispatch | all buses |
| entityd | `entityd/main.cpp`, `entityd/cleanup.h` | namespace, links, addresses, routes, two lists of cleanups | `AddComponent`, `Shutdown` | the uplink's namespace |
| nonsensectl | `control/main.cpp` | none but the token a script keeps | one blocking call per command | the daemon, through transactions and the controller |

What is hard here is what happens *between* two awaits: another Start, Stop or
Commit, an entityd that dies, a signal that comes early, a call that times out
and is answered after all. On top of that, errors travel by destroying
coroutine frames, and destroying a frame may resume another coroutine. No test
of the repository runs two requests at once; the unit test covers the queue
with two tasks. The hazards are listed, by line, in `PROJECT.json`.

What makes each component correct:

* queue: one token per entity, first come first served, nobody forgotten;
* lifecycle: a successful answer means what it says, no entityd is forgotten,
  uplinks come up first, every call is answered, no request takes the daemon
  down;
* configuration: the running tree stays valid, the default namespace has one
  owner, uplinks form no loop;
* transactions: a commit is all or nothing;
* loop and subscriptions: no freed bus or callback is used;
* entityd: what was created is undone, whatever stopped, failed or was started
  again in between, and routes lead wherever they should;
* nonsensectl: an exit status means what it says, and no command is forgotten.

## 2. The modules

| module | models |
|---|---|
| `EntityLock` | what the queue promises: an abstract lock per entity |
| `EntityQueue` | the flag and the list of handles; refines `EntityLock` |
| `EntityQueueProofs` | proofs about the queue |
| `EntityLifecycle` | controller, entities, promise, and systemd and entityd as seen from the daemon; refines `EntityQueue` |
| `EntityLifecycleProofs` | proofs about the coroutines: tokens, types, entityds |
| `LifecycleMessageProofs` | proofs about what the coroutines wait for |
| `LifecycleAnswerProofs` | proofs about what the answers to Start and Stop mean |
| `SignalMatch` | what `co_await subscription.match(key)` promises |
| `SignalSubscription` | the callback vectors and their dispatcher; refines `SignalMatch` |
| `SignalSubscriptionProofs` | proofs about the dispatcher |
| `Service` | the epoll loop and the life of the buses it serves |
| `ServiceProofs` | proofs about the loop |
| `Netns` | network namespaces, links, addresses and routes: the kernel and `ip` (external) |
| `Entityd` | the entityd processes, command by command, on top of `Netns` |
| `EntitydProofs` | proofs about the entityd processes |
| `Config` | json trees, `config::add` and validation, as operators |
| `Transactions` | transactions, the saved and the running configuration |
| `Nonsensectl` | users who run `nonsensectl`, composed with `Transactions` |
| `NonsensectlProofs` | proofs about the running configuration, and about the commands |
| `MC...` | the instances TLC checks |

Definitions marked `Mutant` are plausible mistakes. Each is substituted for the
definition it stands next to, to show that a property can fail; no
specification uses them.

### EntityQueue

`held[n]` and `queue[n]` are the members of `queue_state`; `tokens[n]` is the
set of frames with a live `queue_token`. `co_await enqueue()` is one step,
since `await_ready`, `await_suspend` and `await_resume` do not give the thread
away, and so is `~queue_token` up to the point where the resumed waiter has set
the flag again.

### EntityLifecycle

`chain[r]` holds the entity coroutines of request `r`: the frame of the entity
asked for, then those of the uplinks it waits for. `stack` is the call stack of
the daemon, and messages are dispatched only when it is empty. With it the
model has the order of `async.h`: `co_return unit` resumes the awaiting frame
*before* the returning frame's token is given back (`Return`), while an error
replies first and then destroys the frames from the outside in (`Unwind`),
each of which may resume a waiter in the middle of the unwinding
(`DropToken`).

`entity::start` is split at its awaits: enqueue, the uplink's start, the slice
(call and job), the scope (call and job), the components. `entity::stop`:
enqueue, Shutdown, StopUnit, its job. `Faults` selects what the environment
does wrong: fork, sd_bus_new, bus set-up or handshake failing, calls refused,
jobs failing, entityds dying or failing a component, calls timing out (their
answers may still come). `tree` is the generation of the json tree; a frame
remembers the one its `_self` refers into, and reading `_self` of an older
generation is undefined: the old contents, an object without components, or a
crash, also when an AddComponent has been answered and the loop over the
components goes on (`DanglingAdvance`).

systemd is external. The model has what start and stop rely on: calls of one
connection are handled in order; the reply naming a job precedes that job's
JobRemoved; a slice that was created or has a job cannot be created again, while
one that is active may only have been started along with a slice inside it, and
then it can; a stop job cancels a start job; two stop jobs of a slice become one.
`Slice` and
`Inside` say which slice an entity's name gives and which slices lie inside it
(systemd takes a dash in a slice's name for nesting; two names that differ only
in dots and dashes have the same slice): a slice is started with
the ones around it, and stopping it stops the ones inside it first and kills
the processes in their scopes. An entityd answers calls in order, aborts if its
uplink's namespace is missing (`add_network` asserts in its handler), and exits after
Shutdown. A JobRemoved signal resumes one coroutine, as `SignalMatch` says:
start matches the job of its own call, stop any job of its slice.

With the fault `crash` the daemon may be killed at any point and started again
by the next call (`DaemonRestarts`): it knows nothing, units and jobs are still
there, waiting clients have an error. The entityds' reaction to the closed
connection is taken as done here; `Entityd` has it step by step.

### SignalSubscription

A coroutine that runs may create its subscription, call `match` on it (which
may reallocate the vector) or end (which destroys it). sd-bus offers a signal
to one subscription after another; the dispatcher's loop is one action per
statement: skip a cleared entry, swap an entry out, call it, swap it back. A
callback that matches resumes its coroutine, and from then until it returns any
running coroutine may act (`phase = "resumed"`). `stale` records whether the
iterators have become invalid, `turn` which awaitable a callback points to. A
signal is the set of its keys, job and unit, since start matches by job and
stop by unit.

### Service

`current` is the loop's bus pointer. A handler may create and register a bus
(`HandlesStart`), unregister and give up the very bus being dispatched
(`HandlesShutdown`), or drop the last reference to one (`HandlesStopped`):
`life` says who still refers to a bus. Creating a subscription makes a blocking
call on the system bus, which moves messages from the socket to the read queue
without dispatching them (`Subscribes`).

### Netns and Entityd

A process `<<n, k>>` is the k-th entityd of entity n. `add_network(n)` is the
list of commands the code executes for the role of n, `Undo` the cleanup
registered after each. A process executes its list one command at a time,
interleaved with the others; `Possible` is whether the command succeeds, in the
namespace it runs in, and `Effect` what it does. A failing command aborts the
process and nothing is undone; Shutdown, or a closed connection, runs the
cleanups from the end and ignores failures. A namespace goes away, with its
links and their other ends, some time after its last process and mount
(`KernelReaps`). An entityd is started once the uplink has been seen up; that the
uplink's process has aborted since does not keep the daemon from it (`Spawn`).

The fault `command` makes the commands of a set-up fail of themselves; a cleanup
fails only because what it is to remove is gone. An entityd that is killed from
outside is not in this module (`EntityLifecycle` has it), nor is the start of an
entity below an uplink whose own start has failed before its component was added
(section 3, first item of the list).

`nth_address_in_subnet` is abstracted to the pair of subnet and number; masks
other than /24 (an assertion in the code) and `external_name` (read, and not
used, by the code) are left out. Only roots are in the default or an external
namespace. The length of link names is not modelled.

### Nonsensectl

`Invoke` is a command up to its call: usage errors, or a bus that cannot be
reached, end it with 1; otherwise the call is queued at the daemon, which
serves calls in order with the actions of `Transactions` (`Serve`,
`ServeCommit`). The operators named after the handlers say what each call comes
to: `add` puts the text of its token into an object path, so only the printed
form with its leading zeros names a transaction, while `commit` and `discard`
read a number; `get`, `lock`, `unlock` and `add` without a token reach no
method. A client may give up while its call is still queued (`TimesOut`). If its
connection is closed by the time the daemon reads the call, the query for the
sender's uid fails, and the assertion after it aborts the daemon
(`ServeSenderGone`); otherwise the call is executed like any other.
`start` and `stop` are taken into `acting` and the daemon goes on to the next
call, as their coroutines suspend; `ActionEnds` is all that can come of one as
far as a client can tell: an answer, the end of the daemon, or, for a start, no
answer at all. What the coroutines do is `EntityLifecycle`'s.
`acked` and `promised` are history variables: what had been acknowledged when a
commit was run. Identifiers are never reused in this module, which 64 random
bits justify. `help` and `version` only print; `lock`, `start` and `stop`
without a name read past an empty vector and are left out.

### Config and Transactions

A json value is a function from the paths inside it to nodes; a configuration
maps top-level keys to json values, with `"!metadata"` and `":default-netns"`
among them. `AddParameter` is the descent along a dotted name in `config::add`,
with the three outcomes it has: done, refused, or an exception out of a
`noexcept` function. `EntityValid` and `NetworkValid` are the validation;
`Claim` is what validation writes into the tree. A commit takes one step per
operation on its copy; nothing else runs meanwhile, because the handler never
suspends. A null under `":default-netns"` in the file counts as no claim and is
overwritten by the first entity that makes one (`Unclaimed`). A sender whose
credentials cannot be had aborts the daemon in every method that asks for them
(`SenderGone`).

Not in these modules: json arrays, the copy `":role"` of `"role"`, texts of
error messages, the identifiers' random numbers (a fresh one is chosen).

## 3. The runs

| run | instance | shows |
|---|---|---|
| `entity_queue` | 2 entities, 4 frames | mutual exclusion, first come first served, refinement of the lock, every waiter served |
| `lifecycle` | switch below uplink, 3 requests, 1 commit, calls and jobs may fail | every call answered, no entityd forgotten, the queue is used as `EntityQueue` says |
| `lifecycle_faults` | 3 requests on entities whose slices are nested; deaths, timeouts, failing jobs, failures while starting, the daemon killed and restarted | no wake-up lost, a successful Stop means down |
| `lifecycle_starts` | a chain of 3 entities, 3 Starts, `fork` and the handshake may fail | uplinks first, success means up |
| `transactions` | any 2 of 15 parameter lists, 3 names, 6 files | the running tree stays valid and free of loops, the claim has its owner, all or nothing |
| `entityd_faults` | a root, two switches, a client; any command of a set-up may fail, the daemon may die | who has exited leaves nothing behind, routes from above, everything goes away without the daemon |
| `entityd_restarts` | a root and two switches, 2 starts each, any order of stops | nothing left behind, routes from above, and no set-up fails because of what was there before |
| `signal_subscription` | 2 coroutines, 2 matches each, 3 signals with 2 keys | no access to a vector that is gone, callbacks are one shot, none forgotten, refinement of `SignalMatch`, the dispatch ends |
| `service_loop` | the system bus and the buses of two entities, one other message | no freed bus is used, every message is dispatched |
| `nonsensectl` | 2 users, 1 token, 4 commands out of 11, timeouts | a commit that exits with 0 has applied what was acknowledged; no command but `start` is forgotten |

Two runs end in a violation; each is a finding, described with its source lines
in `PROJECT.json`:

| run | what happens |
|---|---|
| `stop_of_dead_entityd` | Shutdown on the closed bus of a dead entityd aborts the daemon; three ordinary requests suffice |
| `commit_during_start` | `_self` is read after a commit has replaced its tree |

The passing runs avoid a number of other causes on purpose. Each is code that
the models have, and changing a constant shows its effect:

* `StartOkMeansUp` is checked without Stops, and with no faults but `fork` and
  `handshake`. With others, a Start that fails leaves its entity in `_live_entities` (`entity.cpp` 168), and
  the next Start answers success although nothing runs.
* `Answered` is checked without the fault `fork`, whose positive errno is taken
  for an answer already sent (`entity.cpp` 136, `async.h` 219), and without an
  entity that is its own uplink, which `_validate_network` accepts
  (`config.cpp` 384) and whose Start waits for itself.
* For the same reasons `AnswerOnItsWay` says nothing of `start`, whose client may
  be left waiting while the daemon lives. Of a `stop` it says that the daemon has
  its call, its coroutine or its answer, not that the coroutine ends: that is
  `Answered`.
* `NoOrphan` is checked without `alloc` (`sd_bus_new` failing after the fork).
* In `lifecycle_faults` an entityd may be killed because its slice lies inside
  one that is stopped: systemd takes the dash in `net-guest` for nesting. After
  a restart of the daemon Stop answers "not running" for slices of its
  predecessor. No property excludes either.
* In every run entities have slices of their own. If two share one (`a.b` and
  `a-b`, with `Slice` not injective) and both are being stopped, systemd merges
  the two stop jobs, and the callback that takes the one JobRemoved signal ends
  its dispatch (`async.h` 551): the other Stop is never answered, and
  `NoLostWakeup` fails.
* A value in the way of the last step of a parameter name makes nlohmann::json
  throw out of a `noexcept` function (`config.cpp` 164); `transactions` and
  `nonsensectl` have the step and go on to check what remains true.
* `entityd_faults` and `entityd_restarts` have a root with a namespace of its
  own. A root in the host's namespace (`Space[root] = "default"`) that is
  stopped before a switch two levels below it leaves the route to that switch
  behind.
* `RoutesComplete` is checked with failing commands where nothing is started
  twice, and with restarts where no command fails. With both it fails, at the
  third start of a switch: a second entityd of switch `sw` aborts after its link
  was set up, a process below `sw` that is still connecting enters its route to
  the namespace above over that left-over link (`entityd/main.cpp` 155), and when
  the namespace goes away so does the route; nothing enters it again once
  `sw`'s third entityd is connected to the root's next one.
* Their clients hang below a switch. One below a root passes validation
  and cannot be set up (`AddSucceeds` fails). Two clients of a switch get the
  same address (`entityd/main.cpp` 189).
* `add` without a token is an error in `Nonsensectl`, as the running
  configuration has no method `Add`; the help of `-t` says it is applied.

**Bounds.** Three requests are enough for a Start to wait for its uplink while
that uplink is stopped and started again, and for a queue with two waiters; an
uplink chain of three has a middle entity that both waits and is waited for.
Two operations are the least for a later one to depend on, or to fail after, an
earlier one; two users race on a transaction in `nonsensectl`, and the proofs
cover any number of transactions. `MaxOps`, `MaxCommits`, `MaxStarts` and `MaxCommands` bound
what would otherwise grow without end. Requests are made once each, so the runs
come to rest, and `CHECK_DEADLOCK FALSE` says so; that nobody waits for ever is
stated as `Answered`, `NoLostWakeup` and `AnswerOnItsWay` instead. Requests are
interchangeable, and symmetry is used where only safety is checked. Three
levels of entities give a switch that enters a route above its uplink; two
starts are the least for a successor to meet what its predecessor left. Two
subscriptions with two matches each give cleared entries before live ones, and
a signal wanted by both. Four commands are the least for a token, an add, a
commit and one command that interferes.

**Fairness.** `FairSpec` of `EntityLifecycle` asks for weak fairness of: the
running coroutine (the thread is not suspended by anything else); each bus (the
loop registers every bus with EPOLLIN and EPOLLOUT, level triggered, so epoll
reports all of them in turn); systemd handling calls and finishing jobs; each
entityd handling its calls. Requests, commits, faults and timeouts need not
happen. `Service` asks for weak fairness of `sd_bus_process` and strong fairness
of each bus being reported: with one event per `epoll_wait` the kernel goes
round the ready descriptors. `Entityd` asks it of each process going on with
its commands and of the kernel reaping namespaces; starts, stops and the
daemon's death need not happen. The dispatcher of `SignalSubscription` is a
function that goes on until it returns. In `EntityQueue` a frame that has a
token gives it back, which is what `Answered` shows of the lifecycle.

## 4. The proofs

**The queue** (`EntityQueueProofs`), for any sets of entities and frames, from
the sole assumption that `None` is no frame. Mutual exclusion is not inductive:
a clear flag would let a second frame in, so the flag has to be tied to the
token (`FlagMatchesToken`); and a handle queued twice would be resumed while
its frame has the token, so handles must be distinct and disjoint from the
owners (`ResumedOnce`). With the types these make `IInv`. There is one lemma
per action; lemmas about `Append` and `Tail` carry the sequence reasoning.
First come first served and the refinement of `EntityLock` follow from the
invariant by an argument per action.

**The running configuration** (`NonsensectlProofs`, first part), for any names, parameter
lists, users and files, from `0 \in Uids` and `MaxOps \in Nat`. An entity that
was valid must stay valid as the tree grows. Its uplink stays, since
`config::add` alters no key that is there, a null in place of a claim excepted
(`Grows`); but validity also looks at
the claim of the default namespace, so the invariant needs that the claim comes
with its one owner (`ClaimOwned`). And since the copy of a commit becomes the
running tree, the copy must satisfy the same (`CommitOK`), which also says that
the copy is the running tree plus the operations done: hence all or nothing.
The base case is that an accepted file gives such a tree (`FileOK`).

`NoUplinkLoop` follows for files without a loop (hypothesis `FilesLoopFree`,
which nothing in the code checks): a set of entities that all have their uplink
in the set cannot lose that by leaving out the newest one, since the uplink of
an older entity was known when that was added.

**Signal subscriptions** (`SignalSubscriptionProofs`), for any coroutines,
signals and number of matches. `MemorySafe` rests on the dispatcher not
reaching for the vector again once a callback has resumed a coroutine
(`DispatcherOK` says what it knows at each statement); `OneShot` and
`NotForgotten` depend on each other through the entry that is swapped out. For
the refinement of `SignalMatch` a signal may be dropped only because every
subscription that has seen it waits for something else.

**The loop** (`ServiceProofs`), for any number of entities and messages.
`NoFreedBus` needs that a message finds its bus as its handler expects it
(`AllExpected`), and this survives the handling of other messages because none
comes twice (`Once`). A blocking call moves messages from the socket to the
read queue and neither loses nor reorders any.

**nonsensectl** (`NonsensectlProofs`), on top of the invariant of the running
configuration, for any users, tokens and number of commands.
`AnswerOnItsWay` needs serial numbers that tie an answer to the command it
belongs to, since a user who has given up may already run the next one, and that
what the daemon has taken into `acting` is a Start or a Stop (`ActingOK`).
`CommitMeansApplied` needs that an acknowledged add stays recorded until its
transaction is closed, and that the copy of a commit holds the operations done.
Its hypothesis `NoneIsNoCommit` and the assumptions on the constants only keep
the values that stand for "nothing" apart from commands and users.

**The lifecycle** (`EntityLifecycleProofs`), for any finite set of entities,
any requests, uplinks (loops included) and slices. A frame that is being
destroyed still has its token and is to be found on the call stack only, so the
invariant `CInv` ties chains, stack, queues and tokens together: a queued frame
is the last of its chain, a destroyed one lies deeper than what is left of its
chain, and every entity has at most one token. `TypeOK` with its bound on the
depth of a chain, and the refinement of `EntityQueue`, follow; the refinement
needs that the daemon is not killed, since a new one starts with empty queues.
`NoOrphan` needs that `sd_bus_new` does not fail.

**Wake-ups** (`LifecycleMessageProofs`), under every fault of the model, for
entities with slices of their own (`SlicesDistinct`; the list above says what
happens otherwise). The invariant `WInv` has four parts: one call, job or
message for each request, and it is what the request waits for unless that was
given up (`UnitOK`, `BusOK`, `BusWhats`); queue and call stack for those who
wait for a turn (`TurnOK`). The order of messages matters: a successful reply
precedes the end of its job. And tokens matter: a signal matches at most the
request that has the token of its entity, and nobody else replaces an entityd
somebody waits for.

**What a Stop means** (`LifecycleAnswerProofs`), under every fault and next to
any other requests. `stop()` takes the end of *any* job of its slice for the end
of its own, so the invariant `StopInv` is about all of them: a Stop has the token
from its Shutdown to its answer, so that nobody else calls for the slice
(`CallIsLast`); a start job from before is cancelled by its StopUnit call and
signalled before the reply (`ReplyStops`); after the reply there are only stop
jobs, and one that succeeded left the slice inactive (`OnlyStops`). Slices must
be distinct and none inside another (`SlicesFlat`): a slice is started together
with those around it, and TLC shows that a Start of an entity with the inner
slice can make the outer one active again before the Stop is answered. Where the
inner entity hangs below the outer one, as in `lifecycle_faults`, that does not
happen, because its Start waits for the token of the outer one.

**What a Start means** (the same module), where clients only start entities,
nothing is committed, and nothing fails but `fork` and the handshake
(`OnlyStarts`), and slices are distinct and flat. A Start that finds its entity
in `_live_entities` answers at once, so a live entity has to be up, or be the
business of the coroutine that has its token (`LiveOK`). That it gets up depends
on systemd refusing nothing: a slice is called for once, when the entity becomes
live (`SliceOnce`). That its component can be added depends on the uplink, which
was up when the process was spawned (`StartFrames`) and stays up. Every
hypothesis is needed. After a refused call, a failed job, a death or a timeout
the half-started entity stays in `_live_entities`, and the next Start of it, or
of an entity below it, succeeds; a Stop may take the uplink down at any moment; a
Commit frees the tree the component is read from; and of two entities that share
a slice the second is refused.

**entityd** (`EntitydProofs`), for any tree of entities whose uplinks form no
loop (`SwitchesEnd`: `connect()` walks them and would not come to an end). The
types are not inductive, since a command is only well-formed for the entity whose
list it comes from: `Base` says of every process how far it has got in
`add_network` and in its cleanups, and what of its links, addresses and mounts
exists by then. `NoTrace` also needs namespaces of the entities' own and distinct
subnets (`AllOwn`, `SubnetsDistinct`: two switches with one subnet take each
other's routes away). Its invariant `Tidy` says that whatever a process put into
another's namespace is in one that no mount leads to any more, or is still owed:
its removal is among the cleanups registered or being run. That holds under
every fault, because an abort leaves the entity in a state `NoTrace` does not
speak of. `RoutesComplete` needs the converse, that what a working process set up
is still there: `Sound` follows its bridge, its two links, its addresses and the
routes it entered, and says that no two processes of a name work at once. The
route must moreover go over the link of the uplink's *working* process, and here
`Calm` comes in (no command fails of itself, or nothing is started again; what
happens otherwise is in the list of section 3).

`AddSucceeds` says that a set-up fails only if something above the entity has
been taken down. It needs roles that entityd can set up (`Supported`: switches
with an uplink and a subnet, clients below switches) and commands that do not
fail of themselves. For every command `FinePossible` shows that the kernel
accepts it as long as all is well above, from the invariant `Ready`:

* the entities above a started one are all different from it and each other, and
  each of them has a process that is up while none of them has gone (`ChainOK`);
  it is established when the process is started, from that of the uplink, which
  is the only place where the shape of the whole chain is looked at;
* the ends of its pair, their state and their addresses are where it put them, as
  the namespaces above stay mounted (`JoinOK`), so the gateways of the routes
  exist, those of the switches above included;
* what it has not done yet nobody else has done for it (`FreshOK`): no left-over
  address, and no default route;
* a route to its subnet that is still to be deleted was added by an earlier
  command of its own list (`CleanPast`), and the routes of one list go into
  different namespaces.

With `Tidy`, the last two leave nothing that a link, an address or a route of
the next entityd could run into. `AddSucceeds` is itself part of `Ready`: that no
earlier process of the entity has aborted, and left its links, follows from it.

The instances of both runs satisfy these hypotheses, as `ASSUME Supposed` of
`MCEntityd` has TLC check.

**Only model-checked:** liveness (`WaiterServed`, `Answered`, `TornDown`,
`DispatchEnds`, `EveryMessageDispatched`), which is beyond the prover together with
`ENABLED`; and what `BuildEntity`, a recursive function, computes for each parameter
list.

## 5. Not modelled

The command line of the daemon, logging and the wrappers in `dbus.h` and
`function.h` keep no shared state. Unit files, D-Bus policy, tests, build files
and vendored code are not part of the logic. Methods that the comment in
`configuration.cpp` documents but the code does not have (`DiscardAll`, `Diff`,
`Save`, `Lock`) cannot be modelled; the ones that answer `ENOSYS` are action
`Unimplemented`. Nothing is persisted but the configuration file, which the
daemon never writes, so a restart is `DaemonRestarts` and nothing more. Start
and Stop of a top-level key that is no entity, such as `!metadata`, do what they
do with an entity and are not told apart. An entityd is never sent a second component of the same type. The failure of
`epoll_ctl`, of bus set-up in `service::service` and of `mount` end a process at
once and are left out of `Service` and `Entityd`.

## 6. Plan

Done: all components of section 1, and proofs about all of them. Left:

1. The composition of `Transactions` and `EntityLifecycle` over real trees.
