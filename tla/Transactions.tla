---------------------------- MODULE Transactions ----------------------------
(***************************************************************************)
(* The transaction manager and its transactions (src/daemon/              *)
(* transactions.cpp, transaction.cpp), and the saved and the running       *)
(* configuration they work on (configuration.cpp, config.cpp).             *)
(*                                                                         *)
(* No handler suspends, so each one is a single step of the daemon.  The   *)
(* exception in the model is Commit, whose loop over the operations takes  *)
(* one step per operation; while it runs nothing else does.                *)
(***************************************************************************)
EXTENDS Config

CONSTANTS
    Files,       \* configuration files the daemon may be started with
    Ids,         \* transaction identifiers
    Uids,        \* users; 0 is root
    Names,       \* names of entities clients try to add
    Parameters,  \* lists of initial parameters clients give
    MaxOps,      \* bound on the number of operations of a transaction
    None         \* no commit is being executed

ASSUME TransactionsAssumption ==
    /\ 0 \in Uids
    /\ MaxOps \in Nat

VARIABLES
    daemon,      \* "up", or "aborted"
    saved,       \* configuration::_saved_config
    running,     \* configuration::_running_config
    open,        \* transactions::_transactions: id -> owner and operations
    commit,      \* the Commit being executed: id, tree so far, next operation
    answer       \* the answer to the last call

vars == <<daemon, saved, running, open, commit, answer>>

Idle == daemon = "up" /\ commit = None

(* The daemon starts only with a valid file. *)
Init ==
    /\ daemon = "up"
    /\ saved \in {Loaded(file) : file \in {f \in Files : FileValid(f)}}
    /\ running = saved
    /\ open = [id \in {} |-> None]
    /\ commit = None
    /\ answer = "none"

-----------------------------------------------------------------------------
(* transactions::new: a fresh identifier, owned by the caller. *)
New(uid, id) ==
    /\ Idle
    /\ id \notin DOMAIN open
    /\ open' = [i \in DOMAIN open \cup {id} |->
                   IF i = id THEN [owner |-> uid, ops |-> <<>>] ELSE open[i]]
    /\ answer' = "ok"
    /\ UNCHANGED <<daemon, saved, running, commit>>

May(uid, id) == uid = open[id].owner \/ uid = 0

Answers(a) ==
    /\ answer' = a
    /\ UNCHANGED <<daemon, saved, running, open, commit>>

(* transaction::add: the parameters are recorded, not looked at. *)
AddOperation(uid, id, name, parameters) ==
    /\ Idle
    /\ id \in DOMAIN open
    /\ IF ~May(uid, id)
       THEN Answers("AccessDenied")
       ELSE /\ Len(open[id].ops) < MaxOps
            /\ open' = [open EXCEPT ![id].ops =
                           Append(@, [name |-> name, parameters |-> parameters])]
            /\ answer' = "ok"
            /\ UNCHANGED <<daemon, saved, running, commit>>

(* transactions::discard *)
Discard(uid, id) ==
    /\ Idle
    /\ IF id \notin DOMAIN open THEN Answers("InvalidTransactionId")
       ELSE IF ~May(uid, id) THEN Answers("AccessDenied")
       ELSE /\ open' = [i \in DOMAIN open \ {id} |-> open[i]]
            /\ answer' = "ok"
            /\ UNCHANGED <<daemon, saved, running, commit>>

(* The methods that fail with ENOSYS: List, Serialize, Set and Delete. *)
Unimplemented == Idle /\ Answers("failed")

(***************************************************************************)
(* A message that does not parse, or credentials that hold no uid.         *)
(* config::get always ends here: it is declared as "yss" and reads "ss".   *)
(***************************************************************************)
CallFails == Idle /\ Answers("failed")

(***************************************************************************)
(* sd_bus_query_sender_creds fails, as it does for a sender that has left  *)
(* the bus.  new, commit, discard and transaction::add assert that it does *)
(* not, before they have changed anything.                                 *)
(***************************************************************************)
SenderGone ==
    /\ Idle
    /\ daemon' = "aborted"
    /\ answer' = "none"
    /\ UNCHANGED <<saved, running, open, commit>>

-----------------------------------------------------------------------------
(* Mutant: the transaction is erased before its operations are executed. *)
CommitBeginErases(uid, id) ==
    /\ Idle
    /\ id \in DOMAIN open /\ May(uid, id)
    /\ commit' = [id |-> id, copy |-> running, next |-> 1]
    /\ open' = [i \in DOMAIN open \ {id} |-> open[i]]
    /\ UNCHANGED <<daemon, saved, running, answer>>

(* transactions::commit, up to the copy of the running configuration. *)
CommitBegin(uid, id) ==
    /\ Idle
    /\ IF id \notin DOMAIN open THEN Answers("InvalidTransactionId")
       ELSE IF ~May(uid, id) THEN Answers("AccessDenied")
       ELSE /\ commit' = [id |-> id, copy |-> running, next |-> 1]
            /\ UNCHANGED <<daemon, saved, running, open, answer>>

Operations == open[commit.id].ops

(* Mutant: the operations work on the running configuration itself. *)
CommitApplyInPlace ==
    /\ daemon = "up" /\ commit # None
    /\ commit.next <= Len(Operations)
    /\ LET operation == Operations[commit.next]
           result == Add(running, operation.name, operation.parameters)
       IN
       \/ /\ operation.name \notin DOMAIN running
          /\ result.status = "ok"
          /\ running' = result.config
          /\ commit' = [id |-> commit.id, copy |-> result.config, next |-> commit.next + 1]
          /\ UNCHANGED <<daemon, answer>>
       \/ /\ operation.name \in DOMAIN running \/ result.status # "ok"
          /\ commit' = None
          /\ answer' = "InvalidEntityParameters"
          /\ UNCHANGED <<daemon, running>>
    /\ UNCHANGED <<saved, open>>

(***************************************************************************)
(* One operation on the copy.  An error ends the commit and leaves the     *)
(* transaction open; an exception in config::add ends the daemon.          *)
(***************************************************************************)
CommitApply ==
    /\ daemon = "up" /\ commit # None
    /\ commit.next <= Len(Operations)
    /\ LET operation == Operations[commit.next]
           result == Add(commit.copy, operation.name, operation.parameters)
       IN
       \/ /\ operation.name \in DOMAIN commit.copy
          /\ commit' = None
          /\ answer' = "EntityAlreadyExists"
          /\ UNCHANGED daemon
       \/ /\ operation.name \notin DOMAIN commit.copy
          /\ result.status = "ok"
          /\ commit' = [id |-> commit.id, copy |-> result.config, next |-> commit.next + 1]
          /\ UNCHANGED <<daemon, answer>>
       \/ /\ operation.name \notin DOMAIN commit.copy
          /\ result.status = "error"
          /\ commit' = None
          /\ answer' = "InvalidEntityParameters"
          /\ UNCHANGED daemon
       \/ /\ operation.name \notin DOMAIN commit.copy
          /\ result.status = "terminate"
          /\ daemon' = "aborted"
          /\ UNCHANGED <<commit, answer>>
    /\ UNCHANGED <<saved, running, open>>

(* Every operation has succeeded: the copy becomes the configuration. *)
CommitEnd ==
    /\ daemon = "up" /\ commit # None
    /\ commit.next > Len(Operations)
    /\ running' = commit.copy
    /\ open' = [i \in DOMAIN open \ {commit.id} |-> open[i]]
    /\ commit' = None
    /\ answer' = "ok"
    /\ UNCHANGED <<daemon, saved>>

Next ==
    \/ \E uid \in Uids, id \in Ids :
          \/ New(uid, id)
          \/ Discard(uid, id)
          \/ CommitBegin(uid, id)
          \/ \E name \in Names, parameters \in Parameters :
                AddOperation(uid, id, name, parameters)
    \/ Unimplemented
    \/ CallFails
    \/ SenderGone
    \/ CommitApply
    \/ CommitEnd

Spec == Init /\ [][Next]_vars
-----------------------------------------------------------------------------
Answer == {"none", "ok", "failed", "AccessDenied", "InvalidTransactionId",
           "EntityAlreadyExists", "InvalidEntityParameters"}

Operation   == [name : Names, parameters : Parameters]   \* transaction::add
Transaction == [owner : Uids, ops : Seq(Operation)]

(***************************************************************************)
(* The values every variable ranges over.  A commit never outlives the     *)
(* transaction whose operations it iterates over.                          *)
(***************************************************************************)
TypeOK ==
    /\ daemon \in {"up", "aborted"}
    /\ DOMAIN open \subseteq Ids
    /\ \A id \in DOMAIN open :
          open[id] \in Transaction /\ Len(open[id].ops) <= MaxOps
    /\ commit # None => /\ commit.id \in DOMAIN open
                        /\ commit.next \in 1..(Len(Operations) + 1)
    /\ answer \in Answer

(* The entities of a tree; its only string is the claim, and a null has no components. *)
Entities(config) ==
    {k \in DOMAIN config \ {Metadata} : ~IsString(config[k][<<>>]) /\ config[k] # NullValue}

ConfigValid(config) == \A n \in Entities(config) : EntityValid(config, n, config[n])

(***************************************************************************)
(* Every entity of the running configuration is valid in it, whatever was  *)
(* committed after it: its role and parameters are known, and its uplink   *)
(* exists, has a network component and is not a client.  entity::start     *)
(* asserts as much of every uplink it looks up.                            *)
(***************************************************************************)
RunningValid == ConfigValid(running)

Claims(config) == {n \in Entities(config) : HasParameter(config[n], "default")}

Claimed(config) == DefaultNetns \in DOMAIN config /\ IsString(config[DefaultNetns][<<>>])

ClaimOwned(config) ==
    IF Claimed(config)
    THEN \E n \in Claims(config) :
            Claims(config) = {n} /\ config[DefaultNetns][<<>>] = String(n)
    ELSE Claims(config) = {}

(***************************************************************************)
(* ":default-netns" names the one entity with a default parameter: no      *)
(* failed commit leaves a claim behind, no second entity gets in, and an   *)
(* entity that is itself called ":default-netns" is not taken for a claim. *)
(***************************************************************************)
DefaultNetnsOwned == ClaimOwned(running)

LoopFree(config) ==
    \A S \in SUBSET Entities(config) :
        S # {} => \E n \in S :
            HasParameter(config[n], "uplink") => UplinkOf(config[n]) \notin S \ {n}

(***************************************************************************)
(* No entity is, through other entities, its own uplink, provided none was *)
(* in the file: entity::start recurses along uplinks while it holds the    *)
(* token of every entity on the way.  An entity that is directly its own   *)
(* uplink is accepted by _validate_network and left out here.              *)
(***************************************************************************)
NoUplinkLoop == LoopFree(running)

(***************************************************************************)
(* The running configuration changes only by a commit, which adds all the  *)
(* entities of its transaction or none, alters nothing that was there (but *)
(* for a null in the place of the claim) and closes the transaction.  The  *)
(* saved configuration never changes.                                      *)
(***************************************************************************)
CommitsWhole ==
    /\ saved' = saved
    /\ running' # running =>
          /\ commit # None
          /\ DOMAIN running' \ {DefaultNetns} =
                (DOMAIN running \cup {Operations[i].name : i \in DOMAIN Operations})
                \ {DefaultNetns}
          /\ \A k \in DOMAIN running :
                running'[k] = running[k] \/ (k = DefaultNetns /\ running[k] = NullValue)
          /\ commit.id \notin DOMAIN open'

AllOrNothing == [][CommitsWhole]_vars

-----------------------------------------------------------------------------
(* bigger has every key of config, with the same value but for a claim in place of a null. *)
Grows(config, bigger) ==
    /\ DOMAIN config \subseteq DOMAIN bigger
    /\ \A k \in DOMAIN config :
          \/ bigger[k] = config[k]
          \/ k = DefaultNetns /\ config[k] = NullValue /\ IsString(bigger[k][<<>>])

(* What is kept of a tree through every operation. *)
ConfigOK(config) ==
    /\ Metadata \in DOMAIN config
    /\ ConfigValid(config)
    /\ ClaimOwned(config)

(* The copy is the running tree with the operations done so far. *)
CommitOK ==
    commit # None =>
        /\ ConfigOK(commit.copy)
        /\ Grows(running, commit.copy)
        /\ DOMAIN commit.copy \ {DefaultNetns} =
              (DOMAIN running \cup {Operations[i].name : i \in 1..(commit.next - 1)})
              \ {DefaultNetns}

(* The inductive invariant behind the properties above. *)
IInv == TypeOK /\ ConfigOK(running) /\ CommitOK
=============================================================================
