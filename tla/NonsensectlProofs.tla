------------------------- MODULE NonsensectlProofs -------------------------
(***************************************************************************)
(* Proofs about the running configuration, and about nonsensectl and the   *)
(* daemon, for any names, parameter lists, transactions, users and         *)
(* commands.                                                               *)
(*                                                                         *)
(* The running configuration: config::add only ever adds keys to a tree,   *)
(* so an entity that was valid stays valid, with one exception: the claim  *)
(* of the default namespace, which is looked up in the tree as well.  It   *)
(* is safe because the claim has one owner and is entered with its owner.  *)
(* The same holds of the copy a commit works on, which must be in the      *)
(* invariant because it becomes the running configuration.                 *)
(*                                                                         *)
(* nonsensectl: a user who has given up may run the next command while the *)
(* answer to the last one is on its way: serial numbers tie an answer to   *)
(* the command it belongs to, and there is one message, call or answer,    *)
(* for whoever waits. That a commit which exits with 0 has applied what    *)
(* was acknowledged rests on three facts: an acknowledged operation stays  *)
(* recorded in its transaction until that is closed, the copy of a running *)
(* commit holds the operations it has done, and the running configuration  *)
(* only grows.                                                             *)
(***************************************************************************)
EXTENDS Nonsensectl, TLAPS

(* Nodes of different kinds differ, and a string is equal by its text. *)
LEMMA NodeFacts ==
    /\ ~IsString(Object) /\ ~IsString(Null)
    /\ \A s : IsString(String(s))
    /\ \A s, t : String(s) = String(t) => s = t
    /\ NullValue[<<>>] = Null /\ Null # Object
BY DEF Object, Null, String, IsString, NullValue

(* The claim only sets the key ":default-netns", and only if it is new or null. *)
LEMMA ClaimFacts ==
    ASSUME NEW config, NEW name, NEW json
    PROVE  LET claimed == Claim(config, name, json) IN
           /\ Grows(config, claimed)
           /\ DOMAIN claimed \subseteq DOMAIN config \cup {DefaultNetns}
           /\ HasParameter(json, "default") => DefaultNetns \in DOMAIN claimed
           /\ \A k \in DOMAIN claimed :
                 \/ k \in DOMAIN config /\ claimed[k] = config[k]
                 \/ k = DefaultNetns /\ HasParameter(json, "default") /\ claimed[k][<<>>] = String(name)
           /\ HasParameter(json, "default") /\ Unclaimed(config) =>
                 claimed[DefaultNetns][<<>>] = String(name)
<1>1. CASE HasParameter(json, "default") /\ Unclaimed(config)
  <2> DEFINE node == [p \in {<<>>} |-> String(name)]
  <2>1. Claim(config, name, json) = With(config, DefaultNetns, node)
    BY <1>1 DEF Claim
  <2>2. node[<<>>] = String(name)
    OBVIOUS
  <2> HIDE DEF node
  <2> DEFINE claimed == Claim(config, name, json)
  <2>3. /\ DOMAIN claimed = DOMAIN config \cup {DefaultNetns}
        /\ claimed[DefaultNetns] = node
        /\ \A k \in DOMAIN config : k # DefaultNetns => claimed[k] = config[k]
    BY <2>1 DEF With
  <2> HIDE DEF claimed
  <2>4. claimed[DefaultNetns][<<>>] = String(name)
    BY <2>2, <2>3
  <2>5. Grows(config, claimed)
    BY <1>1, <2>3, <2>4, NodeFacts DEF Grows, Unclaimed
  <2> QED BY <1>1, <2>3, <2>5, <2>4 DEF claimed
<1>2. CASE ~(HasParameter(json, "default") /\ Unclaimed(config))
  BY <1>2 DEF Claim, Grows, Unclaimed
<1> QED BY <1>1, <1>2

(* Entities stay entities when a tree grows. *)
LEMMA GrowsEntities ==
    ASSUME NEW config, NEW bigger, Grows(config, bigger)
    PROVE  /\ Entities(config) \subseteq Entities(bigger)
           /\ \A n \in Entities(config) : bigger[n] = config[n]
           /\ \A n \in Entities(bigger) : n \in DOMAIN config => n \in Entities(config)
BY DEF Grows, Entities

(* Growing is transitive: what a claim has replaced is no null any more. *)
LEMMA GrowsTransitive ==
    ASSUME NEW config, NEW bigger, NEW biggest, Grows(config, bigger), Grows(bigger, biggest)
    PROVE  Grows(config, biggest)
BY NodeFacts DEF Grows

(* An uplink is an object, so it stays what it is. *)
LEMMA GrowsUplink ==
    ASSUME NEW config, NEW bigger, NEW json, Grows(config, bigger), UplinkValid(config, json)
    PROVE  UplinkValid(bigger, json)
<1>1. UplinkOf(json) \in DOMAIN config /\ config[UplinkOf(json)][<<>>] = Object
  BY DEF UplinkValid
<1>2. UplinkOf(json) \in DOMAIN bigger /\ bigger[UplinkOf(json)] = config[UplinkOf(json)]
  BY <1>1, NodeFacts DEF Grows
<1> QED BY <1>2 DEF UplinkValid

(* An entity stays valid when its tree grows, unless a claim appears. *)
LEMMA GrowsValid ==
    ASSUME NEW config, NEW bigger, NEW name, NEW json,
           Grows(config, bigger),
           EntityValid(config, name, json),
           HasParameter(json, "default") => ~Unclaimed(config)
    PROVE  EntityValid(bigger, name, json)
<1>1. CASE ~HasNetwork(json)
  BY <1>1 DEF EntityValid
<1>2. CASE HasNetwork(json)
  <2>1. NetworkValid(config, name, json)
    BY <1>2 DEF EntityValid
  <2>2. HasParameter(json, "default") => bigger[DefaultNetns][<<>>] = String(name)
    BY <2>1 DEF NetworkValid, Grows, Unclaimed
  <2>3. UplinkValid(config, json) => UplinkValid(bigger, json)
    BY GrowsUplink
  <2>4. NetworkValid(bigger, name, json)
    BY <2>1, <2>2, <2>3 DEF NetworkValid
  <2> QED BY <2>4 DEF EntityValid
<1> QED BY <1>1, <1>2

(* In a valid tree, an entity with a default parameter comes with a claim. *)
LEMMA ClaimPresent ==
    ASSUME NEW config, ClaimOwned(config), NEW n \in Entities(config),
           HasParameter(config[n], "default")
    PROVE  /\ Claimed(config)
           /\ config[DefaultNetns][<<>>] = String(n)
BY NodeFacts DEF ClaimOwned, Claims, Claimed

(* A valid entity with a default parameter in a tree with that key owns it. *)
LEMMA ValidOwner ==
    ASSUME NEW config, NEW name, NEW json, EntityValid(config, name, json),
           HasParameter(json, "default"), ~Unclaimed(config)
    PROVE  config[DefaultNetns][<<>>] = String(name)
BY DEF EntityValid, NetworkValid, HasParameter

(* The entities config::add leaves are those it found and the new one. *)
LEMMA AddsOneEntity ==
    ASSUME NEW config, NEW name, NEW parameters,
           Add(config, name, parameters).status = "ok",
           NEW n \in Entities(Add(config, name, parameters).config), n # name,
           name \notin DOMAIN config
    PROVE  n \in Entities(config)
<1> DEFINE json  == BuildEntity(parameters).json
           added == With(config, name, json)
           after == Claim(added, name, json)
<1>1. Add(config, name, parameters).config = after
  BY DEF Add, Outcome
<1> HIDE DEF json
<1>2. DOMAIN added = DOMAIN config \cup {name} /\ Grows(config, added)
  BY Zenon DEF With, Grows
<1> HIDE DEF added
<1>3. /\ Grows(added, after)
      /\ DOMAIN after \subseteq DOMAIN added \cup {DefaultNetns}
      /\ DefaultNetns \in DOMAIN after \ DOMAIN added => after[DefaultNetns][<<>>] = String(name)
  BY ClaimFacts, Zenon
<1> HIDE DEF after
<1>4. n \in DOMAIN added
  BY <1>1, <1>3, NodeFacts DEF Entities
<1> QED BY <1>1, <1>2, <1>3, <1>4, GrowsEntities DEF Grows

(***************************************************************************)
(* config::add keeps the tree valid: a fresh entity that passes            *)
(* _validate_entity, with its claim, harms no other entity.                *)
(***************************************************************************)
LEMMA AddKeepsOK ==
    ASSUME NEW config, ConfigOK(config), NEW name, name \notin DOMAIN config, NEW parameters,
           Add(config, name, parameters).status = "ok"
    PROVE  LET after == Add(config, name, parameters).config IN
           /\ ConfigOK(after)
           /\ Grows(config, after)
           /\ DOMAIN after \ {DefaultNetns} = (DOMAIN config \cup {name}) \ {DefaultNetns}
<1> DEFINE json  == BuildEntity(parameters).json
           added == With(config, name, json)
           after == Claim(added, name, json)
<1>1. EntityValid(added, name, json) /\ Add(config, name, parameters).config = after
  BY DEF Add, Outcome
<1> HIDE DEF json
<1>2. /\ DOMAIN added = DOMAIN config \cup {name}
      /\ added[name] = json
      /\ Grows(config, added)
      /\ \A k \in DOMAIN config : added[k] = config[k]
  <2>1. /\ DOMAIN added = DOMAIN config \cup {name}
        /\ added[name] = json
        /\ \A k \in DOMAIN config : k # name => added[k] = config[k]
    BY DEF With
  <2> QED BY <2>1, Zenon DEF Grows
<1> HIDE DEF added
<1>3. /\ Grows(added, after)
      /\ DOMAIN after \subseteq DOMAIN added \cup {DefaultNetns}
      /\ HasParameter(json, "default") => DefaultNetns \in DOMAIN after
      /\ \A k \in DOMAIN after :
            \/ k \in DOMAIN added /\ after[k] = added[k]
            \/ k = DefaultNetns /\ HasParameter(json, "default") /\ after[k][<<>>] = String(name)
      /\ HasParameter(json, "default") /\ Unclaimed(added) => after[DefaultNetns][<<>>] = String(name)
  BY ClaimFacts
<1> HIDE DEF after
<1>4. json[<<>>] = Object /\ ~IsString(json[<<>>]) /\ json # NullValue
  BY <1>1, NodeFacts DEF EntityValid
<1>5. /\ Grows(config, after)
      /\ DOMAIN after \ {DefaultNetns} = (DOMAIN config \cup {name}) \ {DefaultNetns}
      /\ name \in DOMAIN after /\ after[name] = json
  <2>1. Grows(config, after)
    BY <1>2, <1>3, GrowsTransitive
  <2>2. name \in DOMAIN after /\ after[name] = json
    BY <1>2, <1>3, <1>4 DEF Grows
  <2> QED BY <1>2, <1>3, <2>1, <2>2 DEF Grows
<1>6. \A n \in Entities(after) : n \in Entities(config) \/ n = name
  BY <1>1, AddsOneEntity
<1>7. EntityValid(after, name, json)
  <2>1. HasParameter(json, "default") => after[DefaultNetns][<<>>] = String(name)
    BY <1>1, <1>3, ValidOwner
  <2>2. UplinkValid(added, json) => UplinkValid(after, json)
    BY <1>3, GrowsUplink
  <2>3. NetworkValid(added, name, json) => NetworkValid(after, name, json)
    BY <2>1, <2>2 DEF NetworkValid
  <2> QED BY <1>1, <2>3 DEF EntityValid
<1>8. ConfigValid(after)
  <2>1. ASSUME NEW n \in Entities(config) PROVE EntityValid(after, n, after[n])
    <3>1. after[n] = config[n] /\ EntityValid(config, n, config[n])
      BY <1>5, GrowsEntities DEF ConfigOK, ConfigValid
    <3>2. HasParameter(config[n], "default") => ~Unclaimed(config)
      BY ClaimPresent, NodeFacts DEF ConfigOK, Claimed, Unclaimed
    <3> QED BY <1>5, <3>1, <3>2, GrowsValid
  <2> QED BY <1>5, <1>6, <1>7, <2>1 DEF ConfigValid
<1>9. ClaimOwned(after)
  <2>1. Claims(config) \subseteq Claims(after)
    BY <1>5, GrowsEntities DEF Claims
  <2>2. Claims(after) \subseteq Claims(config) \cup {name}
    BY <1>5, <1>6, GrowsEntities DEF Claims
  <2>3. name \in Claims(after) <=> HasParameter(json, "default")
    BY <1>5, <1>4 DEF Claims, Entities, ConfigOK
  <2>4. HasParameter(json, "default") =>
            Claimed(after) /\ after[DefaultNetns][<<>>] = String(name)
    BY <1>1, <1>3, ValidOwner, NodeFacts DEF Claimed
  <2>5. CASE Claimed(config)
    <3>1. PICK m \in Claims(config) :
             Claims(config) = {m} /\ config[DefaultNetns][<<>>] = String(m)
      BY <2>5 DEF ConfigOK, ClaimOwned
    <3>2. Claimed(after) /\ after[DefaultNetns][<<>>] = String(m)
      BY <1>5, <2>5, <3>1, NodeFacts DEF Claimed, Grows
    <3>3. name # m
      BY <3>1 DEF Claims, Entities
    <3>4. name \notin Claims(after)
      BY <2>3, <2>4, <3>2, <3>3, NodeFacts
    <3>5. Claims(after) = {m}
      BY <2>1, <2>2, <3>1, <3>4
    <3> QED BY <3>2, <3>5 DEF ClaimOwned
  <2>6. CASE ~Claimed(config) /\ HasParameter(json, "default")
    <3>1. Claims(after) = {name}
      BY <2>2, <2>3, <2>6 DEF ConfigOK, ClaimOwned
    <3> QED BY <2>4, <2>6, <3>1 DEF ClaimOwned
  <2>7. CASE ~Claimed(config) /\ ~HasParameter(json, "default")
    <3>1. Claims(after) = {}
      BY <2>2, <2>3, <2>7 DEF ConfigOK, ClaimOwned
    <3>2. ~Claimed(after)
      <4>1. DefaultNetns \in DOMAIN after =>
               after[DefaultNetns] = added[DefaultNetns] /\ DefaultNetns \in DOMAIN added
        BY <1>3, <2>7
      <4> QED BY <1>2, <1>4, <2>7, <4>1 DEF Claimed
    <3> QED BY <3>1, <3>2 DEF ClaimOwned
  <2> QED BY <2>5, <2>6, <2>7
<1>10. Metadata \in DOMAIN after
  BY <1>5 DEF ConfigOK, Grows
<1> QED BY <1>1, <1>5, <1>8, <1>9, <1>10 DEF ConfigOK

-----------------------------------------------------------------------------
(* There is nothing inside a null. *)
LEMMA NullHasNothing ==
    ASSUME NEW key PROVE ~HasParameter(NullValue, key)
<1>1. <<"network">> # <<>>
  BY Len(<<"network">>) = 1, Len(<<>>) = 0
<1> QED BY <1>1 DEF HasParameter, HasNetwork, NullValue

(* A file that config::config accepts gives a tree that is kept. *)
LEMMA FileOK ==
    ASSUME NEW file, FileValid(file)
    PROVE  ConfigOK(Loaded(file))
<1> DEFINE tree == Loaded(file)
<1>1. /\ Metadata \in DOMAIN file
      /\ \A n \in DOMAIN file \ {Metadata} : file[n] = NullValue \/ EntityValid(tree, n, file[n])
  BY DEF FileValid
<1>2. \A n \in DOMAIN file \ {Metadata} : ~IsString(file[n][<<>>])
  BY <1>1, NodeFacts DEF EntityValid
<1>3. DefaultNetns # Metadata
  BY DEF DefaultNetns, Metadata
<1>4. CASE Claimants(file) = {}
  <2>1. tree = file
    BY <1>4 DEF Loaded
  <2>2. Entities(file) = {n \in DOMAIN file \ {Metadata} : file[n] # NullValue}
    BY <1>2 DEF Entities
  <2>3. ConfigValid(file)
    BY <1>1, <2>1, <2>2 DEF ConfigValid
  <2>4. ~Claimed(file)
    BY <1>2, <1>3 DEF Claimed
  <2>5. Claims(file) = {}
    BY <1>4, <2>2 DEF Claims, Claimants
  <2> QED BY <1>1, <2>1, <2>3, <2>4, <2>5 DEF ConfigOK, ClaimOwned
<1>5. CASE Claimants(file) # {}
  <2> DEFINE m == CHOOSE n \in Claimants(file) : TRUE
  <2>1. m \in Claimants(file) /\ tree = Claim(file, m, file[m])
    BY <1>5 DEF Loaded
  <2> HIDE DEF m, tree
  <2>2. m \in DOMAIN file \ {Metadata} /\ HasParameter(file[m], "default")
    BY <2>1 DEF Claimants
  <2>3. /\ Grows(file, tree)
        /\ DOMAIN tree \subseteq DOMAIN file \cup {DefaultNetns}
        /\ DefaultNetns \in DOMAIN tree
        /\ Unclaimed(file) => tree[DefaultNetns][<<>>] = String(m)
        /\ ~Unclaimed(file) => tree = file
    <3>1. ~Unclaimed(file) => tree = file
      BY <2>1 DEF Claim
    <3> QED BY <2>1, <2>2, <3>1, ClaimFacts
  <2>4. \A n \in DOMAIN file \ {Metadata} :
           HasParameter(file[n], "default") /\ ~Unclaimed(tree) => tree[DefaultNetns][<<>>] = String(n)
    <3>1. NullValue # file[m] /\ \A n \in DOMAIN file : HasParameter(file[n], "default") => file[n] # NullValue
      BY <2>2, NullHasNothing
    <3> QED BY <1>1, <3>1, ValidOwner
  <2>5. Unclaimed(file)
    <3> SUFFICES ASSUME ~Unclaimed(file) PROVE FALSE
      OBVIOUS
    <3>1. tree = file /\ DefaultNetns \in DOMAIN file /\ ~IsString(file[DefaultNetns][<<>>])
      BY <1>2, <1>3, <2>3 DEF Unclaimed
    <3> QED BY <2>2, <2>4, <3>1, NodeFacts
  <2>6. tree[DefaultNetns][<<>>] = String(m) /\ Claimed(tree) /\ ~Unclaimed(tree)
    BY <2>3, <2>5, NodeFacts DEF Claimed, Unclaimed
  <2>7. /\ Entities(tree) = {n \in DOMAIN file \ {Metadata} : file[n] # NullValue}
        /\ \A n \in Entities(tree) : tree[n] = file[n]
    BY <1>2, <2>3, <2>6, NodeFacts DEF Entities, Grows
  <2>8. ConfigValid(tree)
    BY <1>1, <2>7 DEF ConfigValid
  <2>9. Claims(tree) = {m}
    <3>1. m \in Entities(tree)
      BY <2>2, <2>7, NullHasNothing
    <3>2. ASSUME NEW n \in Entities(tree), HasParameter(tree[n], "default") PROVE n = m
      BY <2>4, <2>6, <2>7, <3>2, NodeFacts
    <3> QED BY <2>2, <2>7, <3>1, <3>2 DEF Claims
  <2> QED BY <1>1, <2>3, <2>6, <2>8, <2>9 DEF ConfigOK, ClaimOwned, Grows, tree
<1> QED BY <1>4, <1>5

-----------------------------------------------------------------------------
(* configuration::configuration: the running tree starts as the saved one. *)
LEMMA InitIInv == Init => IInv
<1> SUFFICES ASSUME Init PROVE IInv
  OBVIOUS
<1>1. ConfigOK(running)
  BY FileOK DEF Init
<1>2. TypeOK
  BY DEF Init, TypeOK, Answer
<1>3. CommitOK
  BY DEF Init, CommitOK
<1> QED BY <1>1, <1>2, <1>3 DEF IInv

(* A step that leaves both trees and the commit alone. *)
LEMMA KeepsTrees ==
    ASSUME IInv, TypeOK', running' = running, commit' = commit,
           commit # None => open' = open
    PROVE  IInv'
<1>1. commit # None => Operations' = Operations
  BY DEF Operations
<1>2. CommitOK'
  BY <1>1 DEF IInv, CommitOK
<1>3. ConfigOK(running)'
  BY DEF IInv
<1> QED BY <1>2, <1>3 DEF IInv

(* An answer that changes nothing else. *)
LEMMA AnswersIInv ==
    ASSUME IInv, NEW a \in Answer, Answers(a)
    PROVE  IInv'
<1>1. UNCHANGED <<daemon, saved, running, open, commit>> /\ answer' = a
  BY DEF Answers
<1>2. TypeOK'
  BY <1>1 DEF IInv, TypeOK, Operations
<1> QED BY <1>1, <1>2, KeepsTrees

(* transactions::new *)
LEMMA NewIInv ==
    ASSUME IInv, NEW uid \in Uids, NEW id \in Ids, New(uid, id)
    PROVE  IInv'
<1> DEFINE fresh == [owner |-> uid, ops |-> <<>>]
<1>1. fresh \in Transaction /\ Len(fresh.ops) <= MaxOps
  BY TransactionsAssumption DEF Transaction
<1>2. TypeOK'
  <2>1. /\ commit' = None /\ DOMAIN open' = DOMAIN open \cup {id}
        /\ open'[id] = fresh /\ \A i \in DOMAIN open : open'[i] = open[i]
        /\ answer' = "ok" /\ daemon' = daemon
    BY DEF New, Idle
  <2> HIDE DEF fresh
  <2> QED BY <1>1, <2>1 DEF IInv, TypeOK, Answer
<1> QED BY <1>2, KeepsTrees DEF New, Idle

(* transaction::add *)
LEMMA AddOperationIInv ==
    ASSUME IInv, NEW uid \in Uids, NEW id \in Ids, NEW name \in Names,
           NEW parameters \in Parameters, AddOperation(uid, id, name, parameters)
    PROVE  IInv'
<1>1. CASE ~May(uid, id)
  BY <1>1, AnswersIInv DEF AddOperation, Answer
<1>2. CASE May(uid, id)
  <2> DEFINE op == [name |-> name, parameters |-> parameters]
  <2>1. /\ commit = None /\ commit' = commit /\ running' = running /\ daemon' = daemon
        /\ id \in DOMAIN open /\ Len(open[id].ops) < MaxOps
        /\ open' = [open EXCEPT ![id].ops = Append(@, op)]
        /\ answer' = "ok"
    BY <1>2 DEF AddOperation, Idle
  <2>2. op \in Operation
    BY DEF Operation
  <2> HIDE DEF op
  <2>3. open[id] \in Transaction
    BY <2>1 DEF IInv, TypeOK
  <2>4. /\ open'[id] = [open[id] EXCEPT !.ops = Append(@, op)]
        /\ DOMAIN open' = DOMAIN open
        /\ \A i \in DOMAIN open : i # id => open'[i] = open[i]
    BY <2>1
  <2>5. open'[id] \in Transaction /\ Len(open'[id].ops) = Len(open[id].ops) + 1
    <3>1. open[id].owner \in Uids /\ open[id].ops \in Seq(Operation)
      BY <2>3 DEF Transaction
    <3>2. open'[id].owner = open[id].owner /\ open'[id].ops = Append(open[id].ops, op)
      BY <2>3, <2>4 DEF Transaction
    <3>3. /\ Append(open[id].ops, op) \in Seq(Operation)
          /\ Len(Append(open[id].ops, op)) = Len(open[id].ops) + 1
      BY <2>2, <3>1
    <3>4. open'[id] = [owner |-> open'[id].owner, ops |-> open'[id].ops]
      BY <2>3, <2>4 DEF Transaction
    <3> QED BY <3>1, <3>2, <3>3, <3>4 DEF Transaction
  <2>6. Len(open'[id].ops) <= MaxOps
    BY <2>1, <2>3, <2>5, TransactionsAssumption, SMT DEF Transaction
  <2>7. TypeOK'
    BY <2>1, <2>4, <2>5, <2>6 DEF IInv, TypeOK, Answer
  <2> QED BY <2>1, <2>7, KeepsTrees
<1> QED BY <1>1, <1>2

(* transactions::discard; no commit is iterating over the transaction. *)
LEMMA DiscardIInv ==
    ASSUME IInv, NEW uid \in Uids, NEW id \in Ids, Discard(uid, id)
    PROVE  IInv'
<1>1. CASE id \notin DOMAIN open \/ ~May(uid, id)
  BY <1>1, AnswersIInv DEF Discard, Answer
<1>2. CASE id \in DOMAIN open /\ May(uid, id)
  <2>1. TypeOK'
    BY <1>2 DEF Discard, Idle, IInv, TypeOK, Answer
  <2> QED BY <1>2, <2>1, KeepsTrees DEF Discard, Idle
<1> QED BY <1>1, <1>2

(* transactions::commit copies the running tree. *)
LEMMA CommitBeginIInv ==
    ASSUME IInv, NEW uid \in Uids, NEW id \in Ids, CommitBegin(uid, id)
    PROVE  IInv'
<1>1. CASE id \notin DOMAIN open \/ ~May(uid, id)
  BY <1>1, AnswersIInv DEF CommitBegin, Answer
<1>2. CASE id \in DOMAIN open /\ May(uid, id)
  <2>1. /\ commit'.id = id /\ commit'.copy = running /\ commit'.next = 1
        /\ UNCHANGED <<daemon, saved, running, open, answer>>
    BY <1>2 DEF CommitBegin
  <2>2. TypeOK'
    <3>1. Len(Operations') \in Nat
      BY <1>2, <2>1 DEF Operations, IInv, TypeOK, Transaction
    <3>2. commit'.next \in 1..(Len(Operations') + 1)
      BY <2>1, <3>1, SMT
    <3> QED BY <1>2, <2>1, <3>2 DEF IInv, TypeOK
  <2>3. CommitOK'
    <3>1. {Operations'[i].name : i \in 1..(commit'.next - 1)} = {}
      BY <2>1, SMT
    <3>2. Grows(running, running)
      BY DEF Grows
    <3> QED BY <2>1, <3>1, <3>2 DEF CommitOK, IInv
  <2> QED BY <2>1, <2>2, <2>3 DEF IInv
<1> QED BY <1>1, <1>2

(* One more operation adds its name to those already done. *)
LEMMA OneMoreName ==
    ASSUME NEW ops \in Seq(Operation),
           NEW k \in 1..Len(ops)
    PROVE  {ops[i].name : i \in 1..((k + 1) - 1)} =
              {ops[i].name : i \in 1..(k - 1)} \cup {ops[k].name}
<1>1. k \in Nat /\ 1..((k + 1) - 1) = 1..(k - 1) \cup {k}
  BY SMT
<1> QED BY <1>1

(* One turn of the loop of transactions::commit. *)
LEMMA CommitApplyIInv ==
    ASSUME IInv, CommitApply
    PROVE  IInv'
<1> DEFINE operation == Operations[commit.next]
           result    == Add(commit.copy, operation.name, operation.parameters)
<1>1. /\ daemon = "up" /\ commit # None /\ commit.next <= Len(Operations)
      /\ UNCHANGED <<saved, running, open>>
  BY DEF CommitApply
<1>2. CASE commit' = None /\ answer' \in {"EntityAlreadyExists", "InvalidEntityParameters"}
           /\ daemon' = daemon
  <2>1. TypeOK'
    BY <1>1, <1>2 DEF IInv, TypeOK, Answer
  <2> QED BY <1>1, <1>2, <2>1 DEF IInv, CommitOK
<1>3. CASE operation.name \notin DOMAIN commit.copy /\ result.status = "ok"
           /\ commit' = [id |-> commit.id, copy |-> result.config, next |-> commit.next + 1]
           /\ UNCHANGED <<daemon, answer>>
  <2>1. /\ commit.id \in DOMAIN open
        /\ Operations \in Seq(Operation)
        /\ commit.next \in 1..Len(Operations)
    <3>1. commit.id \in DOMAIN open /\ Operations \in Seq(Operation)
      BY <1>1 DEF IInv, TypeOK, Transaction, Operations
    <3>2. commit.next \in 1..(Len(Operations) + 1)
      BY <1>1 DEF IInv, TypeOK
    <3> QED BY <1>1, <3>1, <3>2, SMT
  <2>2. commit'.id = commit.id /\ commit'.copy = result.config /\ commit'.next = commit.next + 1
    BY <1>3
  <2>3. Operations' = Operations
    BY <1>1, <2>2 DEF Operations
  <2>4. TypeOK'
    <3>1. commit'.next \in 1..(Len(Operations) + 1)
      BY <2>1, <2>2, SMT
    <3> QED BY <1>1, <1>3, <2>1, <2>2, <2>3, <3>1 DEF IInv, TypeOK
  <2>5. /\ ConfigOK(commit.copy) /\ Grows(running, commit.copy)
        /\ DOMAIN commit.copy \ {DefaultNetns} =
              (DOMAIN running \cup {Operations[i].name : i \in 1..(commit.next - 1)})
              \ {DefaultNetns}
    BY <1>1 DEF IInv, CommitOK
  <2>6. /\ ConfigOK(result.config)
        /\ Grows(commit.copy, result.config)
        /\ DOMAIN result.config \ {DefaultNetns} =
              (DOMAIN commit.copy \cup {operation.name}) \ {DefaultNetns}
    BY <1>3, <2>5, AddKeepsOK
  <2> HIDE DEF result
  <2>7. Grows(running, result.config)
    BY <2>5, <2>6 DEF Grows
  <2>8. {Operations[i].name : i \in 1..(commit'.next - 1)} =
           {Operations[i].name : i \in 1..(commit.next - 1)} \cup {operation.name}
    BY <2>1, <2>2, OneMoreName
  <2>9. DOMAIN result.config \ {DefaultNetns} =
           (DOMAIN running \cup {Operations[i].name : i \in 1..(commit'.next - 1)})
           \ {DefaultNetns}
    BY <2>5, <2>6, <2>8
  <2>10. CommitOK'
    BY <1>1, <2>2, <2>3, <2>6, <2>7, <2>9 DEF CommitOK
  <2> QED BY <1>1, <2>4, <2>10 DEF IInv
<1>4. CASE daemon' = "aborted" /\ UNCHANGED <<commit, answer>>
  <2>1. TypeOK'
    BY <1>1, <1>4 DEF IInv, TypeOK, Operations
  <2> QED BY <1>1, <1>4, <2>1, KeepsTrees
<1> QED BY <1>2, <1>3, <1>4 DEF CommitApply

(* transactions::commit assigns the copy and erases the transaction. *)
LEMMA CommitEndIInv ==
    ASSUME IInv, CommitEnd
    PROVE  IInv'
<1>1. TypeOK'
  BY DEF CommitEnd, IInv, TypeOK, Answer
<1>2. ConfigOK(running)'
  BY DEF CommitEnd, IInv, CommitOK
<1>3. CommitOK'
  BY DEF CommitEnd, CommitOK
<1> QED BY <1>1, <1>2, <1>3 DEF IInv

(* The end of the daemon changes nothing else. *)
LEMMA AbortsIInv ==
    ASSUME IInv, daemon' = "aborted", answer' \in {answer, "none"},
           UNCHANGED <<saved, running, open, commit>>
    PROVE  IInv'
<1>1. TypeOK'
  BY DEF IInv, TypeOK, Operations, Answer
<1> QED BY <1>1, KeepsTrees

(* Every call keeps the invariant. *)
LEMMA NextIInv == IInv /\ [Next]_vars => IInv'
<1> SUFFICES ASSUME IInv, [Next]_vars PROVE IInv'
  OBVIOUS
<1>1. CASE UNCHANGED vars
  <2>1. TypeOK'
    BY <1>1 DEF vars, IInv, TypeOK, Operations
  <2> QED BY <1>1, <2>1, KeepsTrees DEF vars
<1>2. ASSUME NEW uid \in Uids, NEW id \in Ids,
             \/ New(uid, id) \/ Discard(uid, id) \/ CommitBegin(uid, id)
             \/ \E name \in Names, parameters \in Parameters :
                   AddOperation(uid, id, name, parameters)
      PROVE  IInv'
  BY <1>2, NewIInv, DiscardIInv, CommitBeginIInv, AddOperationIInv
<1>3. CASE Unimplemented \/ CallFails
  BY <1>3, AnswersIInv DEF Unimplemented, CallFails, Answer
<1>4. CASE SenderGone
  BY <1>4, AbortsIInv DEF SenderGone
<1> QED BY <1>1, <1>2, <1>3, <1>4, CommitApplyIInv, CommitEndIInv DEF Next

(* The inductive invariant holds in every reachable state. *)
THEOREM TransactionsInvariant == Spec => []IInv
BY InitIInv, NextIInv, PTL DEF Spec

(***************************************************************************)
(* Types; and a commit never outlives the transaction it iterates over,    *)
(* which transactions::commit erases only after its loop.                  *)
(***************************************************************************)
THEOREM TransactionsTypeOK == Spec => []TypeOK
<1>1. IInv => TypeOK
  BY DEF IInv
<1> QED BY <1>1, TransactionsInvariant, PTL

(***************************************************************************)
(* Whatever is committed, in whichever order and by however many users,    *)
(* every entity of the running configuration is valid in it.               *)
(***************************************************************************)
THEOREM TransactionsRunningValid == Spec => []RunningValid
<1>1. IInv => RunningValid
  BY DEF IInv, ConfigOK, RunningValid
<1> QED BY <1>1, TransactionsInvariant, PTL

(* ":default-netns" always names the one entity with a default parameter. *)
THEOREM TransactionsDefaultNetnsOwned == Spec => []DefaultNetnsOwned
<1>1. IInv => DefaultNetnsOwned
  BY DEF IInv, ConfigOK, DefaultNetnsOwned
<1> QED BY <1>1, TransactionsInvariant, PTL

(***************************************************************************)
(* A commit adds all of its entities or none and alters nothing: the copy  *)
(* is, at every point, the running tree plus the operations done.          *)
(***************************************************************************)
THEOREM TransactionsAllOrNothing == Spec => AllOrNothing
<1>1. IInv /\ [Next]_vars => [CommitsWhole]_vars
  <2> SUFFICES ASSUME IInv, [Next]_vars PROVE [CommitsWhole]_vars
    OBVIOUS
  <2>1. CASE CommitEnd
    <3>1. /\ commit # None /\ commit.next > Len(Operations) /\ running' = commit.copy
          /\ saved' = saved /\ DOMAIN open' = DOMAIN open \ {commit.id}
      BY <2>1 DEF CommitEnd
    <3>2. /\ Operations \in Seq(Operation)
          /\ commit.next \in 1..(Len(Operations) + 1)
      BY <3>1 DEF IInv, TypeOK, Transaction, Operations
    <3>3. 1..(commit.next - 1) = DOMAIN Operations
      BY <3>1, <3>2, SMT
    <3>4. /\ Grows(running, running')
          /\ DOMAIN running' \ {DefaultNetns} =
                (DOMAIN running \cup {Operations[i].name : i \in DOMAIN Operations})
                \ {DefaultNetns}
      BY <3>1, <3>3 DEF IInv, CommitOK
    <3> QED BY <3>1, <3>4 DEF CommitsWhole, Grows
  <2>2. CASE running' = running /\ saved' = saved
    BY <2>2 DEF CommitsWhole
  <2>3. CASE UNCHANGED vars
    BY <2>3
  <2> QED
    BY <2>1, <2>2, <2>3
       DEF Next, New, AddOperation, Discard, CommitBegin, CommitApply, Unimplemented,
           CallFails, SenderGone, Answers
<1> QED BY <1>1, TransactionsInvariant, PTL DEF Spec, AllOrNothing

-----------------------------------------------------------------------------
(***************************************************************************)
(* A new entity has no entity above it that is below it: whatever is in    *)
(* the tree has its uplink in the tree, which the new name was not.        *)
(***************************************************************************)
LEMMA AddKeepsLoopFree ==
    ASSUME NEW config, ConfigOK(config), LoopFree(config),
           NEW name, name \notin DOMAIN config, NEW parameters,
           Add(config, name, parameters).status = "ok"
    PROVE  LoopFree(Add(config, name, parameters).config)
<1> DEFINE after == Add(config, name, parameters).config
<1>1. /\ ConfigOK(after) /\ Grows(config, after)
      /\ DOMAIN after \ {DefaultNetns} = (DOMAIN config \cup {name}) \ {DefaultNetns}
  BY AddKeepsOK
<1>2. ASSUME NEW n \in Entities(after), n # name
      PROVE  n \in Entities(config)
  BY <1>2, AddsOneEntity
<1> HIDE DEF after
<1> SUFFICES ASSUME NEW S \in SUBSET Entities(after), S # {}
             PROVE  \E n \in S : HasParameter(after[n], "uplink") =>
                                     UplinkOf(after[n]) \notin S \ {n}
  BY DEF LoopFree, after
<1>3. CASE S \ {name} = {}
  BY <1>3
<1>4. CASE S \ {name} # {}
  <2> DEFINE T == S \ {name}
  <2>1. T \in SUBSET Entities(config) /\ T # {}
    BY <1>2, <1>4
  <2> HIDE DEF T
  <2>2. PICK n \in T : HasParameter(config[n], "uplink") => UplinkOf(config[n]) \notin T \ {n}
    BY <2>1 DEF LoopFree
  <2>3. n \in S /\ n \in Entities(config) /\ n \in DOMAIN config /\ after[n] = config[n]
    BY <1>1, <2>1 DEF T, Entities, Grows
  <2>4. ASSUME HasParameter(config[n], "uplink")
        PROVE  UplinkOf(config[n]) \notin S \ {n}
    <3>1. UplinkOf(config[n]) \in DOMAIN config
      BY <2>3, <2>4 DEF ConfigOK, ConfigValid, EntityValid, NetworkValid, UplinkValid, HasParameter
    <3>2. UplinkOf(config[n]) # name
      BY <3>1
    <3> QED BY <2>2, <2>4, <3>2 DEF T
  <2> QED BY <2>3, <2>4
<1> QED BY <1>3, <1>4

(***************************************************************************)
(* No file the daemon accepts has an uplink loop.  Nothing in the code     *)
(* checks it: the entities of one file may name each other.                *)
(***************************************************************************)
FilesLoopFree == \A file \in Files : FileValid(file) => LoopFree(Loaded(file))

(* The copy becomes the running tree, so it has no loop either. *)
LoopInv == LoopFree(running) /\ (commit # None => LoopFree(commit.copy))

(* Every call keeps both trees without a loop. *)
LEMMA NextLoopInv == IInv /\ LoopInv /\ [Next]_vars => LoopInv'
<1> SUFFICES ASSUME IInv, LoopInv, [Next]_vars PROVE LoopInv'
  OBVIOUS
<1>1. CASE running' = running /\ (commit' = commit \/ commit' = None)
  BY <1>1 DEF LoopInv
<1>2. ASSUME NEW uid \in Uids, NEW id \in Ids, CommitBegin(uid, id)
      PROVE  LoopInv'
  <2>1. \/ running' = running /\ commit' = commit
        \/ running' = running /\ commit'.copy = running
    BY <1>2 DEF CommitBegin, Answers
  <2> QED BY <1>1, <2>1 DEF LoopInv
<1>3. CASE CommitApply
  <2> DEFINE operation == Operations[commit.next]
             result    == Add(commit.copy, operation.name, operation.parameters)
  <2>1. \/ running' = running /\ (commit' = commit \/ commit' = None)
        \/ /\ operation.name \notin DOMAIN commit.copy /\ result.status = "ok"
           /\ commit' = [id |-> commit.id, copy |-> result.config, next |-> commit.next + 1]
           /\ running' = running /\ commit # None
    BY <1>3 DEF CommitApply
  <2>2. CASE /\ operation.name \notin DOMAIN commit.copy /\ result.status = "ok"
             /\ commit' = [id |-> commit.id, copy |-> result.config, next |-> commit.next + 1]
             /\ running' = running /\ commit # None
    <3>1. ConfigOK(commit.copy) /\ LoopFree(commit.copy)
      BY <2>2 DEF IInv, CommitOK, LoopInv
    <3>2. LoopFree(result.config)
      BY <2>2, <3>1, AddKeepsLoopFree
    <3>3. commit'.copy = result.config
      BY <2>2
    <3> HIDE DEF result
    <3> QED BY <2>2, <3>2, <3>3 DEF LoopInv
  <2> QED BY <1>1, <2>1, <2>2
<1>4. CASE CommitEnd
  <2>1. commit # None /\ running' = commit.copy /\ commit' = None
    BY <1>4 DEF CommitEnd
  <2> QED BY <2>1 DEF LoopInv
<1>5. CASE UNCHANGED vars
  BY <1>1, <1>5 DEF vars
<1>6. ASSUME NEW uid \in Uids, NEW id \in Ids,
             \/ New(uid, id) \/ Discard(uid, id)
             \/ \E name \in Names, parameters \in Parameters :
                   AddOperation(uid, id, name, parameters)
      PROVE  running' = running /\ commit' = commit
  BY <1>6 DEF New, Discard, AddOperation, Answers
<1>7. CASE Unimplemented \/ CallFails \/ SenderGone
  BY <1>1, <1>7 DEF Unimplemented, CallFails, SenderGone, Answers
<1> QED BY <1>1, <1>2, <1>3, <1>4, <1>5, <1>6, <1>7 DEF Next

(***************************************************************************)
(* No commit closes a chain of uplinks, so entity::start, which recurses   *)
(* along uplinks while it holds the token of every entity on the way, ends *)
(* its recursion, provided it would for the configuration file.            *)
(***************************************************************************)
THEOREM TransactionsNoUplinkLoop ==
    ASSUME FilesLoopFree
    PROVE  Spec => []NoUplinkLoop
<1>1. Init => LoopInv
  BY DEF Init, LoopInv, FilesLoopFree
<1>2. LoopInv => NoUplinkLoop
  BY DEF LoopInv, NoUplinkLoop
<1> QED BY <1>1, <1>2, NextLoopInv, TransactionsInvariant, PTL DEF Spec

-----------------------------------------------------------------------------
(* nonsensectl and the daemon. *)

(* The messages between nonsensectl and the daemon. *)
Calls   == [user : Users, serial : 1..MaxCommands, command : Commands]
Replies == [user : Users, ok : BOOLEAN]

(* The call is the one its user waits for. *)
Own(call) == call.serial = serial[call.user]

(* A call that is on its way, and the command of its user if it is the last. *)
CallOK(call) ==
    /\ call \in Calls
    /\ ~Usage(call.command)
    /\ call.serial <= count
    /\ Own(call) => call.command = command[call.user]

(* Calls are told apart by their serial numbers. *)
CallsOK ==
    /\ bus \in Seq(Calls)
    /\ \A i \in 1..Len(bus) : CallOK(bus[i])
    /\ \A i, j \in 1..Len(bus) : bus[i].serial = bus[j].serial => i = j
    /\ serving # None =>
          /\ CallOK(serving)
          /\ serving.command.verb = "commit"
          /\ \A i \in 1..Len(bus) : bus[i].serial # serving.serial

(* There is one answer to a call, and it comes after the call. *)
RepliesOK ==
    /\ replies \subseteq Replies
    /\ \A r \in replies :
          /\ exit[r.user] = "waiting"
          /\ \A i \in 1..Len(bus) : bus[i].user = r.user => ~Own(bus[i])
          /\ serving # None /\ serving.user = r.user => ~Own(serving)
    /\ \A r, q \in replies : r.user = q.user => r = q

(* A call is in the hands of at most one coroutine, and of nobody else; its answer is still to come. *)
ActingOK ==
    /\ \A x \in acting :
          /\ CallOK(x) /\ x.command.verb \in {"start", "stop"}
          /\ \A i \in 1..Len(bus) : bus[i].serial # x.serial
          /\ serving # None => serving.serial # x.serial
    /\ \A x, y \in acting : x.serial = y.serial => x = y
    /\ \A x \in acting, r \in replies : x.user = r.user => ~Own(x)

(* The inductive invariant of the calls and their answers. *)
CtlInv == IInv /\ CtlTypeOK /\ CallsOK /\ RepliesOK /\ ActingOK /\ AnswerOnItsWay

-----------------------------------------------------------------------------
(* The entity is in the tree, as an object with the parameters it was given. *)
Applied(a, config) ==
    /\ a.name \in DOMAIN config
    /\ config[a.name] = BuildEntity(a.parameters).json
    /\ config[a.name][<<>>] = Object

(* The operation is in its transaction, as long as that is open. *)
Recorded(a) ==
    /\ a.id \in issued
    /\ a.id \in DOMAIN open =>
          \E i \in 1..Len(open[a.id].ops) :
              open[a.id].ops[i].name = a.name /\ open[a.id].ops[i].parameters = a.parameters

(* The operation that nonsensectl add asks for. *)
Added(c) == [id |-> c.token.id, name |-> c.name, parameters |-> c.parameters]

(* A commit has done its operations, up to the next one. *)
CopyHolds ==
    commit # None => \A i \in 1..(commit.next - 1) : Applied(Operations[i], commit.copy)

(* An add that succeeded is recorded, from its answer on. *)
AddsRecorded ==
    /\ \A a \in acked : Recorded(a)
    /\ \A r \in replies : r.ok /\ command[r.user].verb = "add" => Recorded(Added(command[r.user]))

(* What a commit promises is what had been acknowledged for its transaction. *)
PromisesOK ==
    /\ DOMAIN promised = Users
    /\ \A u \in Users :
          /\ promised[u] \subseteq acked
          /\ \A a \in promised[u] : command[u].verb = "commit" /\ a.id = command[u].token.id

(* A commit that succeeded has applied what it promises, from its answer on. *)
CommitsApplied ==
    /\ \A r \in replies : r.ok => \A a \in promised[r.user] : Applied(a, running)
    /\ \A u \in Users : exit[u] = "0" => \A a \in promised[u] : Applied(a, running)

(* The inductive invariant of the histories. *)
HistoryInv ==
    CopyHolds /\ AddsRecorded /\ PromisesOK /\ CommitsApplied

-----------------------------------------------------------------------------
(* Only the identifiers that a Commit or a Discard parses are numbers. *)
LEMMA TokenFacts ==
    ASSUME NEW c \in Commands, ~Usage(c), c.verb \in {"commit", "discard"}
    PROVE  c.token.id \in Ids
BY DEF Usage, InvalidToken, IsNumber

(* A method either answers at once or begins the commit that was asked for. *)
LEMMA MethodFacts ==
    ASSUME IInv, NEW uid \in Uids, NEW c \in Commands, ~Usage(c), Method(uid, c), DOMAIN open \subseteq issued
    PROVE  /\ IInv'
           /\ daemon = "up" /\ UNCHANGED <<daemon, saved, running>>
           /\ commit = None
           /\ commit' # None => c.verb = "commit" /\ commit'.id = c.token.id
           /\ issued \subseteq issued' /\ DOMAIN open' \subseteq issued'
<1>1. CASE CallFails /\ UNCHANGED issued
  BY <1>1, AnswersIInv DEF CallFails, Idle, Answers, Answer
<1>2. CASE c.verb = "get new-transaction-token" /\ get_transaction_token(uid)
  <2>1. ASSUME NEW id \in Ids \ issued, New(uid, id), issued' = issued \cup {id}
        PROVE  /\ IInv'
               /\ daemon = "up" /\ UNCHANGED <<daemon, saved, running, commit>>
               /\ commit = None
               /\ issued \subseteq issued' /\ DOMAIN open' \subseteq issued'
    <3>1. IInv'
      BY <2>1, NewIInv
    <3>2. DOMAIN open' = DOMAIN open \cup {id}
      BY <2>1 DEF New
    <3> QED BY <2>1, <3>1, <3>2 DEF New, Idle
  <2> QED BY <1>1, <1>2, <2>1 DEF get_transaction_token
<1>3. CASE c.verb = "add" /\ add_handler(uid, c) /\ UNCHANGED issued
  <2>1. ASSUME NEW id \in Named(c), AddOperation(uid, id, c.name, c.parameters)
        PROVE  /\ IInv'
               /\ daemon = "up" /\ UNCHANGED <<daemon, saved, running, commit>>
               /\ commit = None
               /\ DOMAIN open' = DOMAIN open
    <3>1. id \in Ids /\ c.name \in Names /\ c.parameters \in Parameters
      BY <1>3, NonsensectlAssumption DEF IInv, TypeOK, Named
    <3>2. IInv'
      BY <2>1, <3>1, AddOperationIInv
    <3> QED BY <2>1, <3>2 DEF AddOperation, Idle, Answers
  <2> QED BY <1>1, <1>3, <2>1 DEF add_handler
<1>4. CASE c.verb = "commit" /\ CommitBegin(uid, c.token.id) /\ UNCHANGED issued
  <2>1. IInv'
    BY <1>4, TokenFacts, CommitBeginIInv
  <2> QED BY <1>4, <2>1 DEF CommitBegin, Idle, Answers
<1>5. CASE c.verb = "discard" /\ Discard(uid, c.token.id) /\ UNCHANGED issued
  <2>1. IInv'
    BY <1>5, TokenFacts, DiscardIInv
  <2>2. DOMAIN open' \subseteq DOMAIN open
    BY <1>5 DEF Discard, Answers
  <2> QED BY <1>5, <2>1, <2>2 DEF Discard, Idle, Answers
<1> QED BY <1>1, <1>2, <1>3, <1>4, <1>5
    DEF Method, get_property, locking_handler, finalize_handler

(* There is an answer to the call its user waits for, and to no other. *)
LEMMA ReplyFacts ==
    ASSUME NEW call \in Calls
    PROVE  /\ Reply(call) \subseteq Replies
           /\ \A r \in Reply(call) :
                 /\ r.user = call.user /\ exit[call.user] = "waiting" /\ Own(call)
                 /\ r.ok <=> answer' = "ok"
           /\ \A r, q \in Reply(call) : r = q
           /\ exit[call.user] = "waiting" /\ Own(call) => \E r \in Reply(call) : r.user = call.user
<1>1. call.user \in Users
  BY DEF Calls
<1> DEFINE it == [user |-> call.user, ok |-> answer' = "ok"]
<1>2. it \in Replies /\ it.user = call.user /\ (it.ok <=> answer' = "ok")
  BY <1>1, Zenon DEF Replies
<1>3. Reply(call) = IF exit[call.user] = "waiting" /\ Own(call) THEN {it} ELSE {}
  BY Zenon DEF Reply, GaveUp, Own
<1> HIDE DEF it
<1> QED BY <1>2, <1>3, Zenon

(* Reading a call: the others keep their order. *)
LEMMA TailFacts ==
    ASSUME NEW s \in Seq(Calls), s # <<>>
    PROVE  /\ Len(s) \in Nat \ {0}
           /\ Head(s) = s[1] /\ Head(s) \in Calls
           /\ Tail(s) \in Seq(Calls)
           /\ Len(Tail(s)) = Len(s) - 1
           /\ \A i \in 1..Len(Tail(s)) : Tail(s)[i] = s[i + 1] /\ i + 1 \in 1..Len(s) /\ i + 1 # 1
           /\ \A i \in 1..Len(s) : i # 1 => i - 1 \in 1..Len(Tail(s)) /\ Tail(s)[i - 1] = s[i]
BY SMT

(* Making a call: it is the last. *)
LEMMA AppendFacts ==
    ASSUME NEW s \in Seq(Calls), NEW call \in Calls
    PROVE  /\ Append(s, call) \in Seq(Calls)
           /\ Len(s) \in Nat
           /\ Len(Append(s, call)) = Len(s) + 1
           /\ \A i \in 1..Len(s) : Append(s, call)[i] = s[i]
           /\ Append(s, call)[Len(s) + 1] = call
BY SMT

(* A call that is on its way does not depend on the daemon. *)
LEMMA CallKeeps ==
    ASSUME UNCHANGED <<command, count, serial>>, NEW call, CallOK(call)
    PROVE  CallOK(call)'
BY DEF CallOK, Own

(* Before the first command. *)
LEMMA CtlInitInv == CtlInit => CtlInv
<1> SUFFICES ASSUME CtlInit PROVE CtlInv
  OBVIOUS
<1> USE DEF CtlInit
<1>1. IInv
  BY InitIInv
<1>2. CtlTypeOK
  BY <1>1, NonsensectlAssumption DEF CtlTypeOK, IInv, Init
<1>3. CallsOK /\ RepliesOK
  BY DEF CallsOK, RepliesOK
<1>4. AnswerOnItsWay /\ ActingOK
  BY DEF AnswerOnItsWay, ActingOK
<1> QED BY <1>1, <1>2, <1>3, <1>4 DEF CtlInv

(* A new call has a serial number of its own. *)
LEMMA InvokeInv == ASSUME CtlInv, NEW u \in Users, NEW c \in Commands, Invoke(u, c) PROVE CtlInv'
<1> DEFINE n == count + 1
           call == [user |-> u, serial |-> n, command |-> c]
<1>1. /\ count \in 0..MaxCommands /\ n \in 1..MaxCommands /\ count' = n
      /\ serial' = [serial EXCEPT ![u] = n] /\ command' = [command EXCEPT ![u] = c]
      /\ serial \in [Users -> 0..count] /\ command \in [Users -> Commands \cup {None}]
      /\ exit \in [Users -> {"none", "waiting", "0", "1"}]
      /\ exit[u] # "waiting"
      /\ UNCHANGED <<vars, serving, acting, replies, issued>>
      /\ bus \in Seq(Calls)
  BY NonsensectlAssumption DEF Invoke, CtlInv, CtlTypeOK, CallsOK
<1>2. /\ serial'[u] = n /\ command'[u] = c
      /\ \A w \in Users : w # u => serial'[w] = serial[w] /\ command'[w] = command[w] /\ exit'[w] = exit[w]
      /\ exit' \in [Users -> {"none", "waiting", "0", "1"}]
  BY <1>1 DEF Invoke
<1>3. IInv'
  BY <1>1, NextIInv DEF CtlInv
<1>4. CtlTypeOK'
  <2>1. serial' \in [Users -> 0..count'] /\ command' \in [Users -> Commands \cup {None}]
    BY <1>1
  <2> QED BY <1>1, <1>2, <1>3, <2>1 DEF CtlInv, CtlTypeOK, IInv, vars
<1>5. ASSUME NEW x, CallOK(x)
      PROVE  /\ CallOK(x)' /\ x.serial # n
             /\ Own(x)' <=> x.user # u /\ Own(x)
  BY <1>1, <1>2, <1>5 DEF CallOK, Own, Calls
<1>6. /\ call \in Calls /\ call.user = u /\ call.serial = n /\ call.command = c
      /\ ~Usage(c) => \A x : x = call => CallOK(x)'
  BY <1>1, <1>2 DEF CallOK, Own, Calls
<1> HIDE DEF call
<1>7. \A i \in 1..Len(bus) : CallOK(bus[i])
  BY DEF CtlInv, CallsOK
<1>8. \/ bus' = bus /\ exit'[u] = "1"
      \/ bus' = Append(bus, call) /\ ~Usage(c)
  BY <1>1 DEF Invoke, call
<1>9. ASSUME NEW i \in 1..Len(bus')
      PROVE  \/ i \in 1..Len(bus) /\ bus'[i] = bus[i]
             \/ i = Len(bus) + 1 /\ bus'[i] = call /\ ~Usage(c)
  BY <1>1, <1>6, <1>8, AppendFacts
<1>10. CallsOK'
  <2>1. bus' \in Seq(Calls)
    BY <1>1, <1>6, <1>8, AppendFacts
  <2>2. ASSUME NEW i \in 1..Len(bus') PROVE CallOK(bus[i])'
    <3>1. ASSUME NEW x, x = bus'[i] PROVE CallOK(x)'
      BY <1>5, <1>6, <1>7, <1>9, <3>1
    <3> QED BY <3>1 DEF CallOK, Own
  <2>3. ASSUME NEW i \in 1..Len(bus'), NEW j \in 1..Len(bus'), bus'[i].serial = bus'[j].serial PROVE i = j
    BY <1>5, <1>6, <1>7, <1>9, <2>3 DEF CtlInv, CallsOK
  <2>4. ASSUME serving # None
        PROVE  CallOK(serving)' /\ serving.command.verb = "commit" /\ \A i \in 1..Len(bus') : bus'[i].serial # serving.serial
    <3>1. ASSUME NEW x, x = serving PROVE CallOK(x)' /\ x.serial # n
      BY <1>5, <2>4, <3>1 DEF CtlInv, CallsOK
    <3>2. CallOK(serving)'
      BY <1>1, <3>1 DEF CallOK, Own
    <3> QED BY <1>6, <1>9, <2>4, <3>1, <3>2 DEF CtlInv, CallsOK
  <2> QED BY <1>1, <2>1, <2>2, <2>3, <2>4 DEF CallsOK
<1>11. RepliesOK'
  <2> SUFFICES ASSUME NEW r \in replies
               PROVE  /\ exit'[r.user] = "waiting"
                      /\ \A i \in 1..Len(bus') : bus'[i].user = r.user => bus'[i].serial # serial'[bus'[i].user]
                      /\ serving # None /\ serving.user = r.user => serving.serial # serial'[serving.user]
    BY <1>1 DEF RepliesOK, Own, CtlInv
  <2>1. r.user \in Users /\ r.user # u /\ exit[r.user] = "waiting"
    BY <1>1 DEF CtlInv, RepliesOK, Replies
  <2> QED BY <1>2, <1>6, <1>9, <2>1 DEF CtlInv, RepliesOK, Own
<1>12. AnswerOnItsWay'
  <2> SUFFICES ASSUME NEW w \in Users, exit'[w] = "waiting", command'[w].verb # "start"
               PROVE  \/ \E i \in DOMAIN bus' : bus'[i].user = w /\ bus'[i].serial = serial'[w]
                      \/ serving # None /\ serving.user = w /\ serving.serial = serial'[w]
                      \/ \E x \in acting : x.user = w /\ x.serial = serial'[w]
                      \/ \E r \in replies : r.user = w
                      \/ daemon = "aborted"
    BY <1>1 DEF AnswerOnItsWay, vars
  <2>1. DOMAIN bus' = 1..Len(bus')
    BY <1>10 DEF CallsOK
  <2>2. CASE w = u
    <3>1. bus' = Append(bus, call)
      BY <1>8, <2>2
    <3>2. Len(bus) + 1 \in 1..Len(bus') /\ bus'[Len(bus) + 1] = call
      BY <1>1, <1>6, <3>1, AppendFacts
    <3> QED BY <1>2, <1>6, <2>1, <2>2, <3>2
  <2>3. CASE w # u
    <3>1. ASSUME NEW i \in DOMAIN bus PROVE i \in DOMAIN bus' /\ bus'[i] = bus[i]
      <4>1. i \in 1..Len(bus) /\ Len(bus) \in Nat
        BY <1>1
      <4>2. CASE bus' = bus
        BY <4>1, <4>2
      <4>3. CASE bus' = Append(bus, call)
        BY <1>1, <1>6, <2>1, <4>1, <4>3, AppendFacts
      <4> QED BY <1>8, <4>2, <4>3
    <3> QED BY <1>2, <2>3, <3>1 DEF CtlInv, AnswerOnItsWay
  <2> QED BY <2>2, <2>3
<1>13. ActingOK'
  <2>1. ASSUME NEW x \in acting
        PROVE  /\ CallOK(x)' /\ x.serial # n
               /\ Own(x)' <=> x.user # u /\ Own(x)
    BY <1>5 DEF CtlInv, ActingOK
  <2>2. ASSUME NEW x \in acting, NEW i \in 1..Len(bus') PROVE bus'[i].serial # x.serial
    BY <1>6, <1>9, <2>1 DEF CtlInv, ActingOK
  <2>3. ASSUME NEW x \in acting, NEW r \in replies, x.user = r.user PROVE ~Own(x)'
    BY <2>1, <2>3 DEF CtlInv, ActingOK
  <2> QED BY <1>1, <2>1, <2>2, <2>3 DEF CtlInv, ActingOK
<1> QED BY <1>3, <1>4, <1>10, <1>11, <1>12, <1>13 DEF CtlInv

(* A call is read: it is answered, or its commit begins. *)
LEMMA ServeInv == ASSUME CtlInv, Serve PROVE CtlInv'
<1> DEFINE call == Head(bus)
<1>1. /\ bus \in Seq(Calls) /\ bus # <<>> /\ bus' = Tail(bus) /\ serving = None
      /\ UNCHANGED <<command, exit, count, serial, acting>>
  BY DEF CtlInv, CallsOK, Serve
<1>2. call = bus[1] /\ 1 \in 1..Len(bus) /\ CallOK(call) /\ call \in Calls /\ call # None
  <2>1. call = bus[1] /\ 1 \in 1..Len(bus) /\ call \in Calls
    BY <1>1, TailFacts
  <2>2. CallOK(call)
    BY <2>1 DEF CtlInv, CallsOK
  <2>3. None \notin Calls
    BY NonsensectlAssumption DEF Calls
  <2> QED BY <2>1, <2>2, <2>3
<1>3. \/ commit' = None /\ replies' = replies \cup Reply(call) /\ serving' = serving
      \/ commit' # None /\ serving' = call /\ replies' = replies
  BY DEF Serve
<1>4. /\ IInv' /\ daemon' = daemon
      /\ commit' # None => call.command.verb = "commit" /\ commit'.id = call.command.token.id
      /\ DOMAIN open' \subseteq issued'
  <2>1. Uid[call.user] \in Uids /\ call.command \in Commands /\ ~Usage(call.command) /\ Method(Uid[call.user], call.command)
    BY <1>2, NonsensectlAssumption DEF Serve, CallOK, Calls
  <2> HIDE DEF call
  <2> QED BY <2>1, MethodFacts DEF CtlInv, CtlTypeOK
<1>5. ASSUME NEW i \in 1..Len(bus') PROVE i + 1 \in 1..Len(bus) /\ i + 1 # 1 /\ bus'[i] = bus[i + 1]
  BY <1>1, TailFacts
<1> HIDE DEF call
<1>6. CtlTypeOK'
  BY <1>1, <1>2, <1>3, <1>4 DEF CtlInv, CtlTypeOK, IInv
<1>7. CallsOK'
  <2>1. bus' \in Seq(Calls)
    BY <1>1, TailFacts
  <2>2. ASSUME NEW i \in 1..Len(bus') PROVE CallOK(bus[i])'
    <3>1. ASSUME NEW x, x = bus'[i] PROVE CallOK(x)'
      BY <1>1, <1>5, <3>1, CallKeeps DEF CtlInv, CallsOK
    <3> QED BY <3>1 DEF CallOK, Own
  <2>3. ASSUME NEW i \in 1..Len(bus'), NEW j \in 1..Len(bus'), bus'[i].serial = bus'[j].serial PROVE i = j
    <3>1. i + 1 = j + 1
      BY <1>5, <2>3 DEF CtlInv, CallsOK
    <3> QED BY <3>1
  <2>4. ASSUME serving' # None
        PROVE  CallOK(serving)' /\ serving'.command.verb = "commit" /\ \A i \in 1..Len(bus') : bus'[i].serial # serving'.serial
    <3>1. serving' = call /\ commit' # None
      BY <1>1, <1>3, <2>4
    <3>2. ASSUME NEW x, x = call PROVE CallOK(x)'
      BY <1>1, <1>2, <3>2, CallKeeps
    <3>3. \A i \in 1..Len(bus') : bus'[i].serial # call.serial
      BY <1>2, <1>5 DEF CtlInv, CallsOK
    <3>4. CallOK(serving)'
      BY <3>1, <3>2 DEF CallOK, Own
    <3> QED BY <1>4, <3>1, <3>3, <3>4
  <2> QED BY <2>1, <2>2, <2>3, <2>4 DEF CallsOK
<1>8. RepliesOK'
  <2>1. ASSUME NEW r \in replies'
        PROVE  /\ r \in Replies /\ exit[r.user] = "waiting"
               /\ \A i \in 1..Len(bus') : bus'[i].user = r.user => bus'[i].serial # serial[bus'[i].user]
               /\ serving' # None /\ serving'.user = r.user => serving'.serial # serial[serving'.user]
    <3>1. CASE r \in replies
      BY <1>1, <1>2, <1>3, <1>5, <3>1 DEF CtlInv, RepliesOK, Own
    <3>2. CASE r \notin replies
      <4>1. r \in Reply(call) /\ serving' = None
        BY <1>1, <1>3, <3>2
      <4>2. r \in Replies /\ r.user = call.user /\ exit[call.user] = "waiting" /\ call.serial = serial[call.user]
        BY <1>2, <4>1, ReplyFacts DEF Own
      <4>3. ASSUME NEW i \in 1..Len(bus') PROVE bus'[i].serial # call.serial
        BY <1>2, <1>5 DEF CtlInv, CallsOK
      <4> QED BY <4>1, <4>2, <4>3
    <3> QED BY <3>1, <3>2
  <2>2. ASSUME NEW r \in replies', NEW q \in replies', r.user = q.user PROVE r = q
    <3>1. ASSUME NEW x \in replies, NEW y \in Reply(call) PROVE x.user # y.user
      <4>1. y.user = call.user /\ call.serial = serial[call.user]
        BY <1>2, ReplyFacts DEF Own
      <4> QED BY <1>2, <4>1 DEF CtlInv, RepliesOK, Own
    <3>2. CASE commit' # None
      BY <1>3, <2>2, <3>2 DEF CtlInv, RepliesOK
    <3>3. CASE replies' = replies \cup Reply(call)
      BY <1>2, <2>2, <3>1, <3>3, ReplyFacts DEF CtlInv, RepliesOK
    <3> QED BY <1>3, <3>2, <3>3
  <2> QED BY <1>1, <2>1, <2>2 DEF RepliesOK, Own
<1>9. AnswerOnItsWay'
  <2> SUFFICES ASSUME NEW w \in Users, exit[w] = "waiting", command[w].verb # "start"
               PROVE  \/ \E i \in DOMAIN bus' : bus'[i].user = w /\ bus'[i].serial = serial[w]
                      \/ serving' # None /\ serving'.user = w /\ serving'.serial = serial[w]
                      \/ \E x \in acting : x.user = w /\ x.serial = serial[w]
                      \/ \E r \in replies' : r.user = w
                      \/ daemon = "aborted"
    BY <1>1, <1>4 DEF AnswerOnItsWay
  <2>1. DOMAIN bus = 1..Len(bus) /\ DOMAIN bus' = 1..Len(bus')
    BY <1>1, <1>7 DEF CallsOK
  <2>2. CASE \E r \in replies : r.user = w
    BY <1>3, <2>2
  <2>3. ASSUME NEW i \in DOMAIN bus, bus[i].user = w, bus[i].serial = serial[w], i # 1
        PROVE  \E j \in DOMAIN bus' : bus'[j].user = w /\ bus'[j].serial = serial[w]
    <3>1. i - 1 \in 1..Len(bus') /\ bus'[i - 1] = bus[i]
      BY <1>1, <2>1, <2>3, TailFacts
    <3> QED BY <2>1, <2>3, <3>1
  <2>4. CASE call.user = w /\ call.serial = serial[w]
    <3>1. \E r \in Reply(call) : r.user = w
      BY <1>2, <2>4, ReplyFacts DEF Own
    <3> QED BY <1>2, <1>3, <2>4, <3>1
  <2> QED BY <1>1, <1>2, <2>2, <2>3, <2>4 DEF CtlInv, AnswerOnItsWay
<1>10. ActingOK'
  <2>1. ASSUME NEW x \in acting
        PROVE  /\ CallOK(x)' /\ x.serial # call.serial
               /\ \A i \in 1..Len(bus') : bus'[i].serial # x.serial
    BY <1>1, <1>2, <1>5, CallKeeps DEF CtlInv, ActingOK
  <2>2. ASSUME NEW x \in acting, NEW r \in replies', x.user = r.user PROVE x.serial # serial[x.user]
    <3>1. CASE r \in replies
      BY <2>2, <3>1 DEF CtlInv, ActingOK, Own
    <3>2. CASE r \in Reply(call)
      <4>1. r.user = call.user /\ call.serial = serial[call.user]
        BY <1>2, <3>2, ReplyFacts DEF Own
      <4> QED BY <2>1, <2>2, <4>1
    <3> QED BY <1>3, <3>1, <3>2
  <2> QED BY <1>1, <1>3, <2>1, <2>2 DEF CtlInv, ActingOK, Own
<1> QED BY <1>4, <1>6, <1>7, <1>8, <1>9, <1>10 DEF CtlInv

(* An operation of the commit, or its end, which is answered. *)
LEMMA ServeCommitInv == ASSUME CtlInv, ServeCommit PROVE CtlInv'
<1>1. /\ serving # None /\ serving \in Calls /\ CallOK(serving) /\ serving.command.verb = "commit"
      /\ UNCHANGED <<command, exit, count, serial, bus, acting, issued>>
      /\ commit # None /\ serving.command.token.id = commit.id
      /\ bus \in Seq(Calls)
  BY DEF CtlInv, CallsOK, CallOK, CtlTypeOK, ServeCommit
<1>2. \/ commit' = None /\ replies' = replies \cup Reply(serving) /\ serving' = None
      \/ commit' # None /\ replies' = replies /\ serving' = serving
  BY DEF ServeCommit
<1>3. IInv'
  BY CommitApplyIInv, CommitEndIInv DEF CtlInv, ServeCommit
<1>4. /\ DOMAIN open' \subseteq DOMAIN open
      /\ commit' # None => commit'.id = commit.id
      /\ daemon = "aborted" => daemon' = "aborted"
  BY DEF ServeCommit, CommitApply, CommitEnd
<1>5. CtlTypeOK'
  BY <1>1, <1>2, <1>3, <1>4 DEF CtlInv, CtlTypeOK, IInv
<1>6. CallsOK'
  <2>1. ASSUME NEW x, CallOK(x) PROVE CallOK(x)'
    BY <1>1, <2>1, CallKeeps
  <2>2. ASSUME NEW i \in 1..Len(bus') PROVE CallOK(bus[i])'
    <3>1. ASSUME NEW x, x = bus[i] PROVE CallOK(x)'
      BY <1>1, <2>1, <3>1 DEF CtlInv, CallsOK
    <3> QED BY <1>1, <3>1 DEF CallOK, Own
  <2>3. serving' # None => CallOK(serving)'
    <3>1. ASSUME NEW x, x = serving PROVE CallOK(x)'
      BY <1>1, <2>1, <3>1
    <3> QED BY <1>2, <3>1 DEF CallOK, Own
  <2> QED BY <1>1, <1>2, <2>2, <2>3 DEF CtlInv, CallsOK
<1>7. RepliesOK'
  <2>1. ASSUME NEW r \in replies'
        PROVE  /\ r \in Replies /\ exit[r.user] = "waiting"
               /\ \A i \in 1..Len(bus) : bus[i].user = r.user => bus[i].serial # serial[bus[i].user]
               /\ serving' # None /\ serving'.user = r.user => serving'.serial # serial[serving'.user]
    <3>1. CASE r \in replies
      BY <1>2, <3>1 DEF CtlInv, RepliesOK, Own
    <3>2. CASE r \notin replies
      <4>1. r \in Reply(serving) /\ serving' = None
        BY <1>2, <3>2
      <4>2. r \in Replies /\ r.user = serving.user /\ exit[serving.user] = "waiting" /\ serving.serial = serial[serving.user]
        BY <1>1, <4>1, ReplyFacts DEF Own
      <4> QED BY <1>1, <4>1, <4>2 DEF CtlInv, CallsOK
    <3> QED BY <3>1, <3>2
  <2>2. ASSUME NEW r \in replies', NEW q \in replies', r.user = q.user PROVE r = q
    <3>1. ASSUME NEW x \in replies, NEW y \in Reply(serving) PROVE x.user # y.user
      <4>1. y.user = serving.user /\ serving.serial = serial[serving.user]
        BY <1>1, ReplyFacts DEF Own
      <4> QED BY <1>1, <4>1 DEF CtlInv, RepliesOK, Own
    <3>2. CASE commit' # None
      BY <1>2, <2>2, <3>2 DEF CtlInv, RepliesOK
    <3>3. CASE replies' = replies \cup Reply(serving)
      BY <1>1, <2>2, <3>1, <3>3, ReplyFacts DEF CtlInv, RepliesOK
    <3> QED BY <1>2, <3>2, <3>3
  <2> QED BY <1>1, <2>1, <2>2 DEF RepliesOK, Own
<1>8. AnswerOnItsWay'
  <2> SUFFICES ASSUME NEW w \in Users, exit[w] = "waiting", command[w].verb # "start"
               PROVE  \/ \E i \in DOMAIN bus : bus[i].user = w /\ bus[i].serial = serial[w]
                      \/ serving' # None /\ serving'.user = w /\ serving'.serial = serial[w]
                      \/ \E x \in acting : x.user = w /\ x.serial = serial[w]
                      \/ \E r \in replies' : r.user = w
                      \/ daemon' = "aborted"
    BY <1>1 DEF AnswerOnItsWay
  <2>1. CASE serving.user = w /\ serving.serial = serial[w]
    <3>1. \E r \in Reply(serving) : r.user = w
      BY <1>1, <2>1, ReplyFacts DEF Own
    <3> QED BY <1>1, <1>2, <2>1, <3>1
  <2>2. CASE \E r \in replies : r.user = w
    BY <1>2, <2>2
  <2> QED BY <1>4, <2>1, <2>2 DEF CtlInv, AnswerOnItsWay
<1>9. ActingOK'
  <2>1. ASSUME NEW x \in acting PROVE CallOK(x)' /\ x.serial # serving.serial
    BY <1>1, CallKeeps DEF CtlInv, ActingOK
  <2>2. ASSUME NEW x \in acting, NEW r \in replies', x.user = r.user PROVE x.serial # serial[x.user]
    <3>1. CASE r \in replies
      BY <2>2, <3>1 DEF CtlInv, ActingOK, Own
    <3>2. CASE r \in Reply(serving)
      <4>1. r.user = serving.user /\ serving.serial = serial[serving.user]
        BY <1>1, <3>2, ReplyFacts DEF Own
      <4> QED BY <2>1, <2>2, <4>1
    <3> QED BY <1>2, <3>1, <3>2
  <2> QED BY <1>1, <1>2, <2>1, <2>2 DEF CtlInv, ActingOK, Own
<1> QED BY <1>3, <1>5, <1>6, <1>7, <1>8, <1>9 DEF CtlInv

(* What is left when the first call has been read: the other calls, as they were. *)
LEMMA ReadFacts ==
    ASSUME CtlInv, bus # <<>>, serving = None, serving' = None, bus' = Tail(bus),
           UNCHANGED <<command, count, serial>>
    PROVE  /\ CallsOK'
           /\ Head(bus) \in Calls /\ CallOK(Head(bus))
           /\ \A i \in 1..Len(bus') :
                 bus'[i].serial # Head(bus).serial /\ \E j \in 1..Len(bus) : bus'[i] = bus[j]
           /\ DOMAIN bus = 1..Len(bus) /\ DOMAIN bus' = 1..Len(bus')
           /\ \A i \in 1..Len(bus) : bus[i] = Head(bus) \/ \E j \in 1..Len(bus') : bus'[j] = bus[i]
           /\ \A x \in acting : x.serial # Head(bus).serial
<1>1. bus \in Seq(Calls)
  BY DEF CtlInv, CallsOK
<1>2. /\ Head(bus) = bus[1] /\ 1 \in 1..Len(bus) /\ Head(bus) \in Calls
      /\ bus' \in Seq(Calls)
      /\ \A i \in 1..Len(bus') : i + 1 \in 1..Len(bus) /\ i + 1 # 1 /\ bus'[i] = bus[i + 1]
      /\ \A i \in 1..Len(bus) : i # 1 => i - 1 \in 1..Len(bus') /\ bus'[i - 1] = bus[i]
  BY <1>1, TailFacts
<1>3. ASSUME NEW i \in 1..Len(bus') PROVE CallOK(bus[i])'
  <2>1. ASSUME NEW x, x = bus'[i] PROVE CallOK(x)'
    BY <1>2, <2>1, CallKeeps DEF CtlInv, CallsOK
  <2> QED BY <2>1 DEF CallOK, Own
<1>4. ASSUME NEW i \in 1..Len(bus'), NEW j \in 1..Len(bus'), bus'[i].serial = bus'[j].serial PROVE i = j
  <2>1. i + 1 = j + 1
    BY <1>2, <1>4 DEF CtlInv, CallsOK
  <2> QED BY <2>1
<1>5. CallsOK'
  BY <1>2, <1>3, <1>4 DEF CallsOK
<1>6. ASSUME NEW i \in 1..Len(bus')
      PROVE  bus'[i].serial # Head(bus).serial /\ \E j \in 1..Len(bus) : bus'[i] = bus[j]
  BY <1>2 DEF CtlInv, CallsOK
<1>7. ASSUME NEW i \in 1..Len(bus) PROVE bus[i] = Head(bus) \/ \E j \in 1..Len(bus') : bus'[j] = bus[i]
  BY <1>2
<1>8. CallOK(Head(bus)) /\ \A x \in acting : x.serial # Head(bus).serial
  BY <1>2 DEF CtlInv, CallsOK, ActingOK
<1>9. DOMAIN bus = 1..Len(bus) /\ DOMAIN bus' = 1..Len(bus')
  BY <1>1, <1>2
<1> QED BY <1>2, <1>5, <1>6, <1>7, <1>8, <1>9

(* The daemon asks for the uid of a sender that has left the bus, and aborts. *)
LEMMA ServeSenderGoneInv == ASSUME CtlInv, ServeSenderGone PROVE CtlInv'
<1>1. /\ bus # <<>> /\ serving = None /\ serving' = None /\ bus' = Tail(bus)
      /\ UNCHANGED <<command, exit, count, serial, acting, replies, issued>>
      /\ SenderGone
  BY DEF ServeSenderGone
<1>2. daemon' = "aborted" /\ answer' = "none" /\ UNCHANGED <<saved, running, open, commit>>
  BY <1>1 DEF SenderGone
<1>3. IInv'
  BY <1>2, AbortsIInv DEF CtlInv
<1>4. CtlTypeOK'
  BY <1>1, <1>2, <1>3 DEF CtlInv, CtlTypeOK, IInv
<1>5. CallsOK'
  BY <1>1, ReadFacts
<1>6. ASSUME NEW i \in 1..Len(bus') PROVE \E j \in 1..Len(bus) : bus'[i] = bus[j]
  BY <1>1, ReadFacts
<1>7. RepliesOK'
  BY <1>1, <1>6 DEF CtlInv, RepliesOK, Own
<1>8. ActingOK'
  <2>1. ASSUME NEW x \in acting PROVE CallOK(x)'
    BY <1>1, CallKeeps DEF CtlInv, ActingOK
  <2> QED BY <1>1, <1>6, <2>1 DEF CtlInv, ActingOK, Own
<1>9. AnswerOnItsWay'
  BY <1>2 DEF AnswerOnItsWay
<1> QED BY <1>3, <1>4, <1>5, <1>7, <1>8, <1>9 DEF CtlInv

(* A Start or a Stop begins: its call is now the coroutine's. *)
LEMMA ActionBeginsInv == ASSUME CtlInv, action_handler PROVE CtlInv'
<1>1. PICK call : call = Head(bus)
  OBVIOUS
<1>2. /\ bus # <<>> /\ serving = None /\ serving' = None /\ bus' = Tail(bus)
      /\ UNCHANGED <<vars, command, exit, count, serial, replies, issued>>
      /\ acting' = acting \cup {call} /\ call.command.verb \in {"start", "stop"}
  BY <1>1 DEF action_handler
<1>3. /\ CallsOK' /\ call \in Calls /\ CallOK(call)
      /\ \A i \in 1..Len(bus') :
            bus'[i].serial # call.serial /\ \E j \in 1..Len(bus) : bus'[i] = bus[j]
      /\ DOMAIN bus = 1..Len(bus) /\ DOMAIN bus' = 1..Len(bus')
      /\ \A i \in 1..Len(bus) : bus[i] = call \/ \E j \in 1..Len(bus') : bus'[j] = bus[i]
      /\ \A x \in acting : x.serial # call.serial
  BY <1>1, <1>2, ReadFacts
<1>4. IInv' /\ UNCHANGED <<daemon, open, commit>>
  BY <1>2, NextIInv DEF CtlInv, vars
<1>5. CtlTypeOK'
  BY <1>2, <1>4 DEF CtlInv, CtlTypeOK, IInv
<1>6. RepliesOK'
  BY <1>2, <1>3 DEF CtlInv, RepliesOK, Own
<1>7. ActingOK'
  <2>1. ASSUME NEW x \in acting' PROVE CallOK(x)' /\ x.command.verb \in {"start", "stop"}
    BY <1>2, <1>3, CallKeeps DEF CtlInv, ActingOK
  <2>2. ASSUME NEW x \in acting', NEW i \in 1..Len(bus') PROVE bus'[i].serial # x.serial
    BY <1>2, <1>3 DEF CtlInv, ActingOK
  <2>3. ASSUME NEW x \in acting', NEW y \in acting', x.serial = y.serial PROVE x = y
    BY <1>2, <1>3, <2>3 DEF CtlInv, ActingOK
  <2>4. ASSUME NEW x \in acting', NEW r \in replies, x.user = r.user PROVE x.serial # serial[x.user]
    <3>1. CASE x \in acting
      BY <2>4, <3>1 DEF CtlInv, ActingOK, Own
    <3>2. CASE x = call
      <4>1. PICK i \in 1..Len(bus) : bus[i] = call
        <5>1. bus \in Seq(Calls)
          BY DEF CtlInv, CallsOK
        <5> QED BY <1>1, <1>2, <5>1, TailFacts
      <4> QED BY <2>4, <3>2, <4>1 DEF CtlInv, RepliesOK, Own
    <3> QED BY <1>2, <3>1, <3>2
  <2> QED BY <1>2, <2>1, <2>2, <2>3, <2>4 DEF ActingOK, Own
<1>8. AnswerOnItsWay'
  <2> SUFFICES ASSUME NEW w \in Users, exit[w] = "waiting", command[w].verb # "start"
               PROVE  \/ \E i \in DOMAIN bus' : bus'[i].user = w /\ bus'[i].serial = serial[w]
                      \/ \E x \in acting' : x.user = w /\ x.serial = serial[w]
                      \/ \E r \in replies : r.user = w
                      \/ daemon = "aborted"
    BY <1>2, <1>4 DEF AnswerOnItsWay
  <2>1. ASSUME NEW i \in DOMAIN bus, bus[i].user = w, bus[i].serial = serial[w]
        PROVE  \/ \E j \in DOMAIN bus' : bus'[j].user = w /\ bus'[j].serial = serial[w]
               \/ \E x \in acting' : x.user = w /\ x.serial = serial[w]
    <3>1. CASE bus[i] = call
      BY <1>2, <2>1, <3>1
    <3>2. CASE \E j \in 1..Len(bus') : bus'[j] = bus[i]
      BY <1>3, <2>1, <3>2
    <3> QED BY <1>3, <3>1, <3>2
  <2> QED BY <1>2, <2>1 DEF CtlInv, AnswerOnItsWay
<1> QED BY <1>3, <1>4, <1>5, <1>6, <1>7, <1>8 DEF CtlInv

(* The end of a Start or a Stop: only a Start ends without an answer and with the daemon alive. *)
LEMMA ActionEndsInv == ASSUME CtlInv, NEW call \in acting, ActionEnds(call) PROVE CtlInv'
<1>1. /\ UNCHANGED <<command, exit, count, serial, bus, serving, issued>>
      /\ acting' = acting \ {call} /\ commit = None
      /\ bus \in Seq(Calls)
  BY DEF ActionEnds, Idle, CtlInv, CallsOK
<1>2. CallOK(call) /\ call \in Calls
  BY DEF CtlInv, ActingOK, CallOK
<1>3. \/ \E a \in {"ok", "failed"} : Answers(a) /\ replies' = replies \cup Reply(call)
      \/ call.command.verb = "start" /\ UNCHANGED <<vars, replies>>
      \/ daemon' = "aborted" /\ UNCHANGED <<saved, running, open, commit, answer, replies>>
  BY DEF ActionEnds
<1>4. IInv' /\ UNCHANGED <<open, commit>> /\ (daemon = "aborted" => daemon' = "aborted")
  <2>1. ASSUME NEW a \in {"ok", "failed"}, Answers(a)
        PROVE  IInv' /\ UNCHANGED <<open, commit, daemon>>
    BY <2>1, AnswersIInv DEF CtlInv, Answers, Answer
  <2>2. CASE UNCHANGED vars
    BY <2>2, NextIInv DEF CtlInv, vars
  <2>3. CASE daemon' = "aborted" /\ UNCHANGED <<saved, running, open, commit, answer>>
    BY <2>3, AbortsIInv DEF CtlInv
  <2> QED BY <1>3, <2>1, <2>2, <2>3
<1>5. CtlTypeOK'
  BY <1>1, <1>4 DEF CtlInv, CtlTypeOK, IInv
<1>6. CallsOK'
  BY <1>1 DEF CtlInv, CallsOK, CallOK, Own
<1>7. /\ replies' = replies \/ replies' = replies \cup Reply(call)
      /\ Reply(call) \subseteq Replies
      /\ \A r \in Reply(call) :
            r.user = call.user /\ exit[call.user] = "waiting" /\ call.serial = serial[call.user]
      /\ \A r, q \in Reply(call) : r = q
  BY <1>2, <1>3, ReplyFacts DEF Own
<1>8. RepliesOK'
  <2>1. ASSUME NEW r \in replies'
        PROVE  /\ r \in Replies /\ exit[r.user] = "waiting"
               /\ \A i \in 1..Len(bus) : bus[i].user = r.user => bus[i].serial # serial[bus[i].user]
               /\ serving # None /\ serving.user = r.user => serving.serial # serial[serving.user]
    <3>1. CASE r \in replies
      BY <3>1 DEF CtlInv, RepliesOK, Own
    <3>2. CASE r \in Reply(call)
      BY <1>7, <3>2 DEF CtlInv, ActingOK
    <3> QED BY <1>7, <3>1, <3>2
  <2>2. ASSUME NEW r \in replies', NEW q \in replies', r.user = q.user PROVE r = q
    <3>1. ASSUME NEW x \in replies, NEW y \in Reply(call) PROVE x.user # y.user
      BY <1>7 DEF CtlInv, ActingOK, Own
    <3> QED BY <1>7, <2>2, <3>1 DEF CtlInv, RepliesOK
  <2> QED BY <1>1, <2>1, <2>2 DEF RepliesOK, Own
<1>9. ActingOK'
  <2>1. ASSUME NEW x \in acting' PROVE x \in acting /\ CallOK(x)' /\ x.serial # call.serial
    BY <1>1, CallKeeps DEF CtlInv, ActingOK
  <2>2. ASSUME NEW x \in acting', NEW r \in replies', x.user = r.user PROVE x.serial # serial[x.user]
    <3>1. CASE r \in replies
      BY <2>1, <2>2, <3>1 DEF CtlInv, ActingOK, Own
    <3>2. CASE r \in Reply(call)
      BY <1>7, <2>1, <2>2, <3>2
    <3> QED BY <1>7, <3>1, <3>2
  <2> QED BY <1>1, <2>1, <2>2 DEF CtlInv, ActingOK, Own
<1>10. AnswerOnItsWay'
  <2> SUFFICES ASSUME NEW w \in Users, exit[w] = "waiting", command[w].verb # "start"
               PROVE  \/ \E i \in DOMAIN bus : bus[i].user = w /\ bus[i].serial = serial[w]
                      \/ serving # None /\ serving.user = w /\ serving.serial = serial[w]
                      \/ \E x \in acting' : x.user = w /\ x.serial = serial[w]
                      \/ \E r \in replies' : r.user = w
                      \/ daemon' = "aborted"
    BY <1>1 DEF AnswerOnItsWay
  <2>1. CASE call.user = w /\ call.serial = serial[w]
    <3>1. call.command = command[w]
      BY <1>2, <2>1 DEF CallOK, Own
    <3>2. \E r \in Reply(call) : r.user = w
      BY <1>2, <2>1, ReplyFacts DEF Own
    <3> QED BY <1>3, <3>1, <3>2
  <2>2. CASE \E r \in replies : r.user = w
    BY <1>7, <2>2
  <2> QED BY <1>1, <1>4, <2>1, <2>2 DEF CtlInv, AnswerOnItsWay
<1> QED BY <1>4, <1>5, <1>6, <1>8, <1>9, <1>10 DEF CtlInv

(* An invocation ends: by its answer, by a timeout, or because the daemon is gone. *)
LEMMA ExitsInv ==
    ASSUME CtlInv, NEW u \in Users, Receive(u) \/ TimesOut(u) \/ DaemonGone(u)
    PROVE  CtlInv'
<1>1. PICK status \in {"0", "1"} : Exits(u, status)
  BY DEF Receive, TimesOut, DaemonGone, Status
<1>2. replies' = {r \in replies : r.user # u}
  <2>1. CASE Receive(u)
    BY <2>1 DEF Receive, CtlInv, RepliesOK
  <2> QED BY <2>1 DEF TimesOut, DaemonGone
<1>3. /\ UNCHANGED <<vars, command, count, serial, bus, serving, acting, issued>>
      /\ exit' = [exit EXCEPT ![u] = status] /\ exit[u] = "waiting"
      /\ exit \in [Users -> {"none", "waiting", "0", "1"}]
      /\ bus \in Seq(Calls)
  BY <1>1 DEF Exits, CtlInv, CtlTypeOK, CallsOK
<1>4. exit'[u] # "waiting" /\ \A w \in Users : w # u => exit'[w] = exit[w]
  BY <1>3
<1>5. IInv'
  BY <1>3, NextIInv DEF CtlInv
<1>6. CtlTypeOK'
  BY <1>3, <1>5 DEF CtlInv, CtlTypeOK, IInv, vars
<1>7. CallsOK'
  BY <1>3 DEF CtlInv, CallsOK, CallOK, Own
<1>8. RepliesOK'
  BY <1>2, <1>3, <1>4 DEF CtlInv, RepliesOK, Own, Replies
<1>9. AnswerOnItsWay'
  BY <1>2, <1>3, <1>4 DEF CtlInv, AnswerOnItsWay, vars
<1>10. ActingOK'
  BY <1>2, <1>3 DEF CtlInv, ActingOK, CallOK, Own
<1> QED BY <1>5, <1>6, <1>7, <1>8, <1>9, <1>10 DEF CtlInv

(* Every step of a user or of the daemon keeps the invariant. *)
LEMMA CtlNextInv == CtlInv /\ [CtlNext]_ctlVars => CtlInv'
<1> SUFFICES ASSUME CtlInv, [CtlNext]_ctlVars PROVE CtlInv'
  OBVIOUS
<1>1. CASE UNCHANGED ctlVars
  <2>1. IInv'
    BY <1>1, NextIInv DEF CtlInv, ctlVars
  <2>2. CtlTypeOK'
    BY <1>1, <2>1 DEF CtlInv, CtlTypeOK, IInv, ctlVars, clientVars, vars
  <2> QED BY <1>1, <2>1, <2>2 DEF CtlInv, CallsOK, CallOK, RepliesOK, ActingOK, AnswerOnItsWay, Own, ctlVars, clientVars, vars
<1>2. CASE \E u \in Users : Receive(u) \/ TimesOut(u) \/ DaemonGone(u)
  BY <1>2, ExitsInv
<1>3. CASE \E u \in Users : \E c \in Commands : Invoke(u, c)
  BY <1>3, InvokeInv
<1> QED
  BY <1>1, <1>2, <1>3, ServeInv, ServeSenderGoneInv, ServeCommitInv, ActionBeginsInv, ActionEndsInv
     DEF CtlNext

(* The inductive invariant holds in every reachable state. *)
LEMMA CtlInvariance == CtlSpec => []CtlInv
BY CtlInitInv, CtlNextInv, PTL DEF CtlSpec

-----------------------------------------------------------------------------
(* Types; and the daemon executes a commit exactly while it serves the call that asked for it. *)
THEOREM NonsensectlTypeCorrect == CtlSpec => []CtlTypeOK
<1>1. CtlInv => CtlTypeOK
  BY DEF CtlInv
<1> QED BY <1>1, CtlInvariance, PTL

(***************************************************************************)
(* No invocation of nonsensectl other than start waits for an answer that  *)
(* nobody owes it: only a Start is ever forgotten by a daemon that lives.  *)
(***************************************************************************)
THEOREM NonsensectlAnswered == CtlSpec => []AnswerOnItsWay
<1>1. CtlInv => AnswerOnItsWay
  BY DEF CtlInv
<1> QED BY <1>1, CtlInvariance, PTL

-----------------------------------------------------------------------------
(***************************************************************************)
(* The constant None stands for the absence of a commit, so it must be     *)
(* told from every commit that is being executed.                          *)
(***************************************************************************)
NoneIsNoCommit == \A id, copy, next : [id |-> id, copy |-> copy, next |-> next] # None

(* config::add stores the entity it has built. *)
LEMMA AddStores ==
    ASSUME NEW config, NEW name, NEW parameters, Add(config, name, parameters).status = "ok"
    PROVE  LET after == Add(config, name, parameters).config IN
           /\ name \in DOMAIN after /\ after[name] = BuildEntity(parameters).json
           /\ after[name][<<>>] = Object
<1> DEFINE json  == BuildEntity(parameters).json
           added == With(config, name, json)
<1>1. Add(config, name, parameters).config = Claim(added, name, json) /\ json[<<>>] = Object
  BY DEF Add, Outcome, EntityValid
<1> HIDE DEF json
<1>2. name \in DOMAIN added /\ added[name] = json
  BY DEF With
<1> HIDE DEF added
<1>3. Grows(added, Claim(added, name, json))
  BY ClaimFacts
<1> QED BY <1>1, <1>2, <1>3, NodeFacts DEF Grows, json

(* An entity that was applied stays as it is in a tree that grows. *)
LEMMA AppliedGrows ==
    ASSUME NEW a, NEW config, NEW bigger, Applied(a, config), Grows(config, bigger)
    PROVE  Applied(a, bigger)
BY NodeFacts DEF Applied, Grows

(* What an operation was recorded for stays recorded until its transaction is closed. *)
LEMMA RecordedKeeps ==
    ASSUME NEW a, Recorded(a), issued \subseteq issued',
           a.id \in DOMAIN open' =>
               /\ a.id \in DOMAIN open
               /\ \A i \in 1..Len(open[a.id].ops) :
                     i \in 1..Len(open'[a.id].ops) /\ open'[a.id].ops[i] = open[a.id].ops[i]
    PROVE  Recorded(a)'
BY DEF Recorded

(* Calls on transactions forget no operation of one that stays open, and a successful add records its own. *)
LEMMA MethodRecords ==
    ASSUME IInv, NEW uid \in Uids, NEW c \in Commands, ~Usage(c), Method(uid, c), DOMAIN open \subseteq issued
    PROVE  /\ \A a : Recorded(a) => Recorded(a)'
           /\ c.verb = "add" /\ answer' = "ok" => Recorded(Added(c))'
<1>1. CASE UNCHANGED <<open, issued>> /\ ~(c.verb = "add" /\ answer' = "ok")
  BY <1>1 DEF Recorded
<1>2. CASE c.verb = "get new-transaction-token" /\ get_transaction_token(uid)
  <2>1. ASSUME NEW id \in Ids \ issued, New(uid, id), issued' = issued \cup {id}, NEW a, Recorded(a)
        PROVE  Recorded(a)'
    <3>1. a.id # id /\ issued \subseteq issued'
      BY <2>1 DEF Recorded
    <3>2. a.id \in DOMAIN open' => a.id \in DOMAIN open /\ open'[a.id] = open[a.id]
      BY <2>1, <3>1 DEF New
    <3> QED BY <2>1, <3>1, <3>2, RecordedKeeps
  <2> QED BY <1>1, <1>2, <2>1 DEF get_transaction_token, CallFails, Answers
<1>3. CASE c.verb = "add" /\ add_handler(uid, c) /\ UNCHANGED issued
  <2>1. ASSUME NEW id \in Named(c), AddOperation(uid, id, c.name, c.parameters), May(uid, id)
        PROVE  (\A a : Recorded(a) => Recorded(a)') /\ Recorded(Added(c))'
    <3> DEFINE op == [name |-> c.name, parameters |-> c.parameters]
    <3>1. /\ id \in DOMAIN open /\ open[id] \in Transaction /\ op \in Operation
          /\ c.token.id = id /\ id \in issued
      BY <1>3, NonsensectlAssumption DEF IInv, TypeOK, Named, Operation
    <3>2. open[id].ops \in Seq(Operation) /\ op.name = c.name /\ op.parameters = c.parameters
      BY <3>1 DEF Transaction
    <3>3. open' = [open EXCEPT ![id].ops = Append(open[id].ops, op)]
      BY <2>1 DEF AddOperation
    <3> HIDE DEF op
    <3>4. /\ DOMAIN open' = DOMAIN open
          /\ open'[id].ops = Append(open[id].ops, op)
          /\ \A i \in DOMAIN open : i # id => open'[i] = open[i]
      BY <3>1, <3>3 DEF Transaction
    <3>5. /\ Len(open[id].ops) \in Nat
          /\ Len(open'[id].ops) = Len(open[id].ops) + 1
          /\ \A i \in 1..Len(open[id].ops) : open'[id].ops[i] = open[id].ops[i]
          /\ open'[id].ops[Len(open[id].ops) + 1] = op
      BY <3>1, <3>2, <3>4
    <3>6. ASSUME NEW a, Recorded(a) PROVE Recorded(a)'
      <4>1. CASE a.id = id
        <5>1. a.id \in DOMAIN open' => a.id \in DOMAIN open
          BY <3>4
        <5>2. \A i \in 1..Len(open[a.id].ops) : i \in 1..Len(open'[a.id].ops) /\ open'[a.id].ops[i] = open[a.id].ops[i]
          BY <3>5, <4>1
        <5> QED BY <1>3, <3>6, <5>1, <5>2 DEF Recorded
      <4>2. CASE a.id # id
        BY <1>3, <3>4, <3>6, <4>2, RecordedKeeps
      <4> QED BY <4>1, <4>2
    <3>7. Recorded(Added(c))'
      <4>1. Added(c).id = id /\ Added(c).name = c.name /\ Added(c).parameters = c.parameters
        BY <3>1 DEF Added
      <4>2. Len(open[id].ops) + 1 \in 1..Len(open'[id].ops)
        BY <3>5
      <4> QED BY <1>3, <3>1, <3>2, <3>5, <4>1, <4>2 DEF Recorded
    <3> QED BY <3>6, <3>7
  <2>2. ASSUME NEW id \in Named(c), AddOperation(uid, id, c.name, c.parameters), ~May(uid, id)
        PROVE  UNCHANGED open /\ answer' # "ok"
    BY <2>2 DEF AddOperation, Answers
  <2>3. CASE CallFails
    BY <1>1, <1>3, <2>3 DEF CallFails, Answers
  <2> QED BY <1>1, <1>3, <2>1, <2>2, <2>3 DEF add_handler
<1>4. CASE c.verb = "commit" /\ CommitBegin(uid, c.token.id) /\ UNCHANGED issued
  BY <1>1, <1>4 DEF CommitBegin, Answers
<1>5. CASE c.verb = "discard" /\ Discard(uid, c.token.id) /\ UNCHANGED issued
  <2>1. ASSUME NEW a, Recorded(a), open' = [i \in DOMAIN open \ {c.token.id} |-> open[i]] PROVE Recorded(a)'
    BY <1>5, <2>1, RecordedKeeps
  <2> QED BY <1>1, <1>5, <2>1 DEF Discard, Answers
<1> QED BY <1>1, <1>2, <1>3, <1>4, <1>5
    DEF Method, get_property, locking_handler, finalize_handler, CallFails, Answers

(* A commit begins with its first operation, and one that does not begin has failed. *)
LEMMA MethodCommits ==
    ASSUME NoneIsNoCommit, NEW uid \in Uids, NEW c \in Commands, Method(uid, c)
    PROVE  /\ commit' # None => commit'.next = 1
           /\ c.verb = "commit" /\ commit' = None => answer' # "ok"
<1>1. CASE c.verb = "commit"
  <2>1. CommitBegin(uid, c.token.id)
    BY <1>1 DEF Method, finalize_handler
  <2>2. CASE commit' = [id |-> c.token.id, copy |-> running, next |-> 1]
    BY <2>2 DEF NoneIsNoCommit
  <2> QED BY <2>1, <2>2 DEF CommitBegin, Idle, Answers
<1>2. CASE c.verb # "commit"
  BY <1>2 DEF Method, get_transaction_token, get_property, add_handler, finalize_handler, locking_handler,
     New, CallFails, AddOperation, Discard, Answers, Idle
<1> QED BY <1>1, <1>2

(* Before the first command nothing has been acknowledged. *)
LEMMA HistoryInit == CtlInit => HistoryInv
BY DEF CtlInit, Init, HistoryInv, CopyHolds, AddsRecorded, PromisesOK, CommitsApplied

(* A commit is run: it promises what has been acknowledged so far. *)
LEMMA HistoryInvoke ==
    ASSUME CtlInv, HistoryInv, NEW u \in Users, NEW c \in Commands, Invoke(u, c)
    PROVE  HistoryInv'
<1> DEFINE P == IF c.verb = "commit" /\ IsNumber(c.token) THEN AckedFor(c.token.id) ELSE {}
<1>1. /\ UNCHANGED <<vars, replies, issued, acked>>
      /\ command' = [command EXCEPT ![u] = c] /\ promised' = [promised EXCEPT ![u] = P]
      /\ command \in [Users -> Commands \cup {None}]
      /\ exit \in [Users -> {"none", "waiting", "0", "1"}] /\ exit[u] # "waiting"
  BY DEF Invoke, CtlInv, CtlTypeOK
<1>2. /\ command'[u] = c /\ \A w \in Users : w # u => command'[w] = command[w] /\ exit'[w] = exit[w]
      /\ exit'[u] \in {"1", "waiting"}
  BY <1>1 DEF Invoke
<1>3. \A a \in P : a \in acked /\ c.verb = "commit" /\ a.id = c.token.id
  BY DEF AckedFor
<1> HIDE DEF P
<1>4. \A w \in Users : promised'[w] = IF w = u THEN P ELSE promised[w]
  BY <1>1 DEF HistoryInv, PromisesOK
<1>5. \A r \in replies : r.user \in Users /\ r.user # u
  BY <1>1 DEF CtlInv, RepliesOK, Replies
<1>6. CopyHolds'
  BY <1>1 DEF HistoryInv, CopyHolds, vars, Operations
<1>7. AddsRecorded'
  <2>1. ASSUME NEW a, Recorded(a) PROVE Recorded(a)'
    BY <1>1, <2>1 DEF Recorded, vars
  <2>2. ASSUME NEW r \in replies, r.ok, command'[r.user].verb = "add"
        PROVE  Recorded(Added(command[r.user]))'
    <3>1. command'[r.user] = command[r.user]
      BY <1>2, <1>5
    <3>2. ASSUME NEW x, x = command[r.user] PROVE Recorded(Added(x))'
      BY <2>1, <2>2, <3>1, <3>2 DEF HistoryInv, AddsRecorded
    <3> QED BY <3>1, <3>2 DEF Recorded, Added
  <2> QED BY <1>1, <2>1, <2>2 DEF HistoryInv, AddsRecorded
<1>8. PromisesOK'
  BY <1>1, <1>2, <1>3, <1>4 DEF HistoryInv, PromisesOK
<1>9. CommitsApplied'
  BY <1>1, <1>2, <1>4, <1>5 DEF HistoryInv, CommitsApplied, Applied, vars
<1> QED BY <1>6, <1>7, <1>8, <1>9 DEF HistoryInv

(* The answer to a call is the answer to the command its user has run last. *)
LEMMA ReplyIsOwn ==
    ASSUME NEW call, CallOK(call), NEW r \in Reply(call)
    PROVE  r.user = call.user /\ command[r.user] = call.command /\ (r.ok <=> answer' = "ok")
<1>1. call \in Calls
  BY DEF CallOK
<1> QED BY <1>1, ReplyFacts DEF CallOK

(* A call is read: no commit is reported as done before it has been executed. *)
LEMMA HistoryServe ==
    ASSUME NoneIsNoCommit, CtlInv, HistoryInv, Serve
    PROVE  HistoryInv'
<1>1. PICK call : call = Head(bus)
  OBVIOUS
<1>2. call \in Calls /\ CallOK(call)
  <2>1. bus \in Seq(Calls) /\ bus # <<>>
    BY DEF CtlInv, CallsOK, Serve
  <2>2. call = bus[1] /\ 1 \in 1..Len(bus)
    BY <1>1, <2>1, TailFacts
  <2> QED BY <2>2 DEF CtlInv, CallsOK, CallOK
<1>3. /\ Method(Uid[call.user], call.command)
      /\ UNCHANGED <<command, exit, acked, promised>>
      /\ replies' \subseteq replies \cup Reply(call)
      /\ commit' # None => replies' = replies
  BY <1>1 DEF Serve
<1>4. Uid[call.user] \in Uids /\ call.command \in Commands /\ ~Usage(call.command)
  BY <1>2, NonsensectlAssumption DEF CallOK, Calls
<1>5. /\ UNCHANGED running
      /\ \A a : Recorded(a) => Recorded(a)'
      /\ call.command.verb = "add" /\ answer' = "ok" => Recorded(Added(call.command))'
      /\ commit' # None => commit'.next = 1
      /\ call.command.verb = "commit" /\ commit' = None => answer' # "ok"
  BY <1>3, <1>4, MethodFacts, MethodRecords, MethodCommits DEF CtlInv, CtlTypeOK
<1>6. CopyHolds'
  BY <1>5 DEF CopyHolds
<1>7. AddsRecorded'
  <2>1. ASSUME NEW r \in replies', r.ok, command[r.user].verb = "add"
        PROVE  Recorded(Added(command[r.user]))'
    <3>1. ASSUME NEW x, x = command[r.user] PROVE Recorded(Added(x))'
      <4>1. CASE r \in replies
        BY <1>5, <2>1, <3>1, <4>1 DEF HistoryInv, AddsRecorded
      <4>2. CASE r \in Reply(call)
        BY <1>2, <1>5, <2>1, <3>1, <4>2, ReplyIsOwn
      <4> QED BY <1>3, <4>1, <4>2
    <3> QED BY <1>3, <3>1 DEF Recorded, Added
  <2> QED BY <1>3, <1>5, <2>1 DEF HistoryInv, AddsRecorded
<1>8. PromisesOK'
  BY <1>3 DEF HistoryInv, PromisesOK
<1>9. CommitsApplied'
  <2>1. ASSUME NEW r \in replies', r.ok, NEW a \in promised[r.user] PROVE Applied(a, running)
    <3>1. CASE r \in replies
      BY <2>1, <3>1 DEF HistoryInv, CommitsApplied
    <3>2. CASE r \notin replies
      <4>1. r \in Reply(call) /\ commit' = None
        BY <1>3, <3>2
      <4>2. r.user \in Users /\ command[r.user] = call.command /\ answer' = "ok"
        BY <1>2, <2>1, <4>1, ReplyIsOwn DEF Calls
      <4> QED BY <1>5, <2>1, <4>1, <4>2 DEF HistoryInv, PromisesOK
    <3> QED BY <3>1, <3>2
  <2> QED BY <1>3, <1>5, <2>1 DEF HistoryInv, CommitsApplied, Applied
<1> QED BY <1>6, <1>7, <1>8, <1>9 DEF HistoryInv

(* A step that answers no transaction, acknowledges nothing and leaves the transactions alone. *)
LEMMA HistoryKeeps ==
    ASSUME CtlInv, HistoryInv,
           UNCHANGED <<command, exit, issued, acked, promised, running, open, commit>>,
           \A r \in replies' : \/ r \in replies
                               \/ r.user \in Users /\ command[r.user].verb \notin {"add", "commit"}
    PROVE  HistoryInv'
<1>1. ASSUME NEW a, Recorded(a) PROVE Recorded(a)'
  BY <1>1 DEF Recorded
<1>2. AddsRecorded'
  <2>1. ASSUME NEW r \in replies', r.ok, command[r.user].verb = "add"
        PROVE  Recorded(Added(command[r.user]))'
    <3>1. ASSUME NEW x, x = command[r.user] PROVE Recorded(Added(x))'
      BY <1>1, <2>1, <3>1 DEF HistoryInv, AddsRecorded
    <3> QED BY <3>1 DEF Recorded, Added
  <2> QED BY <1>1, <2>1 DEF HistoryInv, AddsRecorded
<1>3. CopyHolds' /\ PromisesOK'
  BY DEF HistoryInv, CopyHolds, PromisesOK, Operations, Applied
<1>4. CommitsApplied'
  BY DEF HistoryInv, CommitsApplied, PromisesOK, Applied
<1> QED BY <1>2, <1>3, <1>4 DEF HistoryInv

(* Starts and Stops, and a sender that has left, are not about transactions. *)
LEMMA HistoryActions ==
    ASSUME CtlInv, HistoryInv,
           ServeSenderGone \/ action_handler \/ \E call \in acting : ActionEnds(call)
    PROVE  HistoryInv'
<1>1. CASE ServeSenderGone \/ action_handler
  BY <1>1, HistoryKeeps DEF ServeSenderGone, SenderGone, action_handler, vars
<1>2. ASSUME NEW call \in acting, ActionEnds(call) PROVE HistoryInv'
  <2>1. CallOK(call) /\ call.command.verb \in {"start", "stop"} /\ call.user \in Users
    BY DEF CtlInv, ActingOK, CallOK, Calls
  <2>2. /\ UNCHANGED <<command, exit, issued, acked, promised, running, open, commit>>
        /\ replies' \subseteq replies \cup Reply(call)
    BY <1>2 DEF ActionEnds, Answers, vars
  <2>3. \A r \in Reply(call) : r.user = call.user /\ command[r.user] = call.command
    BY <2>1, ReplyIsOwn
  <2> QED BY <2>1, <2>2, <2>3, HistoryKeeps
<1> QED BY <1>1, <1>2

(* The copy after one more operation holds it, and those before it. *)
LEMMA CopyStep ==
    ASSUME CtlInv, HistoryInv, CommitApply, commit' # None
    PROVE  CopyHolds'
<1>1. /\ commit # None /\ UNCHANGED open
      /\ commit.next \in 1..Len(Operations) /\ commit.next \in Nat
      /\ ConfigOK(commit.copy)
  BY DEF CommitApply, CtlInv, IInv, TypeOK, CommitOK
<1>2. CASE UNCHANGED commit
  BY <1>1, <1>2 DEF CopyHolds, HistoryInv, Operations
<1>3. CASE commit' # commit
  <2> DEFINE operation == Operations[commit.next]
             result    == Add(commit.copy, operation.name, operation.parameters)
  <2>1. /\ operation.name \notin DOMAIN commit.copy /\ result.status = "ok"
        /\ commit' = [id |-> commit.id, copy |-> result.config, next |-> commit.next + 1]
    BY <1>3 DEF CommitApply
  <2>2. Grows(commit.copy, result.config) /\ Applied(operation, result.config)
    BY <1>1, <2>1, AddKeepsOK, AddStores DEF Applied
  <2> HIDE DEF result, operation
  <2>3. Operations' = Operations /\ commit'.next - 1 = commit.next /\ commit'.copy = result.config
    BY <1>1, <2>1 DEF Operations
  <2>4. ASSUME NEW i \in 1..(commit'.next - 1) PROVE Applied(Operations[i], result.config)
    <3>1. CASE i = commit.next
      BY <2>2, <3>1 DEF operation
    <3>2. CASE i \in 1..(commit.next - 1)
      BY <1>1, <2>2, <3>2, AppliedGrows DEF HistoryInv, CopyHolds
    <3> QED BY <1>1, <2>3, <3>1, <3>2
  <2> QED BY <2>3, <2>4 DEF CopyHolds, Applied
<1> QED BY <1>2, <1>3

(* A commit goes on, or ends: it succeeds only by making the copy the running tree. *)
LEMMA HistoryServeCommit ==
    ASSUME NoneIsNoCommit, CtlInv, HistoryInv, ServeCommit
    PROVE  HistoryInv'
<1>1. /\ serving # None /\ serving \in Calls /\ CallOK(serving) /\ serving.command.verb = "commit"
      /\ commit # None /\ serving.command.token.id = commit.id /\ commit.id \in DOMAIN open
      /\ UNCHANGED <<command, exit, issued, acked, promised>>
  BY DEF CtlInv, CallsOK, CallOK, CtlTypeOK, TypeOK, ServeCommit
<1>2. /\ replies' \subseteq replies \cup Reply(serving)
      /\ commit' # None => replies' = replies
  BY DEF ServeCommit
<1>3. /\ CommitApply => UNCHANGED <<running, open>>
      /\ CommitApply /\ commit' = None => answer' # "ok"
  BY DEF CommitApply, NoneIsNoCommit
<1>4. Grows(running, running')
  <2>1. CASE CommitApply
    BY <1>3, <2>1 DEF Grows
  <2>2. CASE CommitEnd
    BY <1>1, <2>2 DEF CommitEnd, CtlInv, IInv, CommitOK
  <2> QED BY <2>1, <2>2 DEF ServeCommit
<1>5. ASSUME NEW a, Recorded(a) PROVE Recorded(a)'
  <2>1. CASE CommitApply
    BY <1>1, <1>3, <1>5, <2>1 DEF Recorded
  <2>2. CASE CommitEnd
    BY <1>1, <1>5, <2>2, RecordedKeeps DEF CommitEnd
  <2> QED BY <2>1, <2>2 DEF ServeCommit
<1>6. CopyHolds'
  BY CopyStep DEF ServeCommit, CommitEnd, CopyHolds
<1>7. AddsRecorded'
  <2>1. ASSUME NEW r \in replies', r.ok, command[r.user].verb = "add"
        PROVE  Recorded(Added(command[r.user]))'
    <3>1. r \in replies
      BY <1>1, <1>2, <2>1, ReplyIsOwn
    <3>2. ASSUME NEW x, x = command[r.user] PROVE Recorded(Added(x))'
      BY <1>5, <2>1, <3>1, <3>2 DEF HistoryInv, AddsRecorded
    <3> QED BY <1>1, <3>2 DEF Recorded, Added
  <2> QED BY <1>1, <1>5, <2>1 DEF HistoryInv, AddsRecorded
<1>8. PromisesOK'
  BY <1>1 DEF HistoryInv, PromisesOK
<1>9. CommitsApplied'
  <2>1. ASSUME NEW r \in replies', r.ok, NEW a \in promised[r.user] PROVE Applied(a, running')
    <3>1. CASE r \in replies
      BY <1>4, <2>1, <3>1, AppliedGrows DEF HistoryInv, CommitsApplied
    <3>2. CASE r \notin replies
      <4>1. r \in Reply(serving) /\ commit' = None
        BY <1>2, <3>2
      <4>2. r.user \in Users /\ command[r.user] = serving.command /\ answer' = "ok"
        BY <1>1, <2>1, <4>1, ReplyIsOwn DEF Calls
      <4>3. CommitEnd
        BY <1>3, <4>1, <4>2 DEF ServeCommit
      <4>4. a \in acked /\ a.id = commit.id /\ Recorded(a)
        BY <1>1, <2>1, <4>2 DEF HistoryInv, PromisesOK, AddsRecorded
      <4>5. PICK i \in 1..Len(Operations) : Operations[i].name = a.name /\ Operations[i].parameters = a.parameters
        BY <1>1, <4>4 DEF Recorded, Operations
      <4>6. i \in 1..(commit.next - 1)
        BY <1>1, <4>3 DEF CommitEnd, CtlInv, IInv, TypeOK, Transaction, Operations
      <4>7. Applied(Operations[i], commit.copy)
        BY <1>1, <4>6 DEF HistoryInv, CopyHolds
      <4> QED BY <4>3, <4>5, <4>7 DEF CommitEnd, Applied
    <3> QED BY <3>1, <3>2
  <2>2. ASSUME NEW u \in Users, exit[u] = "0", NEW a \in promised[u] PROVE Applied(a, running')
    BY <1>4, <2>2, AppliedGrows DEF HistoryInv, CommitsApplied
  <2> QED BY <1>1, <2>1, <2>2 DEF CommitsApplied, Applied
<1> QED BY <1>6, <1>7, <1>8, <1>9 DEF HistoryInv

(* An invocation ends, with the status that its answer gives it. *)
LEMMA HistoryExits ==
    ASSUME CtlInv, HistoryInv, NEW u \in Users, Receive(u) \/ TimesOut(u) \/ DaemonGone(u)
    PROVE  HistoryInv'
<1>1. PICK status \in {"0", "1"} :
        /\ Exits(u, status)
        /\ status = "0" => \E r \in replies : r.user = u /\ r.ok
  BY DEF Receive, TimesOut, DaemonGone, Status
<1>2. /\ UNCHANGED <<vars, command, issued, promised>> /\ replies' \subseteq replies
      /\ exit' = [exit EXCEPT ![u] = status] /\ exit \in [Users -> {"none", "waiting", "0", "1"}]
      /\ acked' = acked \cup Acknowledges(command[u], status)
  BY <1>1 DEF Exits, CtlInv, CtlTypeOK, Receive, TimesOut, DaemonGone
<1>3. ASSUME NEW a, Recorded(a) PROVE Recorded(a)'
  BY <1>2, <1>3 DEF Recorded, vars
<1>4. CopyHolds'
  BY <1>2 DEF HistoryInv, CopyHolds, vars, Operations
<1>5. AddsRecorded'
  <2>1. ASSUME NEW a \in acked' PROVE Recorded(a)'
    <3>1. Recorded(a)
      BY <1>1, <1>2 DEF Acknowledges, Added, HistoryInv, AddsRecorded
    <3> QED BY <1>3, <3>1
  <2>2. ASSUME NEW r \in replies', r.ok, command[r.user].verb = "add"
        PROVE  Recorded(Added(command[r.user]))'
    <3>1. ASSUME NEW x, x = command[r.user] PROVE Recorded(Added(x))'
      BY <1>2, <1>3, <2>2, <3>1 DEF HistoryInv, AddsRecorded
    <3> QED BY <1>2, <3>1 DEF Recorded, Added
  <2> QED BY <1>2, <2>1, <2>2 DEF AddsRecorded
<1>6. PromisesOK'
  BY <1>2 DEF HistoryInv, PromisesOK
<1>7. CommitsApplied'
  <2> SUFFICES ASSUME NEW w \in Users, exit'[w] = "0", NEW a \in promised[w] PROVE Applied(a, running)
    BY <1>2 DEF HistoryInv, CommitsApplied, Applied, vars
  <2>1. CASE w = u
    BY <1>1, <1>2, <2>1 DEF HistoryInv, CommitsApplied
  <2>2. CASE w # u
    BY <1>2, <2>2 DEF HistoryInv, CommitsApplied
  <2> QED BY <2>1, <2>2
<1> QED BY <1>4, <1>5, <1>6, <1>7 DEF HistoryInv

(* Every step of a user or of the daemon keeps the histories right. *)
LEMMA HistoryNext ==
    ASSUME NoneIsNoCommit
    PROVE  CtlInv /\ HistoryInv /\ [CtlNext]_ctlVars => HistoryInv'
<1> SUFFICES ASSUME CtlInv, HistoryInv, [CtlNext]_ctlVars PROVE HistoryInv'
  OBVIOUS
<1>1. CASE UNCHANGED ctlVars
  <2>1. UNCHANGED <<command, exit, serial, replies, issued, acked, promised, open, commit, running>>
    BY <1>1 DEF ctlVars, clientVars, vars
  <2>2. AddsRecorded'
    <3>1. ASSUME NEW a, Recorded(a) PROVE Recorded(a)'
      BY <2>1, <3>1 DEF Recorded
    <3> QED BY <2>1, <3>1 DEF HistoryInv, AddsRecorded, Added
  <2>3. PromisesOK'
    BY <2>1 DEF HistoryInv, PromisesOK
  <2>4. CopyHolds' /\ CommitsApplied'
    BY <2>1 DEF HistoryInv, CopyHolds, CommitsApplied, Applied, Operations
  <2> QED BY <2>2, <2>3, <2>4 DEF HistoryInv
<1>2. CASE \E u \in Users : Receive(u) \/ TimesOut(u) \/ DaemonGone(u)
  BY <1>2, HistoryExits
<1>3. CASE \E u \in Users : \E c \in Commands : Invoke(u, c)
  BY <1>3, HistoryInvoke
<1> QED BY <1>1, <1>2, <1>3, HistoryServe, HistoryServeCommit, HistoryActions DEF CtlNext

(***************************************************************************)
(* When nonsensectl commit exits with 0, what nonsensectl add had          *)
(* acknowledged for its transaction is in the running configuration.       *)
(***************************************************************************)
THEOREM NonsensectlCommitMeansApplied ==
    ASSUME NoneIsNoCommit
    PROVE  CtlSpec => []CommitMeansApplied
<1>1. HistoryInv => CommitMeansApplied
  BY DEF HistoryInv, CommitsApplied, CommitMeansApplied, Applied
<1> QED BY <1>1, CtlInvariance, HistoryInit, HistoryNext, PTL DEF CtlSpec
=============================================================================
