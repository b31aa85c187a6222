------------------------------- MODULE Config -------------------------------
(***************************************************************************)
(* The configuration tree: config::add and the validation of entities      *)
(* (src/daemon/config.cpp) as operators on json values.                    *)
(*                                                                         *)
(* A json value is a function from the paths inside it to the node found   *)
(* there: <<>> is the value itself, and an object has a path <<k>> for     *)
(* each of its keys k.  A configuration maps its top-level keys to json    *)
(* values.  Besides the entities these are the keys "!metadata" and, once  *)
(* an entity has claimed the default namespace, ":default-netns".          *)
(*                                                                         *)
(* The key ":role" that validation writes next to "role" repeats it and is *)
(* left out.                                                               *)
(***************************************************************************)
EXTENDS Naturals, Sequences

CONSTANTS
    Json,        \* Json[text]: the value of a parameter text that is json
    EarlyNames   \* the names that sort before ":default-netns"

Object    == <<"object">>
Null      == <<"null">>
Scalar(v) == <<"scalar", v>>       \* a number or a boolean
String(s) == <<"string", s>>
IsString(node) == node[1] = "string"

NullValue == [p \in {<<>>} |-> Null]

Metadata     == "!metadata"
DefaultNetns == ":default-netns"

Roles           == {"root", "interface", "router", "switch", "client"}
KnownComponents == {"network"}
KnownParameters == {"role", "external", "default", "address", "uplink"}
SkippedParameters == {":role", ":uplink-name"}  \* keys that start with a colon

(* nlohmann::json::parse, with text that is not json kept as a string. *)
Parse(text) == IF text \in DOMAIN Json THEN Json[text] ELSE [p \in {<<>>} |-> String(text)]

(* The node at a path; operator[] makes a missing one null. *)
NodeAt(json, path) == IF path \in DOMAIN json THEN json[path] ELSE Null

Keys(json, prefix) ==
    {p[Len(prefix) + 1] :
        p \in {q \in DOMAIN json : Len(q) = Len(prefix) + 1
                                   /\ SubSeq(q, 1, Len(prefix)) = prefix}}

-----------------------------------------------------------------------------
(* config::add *)

Parents(path) == {SubSeq(path, 1, i) : i \in 0..(Len(path) - 1)}

(* The value with its parents made objects and sub placed at path. *)
Place(json, path, sub) ==
    LET below == {path \o q : q \in DOMAIN sub}
    IN  [p \in DOMAIN json \cup Parents(path) \cup below |->
            IF p \in below THEN sub[SubSeq(p, Len(path) + 1, Len(p))]
            ELSE IF p \in Parents(path) THEN Object
            ELSE json[p]]

(***************************************************************************)
(* One parameter, path = text.  Descending past a dot into a value that is *)
(* no object is an error; the last step is not guarded, and operator[] on  *)
(* such a value throws out of a noexcept function.                         *)
(***************************************************************************)
Result(status, json) == [status |-> status, json |-> json]

AddParameter(json, path, text) ==
    LET values == {p \in Parents(path) : NodeAt(json, p) \notin {Object, Null}}
        last   == SubSeq(path, 1, Len(path) - 1)
    IN  IF values \ {last} # {} THEN Result("error", json)
        ELSE IF last \in values THEN Result("terminate", json)
        ELSE IF NodeAt(json, path) # Null THEN Result("error", json)
        ELSE Result("ok", Place(json, path, Parse(text)))

EmptyEntity == [p \in {<<>>} |-> Object]

(* All parameters, in order, up to the first that fails. *)
BuildEntity(parameters) ==
    LET after[i \in 0..Len(parameters)] ==
            IF i = 0 THEN Result("ok", EmptyEntity)
            ELSE IF after[i - 1].status # "ok" THEN after[i - 1]
            ELSE AddParameter(after[i - 1].json, parameters[i].path, parameters[i].text)
    IN  after[Len(parameters)]

-----------------------------------------------------------------------------
(* _validate_entity and _validate_network *)

Network(json, key) == NodeAt(json, <<"network", key>>)
HasNetwork(json) == <<"network">> \in DOMAIN json
HasParameter(json, key) == HasNetwork(json) /\ <<"network", key>> \in DOMAIN json

(* The name in the uplink parameter of an entity that has one. *)
UplinkOf(json) == Network(json, "uplink")[2]

(* Mutant: an uplink that does not exist yet is let through. *)
UplinkValidUnknown(config, json) ==
    /\ IsString(Network(json, "uplink"))
    /\ UplinkOf(json) \in DOMAIN config =>
          Network(config[UplinkOf(json)], "role") # String("client")

UplinkValid(config, json) ==
    LET uplink == config[UplinkOf(json)] IN
    /\ IsString(Network(json, "uplink"))
    /\ UplinkOf(json) \in DOMAIN config
    /\ uplink[<<>>] = Object
    /\ HasNetwork(uplink)
    /\ uplink[<<"network">>] = Object
    /\ Network(uplink, "role") # String("client")

(* is_null() of the claim, which operator[] makes null if it is missing. *)
Unclaimed(config) == DefaultNetns \in DOMAIN config => config[DefaultNetns] = NullValue

NetworkValid(config, name, json) ==
    /\ json[<<"network">>] = Object
    /\ \E role \in Roles : Network(json, "role") = String(role)
    /\ Keys(json, <<"network">>) \subseteq KnownParameters \cup SkippedParameters
    /\ HasParameter(json, "default") /\ ~Unclaimed(config) =>
          config[DefaultNetns][<<>>] = String(name)
    /\ HasParameter(json, "address") => Network(json, "role") = String("switch")
    /\ HasParameter(json, "uplink") => UplinkValid(config, json)

(***************************************************************************)
(* items() visits one component without a name in a string or a scalar,    *)
(* and nothing in a null, which only a file can have (FileValid).          *)
(***************************************************************************)
EntityValid(config, name, json) ==
    /\ json[<<>>] = Object
    /\ Keys(json, <<>>) \subseteq KnownComponents
    /\ HasNetwork(json) => NetworkValid(config, name, json)

(* The tree with key set to json. *)
With(config, key, json) ==
    [k \in DOMAIN config \cup {key} |-> IF k = key THEN json ELSE config[k]]

(* Mutant: the claim is checked and never entered. *)
ClaimNever(config, name, json) == config

(* The first entity with a default parameter claims the default namespace. *)
Claim(config, name, json) ==
    IF HasParameter(json, "default") /\ Unclaimed(config)
    THEN With(config, DefaultNetns, [p \in {<<>>} |-> String(name)])
    ELSE config

Outcome(status, config) == [status |-> status, config |-> config]

(* Mutant: the parameters are stored and never validated. *)
AddUnvalidated(config, name, parameters) ==
    LET built == BuildEntity(parameters)
        added == With(config, name, built.json)
    IN  IF built.status # "ok" THEN Outcome(built.status, config)
        ELSE Outcome("ok", Claim(added, name, built.json))

(* config::add for a name that is not in the tree yet. *)
Add(config, name, parameters) ==
    LET built == BuildEntity(parameters)
        added == With(config, name, built.json)
    IN  IF built.status # "ok" THEN Outcome(built.status, config)
        ELSE IF EntityValid(added, name, built.json)
             THEN Outcome("ok", Claim(added, name, built.json))
             ELSE Outcome("error", config)

-----------------------------------------------------------------------------
(* The configuration file: config::config(opts) and _validate_metadata *)

MetadataValid(json) ==
    /\ json[<<>>] = Object
    /\ Keys(json, <<>>) = {"version"}
    /\ json[<<"version">>] = Scalar("1")

Claimants(file) == {n \in DOMAIN file \ {Metadata} : HasParameter(file[n], "default")}

Loaded(file) ==
    IF Claimants(file) = {} THEN file
    ELSE LET n == CHOOSE m \in Claimants(file) : TRUE IN Claim(file, n, file[n])

(***************************************************************************)
(* Every entity is validated against the whole file.  The claim is entered *)
(* into the tree while its keys are visited in order: if it comes after    *)
(* the claimant it is visited too, and as a string it is no entity.        *)
(***************************************************************************)
FileValid(file) ==
    /\ Metadata \in DOMAIN file
    /\ MetadataValid(file[Metadata])
    /\ Claimants(file) \cap EarlyNames = {}
    /\ \A n \in DOMAIN file \ {Metadata} :
          file[n] = NullValue \/ EntityValid(Loaded(file), n, file[n])
=============================================================================
