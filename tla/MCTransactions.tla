--------------------------- MODULE MCTransactions ---------------------------
(***************************************************************************)
(* Small instances of Transactions.  The parameter lists are what          *)
(* nonsensectl add sends: well formed entities, and one list for every way *)
(* config::add has to refuse one.                                          *)
(***************************************************************************)
EXTENDS Transactions, TLC

P(path, text) == [path |-> path, text |-> text]
role(text)    == P(<<"network", "role">>, text)
uplink(text)  == P(<<"network", "uplink">>, text)
address       == P(<<"network", "address">>, "192.168.2.0/24")
default(text) == P(<<"network", "default">>, text)

(* Texts that are json; every other text is a string. *)
MCJson ==
    ("true" :> (<<>> :> Scalar("true"))) @@ ("5" :> (<<>> :> Scalar("5"))) @@ ("null" :> (<<>> :> Null))
    @@ ("{role: root}" :> ((<<>> :> Object) @@ (<<"role">> :> String("root"))))

MCEarlyNames == {"0"}

Version(v) == "!metadata" :> ((<<>> :> Object) @@ (<<"version">> :> Scalar(v)))
Meta       == Version("1")

RootEntity(params) ==
    (<<>> :> Object) @@ (<<"network">> :> Object)
    @@ (<<"network", "role">> :> String("root")) @@ params

EmptyFile == Meta
RootFile  == Meta @@ ("a" :> RootEntity(<<"network", "default">> :> Scalar("true")))
EarlyFile == Meta @@ ("0" :> RootEntity(<<"network", "default">> :> Scalar("true")))
NullFile  == Meta @@ (":default-netns" :> NullValue)
             @@ ("a" :> RootEntity(<<"network", "external">> :> Scalar("true")))
NoMeta    == "a" :> RootEntity(<<"network", "external">> :> Scalar("true"))
OldFile   == Version("0")

(* The last three are refused. *)
SomeFiles == {EmptyFile, RootFile, NullFile, EarlyFile, NoMeta, OldFile}

(* Accepted lists, if the uplink is there and nobody has the default. *)
Root          == <<role("root")>>
NotDefault    == <<default("null"), role("root"), default("true")>>
JsonRoot      == <<P(<<"network">>, "{role: root}")>>
NoComponent   == <<>>
SwitchBelow(n) == <<role("switch"), address, uplink(n)>>
ClientBelow(n) == <<role("client"), uplink(n)>>

(* Refused lists. *)
UnknownRole      == <<role("hub")>>
UnknownComponent == <<P(<<"storage">>, "5")>>
UnknownParameter == <<role("root"), P(<<"network", "mtu">>, "5")>>
ClientAddress    == <<role("client"), address>>
NumericUplink    == <<role("client"), uplink("5")>>
TwoRoles         == <<role("root"), role("client")>>
DeepInValue      == <<P(<<"network">>, "5"), P(<<"network", "role", "x">>, "root")>>

(* A value used as an object one level down. *)
InValue          == <<P(<<"network">>, "5"), role("root")>>

Wide == {Root, NotDefault, JsonRoot, NoComponent,
         SwitchBelow("a"), SwitchBelow("b"), ClientBelow(":default-netns"),
         UnknownRole, UnknownComponent, UnknownParameter, ClientAddress, NumericUplink,
         TwoRoles, DeepInValue, InValue}
=============================================================================
