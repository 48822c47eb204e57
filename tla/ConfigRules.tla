------------------------------ MODULE ConfigRules ------------------------------
(***************************************************************************)
(* From a configuration document to a configuration and back               *)
(* (internal/config: models.go, schema.go, parser.go, validate.go,         *)
(* render.go). Mounts are in MachineRules.                                 *)
(*                                                                         *)
(* The schema is data, as it is in the code, which walks Go types and      *)
(* their tags; it has every field. A document is a tree of tagged values,  *)
(* a configuration a tree of plain ones. Text is a name, "bad" one that    *)
(* its type refuses.                                                       *)
(*                                                                         *)
(* The walks recurse over the schema in the code. Here a walk takes what   *)
(* it walks the parts with as a parameter, and is put together from the    *)
(* leaves up. The deepest leaf, network.ports.tcp[0], is four steps below  *)
(* the configuration: a leaf, an item, an entry, a field.                  *)
(***************************************************************************)
EXTENDS ValueRules, MachineRules

\* Documents.
String(text)   == [kind |-> "string", text |-> text]
Integer(n)     == [kind |-> "integer", number |-> n]
Boolean(b)     == [kind |-> "bool", truth |-> b]
Array(items)   == [kind |-> "array", items |-> items]
Table(entries) == [kind |-> "table", entries |-> entries]
Entries(value) == DOMAIN value.entries

\* Types, and the tags of a field. Lists of tables are those that can have
\* defaults in their entries.
TextOf(type)   == [kind |-> "string", type |-> type]
Number         == [kind |-> "integer"]
Bool           == [kind |-> "bool"]
Size           == [kind |-> "size"]
ListOf(model)  == [kind |-> "array", elem |-> model]
MapOf(model)   == [kind |-> "map", elem |-> model]
Struct(fields) == [kind |-> "table", fields |-> fields]

Field(model) == [model |-> model, required |-> FALSE, default |-> "", choices |-> {}]
Required(model) == [Field(model) EXCEPT !.required = TRUE]
Choice(choices, default) ==
    [Field(TextOf("text")) EXCEPT !.choices = choices, !.default = default]

MountModel == Struct([
    mode   |-> Choice({"rw", "ro"}, "rw"),
    source |-> Required(TextOf("text")),
    target |-> Required(TextOf("GuestPath"))])

UserModel == Struct([
    name |-> Field(TextOf("Username")),
    home |-> Field(TextOf("GuestPath")),
    sudo |-> Field(Bool)])

ResourcesModel == Struct([
    arch |-> Field(TextOf("Architecture")),
    disk |-> Field(Size),
    mem  |-> Field(Size),
    cpu  |-> Field(Number)])

PortsModel == Struct([tcp |-> Field(ListOf(Number)), udp |-> Field(ListOf(Number))])

NetworkModel == Struct([mode |-> Choice({"shared"}, ""), ports |-> Field(PortsModel)])

ConfigModel == Struct([
    schema_version |-> Field(Number),
    name      |-> Field(TextOf("VMName")),
    user      |-> Field(UserModel),
    resources |-> Field(ResourcesModel),
    home      |-> Field(Struct([root |-> Field(TextOf("text"))])),
    nixos     |-> Field(Struct([modules |-> Field(ListOf(TextOf("ModuleID")))])),
    network   |-> Field(NetworkModel),
    env       |-> Field(MapOf(TextOf("EnvValue"))),
    mounts    |-> Field(ListOf(MountModel))])

Default == [
    schema_version |-> 1,
    name      |-> "example-box",
    user      |-> [name |-> "dev", home |-> <<"home", "dev">>, sudo |-> TRUE],
    resources |-> [arch |-> "arm64", disk |-> 10 * GiB, mem |-> 8 * GiB, cpu |-> 4],
    home      |-> [root |-> "~/.limanix"],
    nixos     |-> [modules |-> <<>>],
    network   |-> [mode |-> "shared", ports |-> [tcp |-> <<8080>>, udp |-> <<>>]],
    env       |-> [e \in {"APP_ENV", "APP_LOG_LEVEL"} |-> "default"],
    mounts    |-> <<
        [mode |-> "rw", source |-> "project", target |-> <<"workspace">>],
        [mode |-> "ro", source |-> "keys", target |-> <<"mnt", "git-keys">>]>>]

\* An integer holds the size of the default disk.
ASSUME DefaultAssumption == Default.resources.disk <= MaxInt

-----------------------------------------------------------------------------
\* checkShape, and validateValue on what was decoded.

ValidString(type, text) ==
    IF type = "GuestPath" THEN NewGuestPath(text) ELSE text # "bad"

CheckLeaf(value, model) ==
    CASE model.kind = "size" -> value.kind = "string" /\ ParseByteSize(value.text).ok
      [] model.kind = "string" -> value.kind = "string" /\ ValidString(model.type, value.text)
      [] OTHER -> value.kind = model.kind

CheckTable(value, model, Check(_, _)) ==
    /\ value.kind = "table"
    /\ Entries(value) \subseteq DOMAIN model.fields
    /\ \A f \in DOMAIN model.fields :
        IF f \in Entries(value)
        THEN Check(value.entries[f], model.fields[f].model)
        ELSE ~model.fields[f].required

CheckArray(value, model, Check(_, _)) ==
    /\ value.kind = "array"
    /\ \A i \in DOMAIN value.items : Check(value.items[i], model.elem)

CheckEnvironment(value, model, Check(_, _)) ==
    /\ value.kind = "table"
    /\ \A name \in Entries(value) :
        name # "bad" /\ Check(value.entries[name], model.elem)

CheckPart(value, model, Check(_, _)) ==
    CASE model.kind = "table" -> CheckTable(value, model, Check)
      [] model.kind = "array" -> CheckArray(value, model, Check)
      [] model.kind = "map" -> CheckEnvironment(value, model, Check)
      [] OTHER -> CheckLeaf(value, model)

CheckItem(value, model)  == CheckPart(value, model, CheckLeaf)
CheckEntry(value, model) == CheckPart(value, model, CheckItem)
CheckField(value, model) == CheckPart(value, model, CheckEntry)
CheckShape(value, model) == CheckPart(value, model, CheckField)

ValidLeaf(value, model) ==
    CASE model.kind = "size" -> Amount(value).ok
      [] model.kind = "string" -> ValidString(model.type, value)
      [] OTHER -> TRUE

ValidPart(value, model, Valid(_, _)) ==
    CASE model.kind = "table" ->
            \A f \in DOMAIN model.fields :
                /\ model.fields[f].choices # {} => value[f] \in model.fields[f].choices
                /\ Valid(value[f], model.fields[f].model)
      [] model.kind = "array" -> \A i \in DOMAIN value : Valid(value[i], model.elem)
      [] model.kind = "map" ->
            \A name \in DOMAIN value : name # "bad" /\ Valid(value[name], model.elem)
      [] OTHER -> ValidLeaf(value, model)

ValidItem(value, model)     == ValidPart(value, model, ValidLeaf)
ValidEntry(value, model)    == ValidPart(value, model, ValidItem)
ValidField(value, model)    == ValidPart(value, model, ValidEntry)
ValidateValue(value, model) == ValidPart(value, model, ValidField)

ValidatePorts(ports) == \A i \in DOMAIN ports : ports[i] \in 1..65535

Validate(config) ==
    /\ ValidateValue(config, ConfigModel)
    /\ config.schema_version = 1
    /\ config.resources.cpu > 0
    /\ config.home.root # "/"
    /\ ValidatePorts(config.network.ports.tcp)
    /\ ValidatePorts(config.network.ports.udp)
    /\ ValidateMounts(config.user.home, config.mounts)

-----------------------------------------------------------------------------
\* Parse.

ZeroLeaf(model) ==
    CASE model.kind \in {"integer", "size"} -> 0
      [] model.kind = "bool" -> FALSE
      [] model.kind = "string" /\ model.type # "GuestPath" -> ""
      [] OTHER -> <<>>

Zero(model) ==
    IF model.kind = "table"
    THEN [f \in DOMAIN model.fields |-> ZeroLeaf(model.fields[f].model)]
    ELSE ZeroLeaf(model)

\* The TOML library decodes over what is there: tables and maps keep what is
\* not supplied, arrays are replaced, and the storage of an entry may be that
\* of an earlier one, fields included.
DecodeLeaf(model, target, value, reuse) ==
    CASE model.kind = "size" -> ParseByteSize(value.text).size
      [] model.kind = "string" -> value.text
      [] model.kind = "bool" -> value.truth
      [] OTHER -> value.number

DecodePart(model, target, value, reuse, Decoded(_, _, _, _)) ==
    CASE model.kind = "table" ->
            [f \in DOMAIN model.fields |->
                IF f \in Entries(value)
                THEN Decoded(model.fields[f].model, target[f], value.entries[f], reuse)
                ELSE target[f]]
      [] model.kind = "map" ->
            [name \in Entries(value) \cup DOMAIN target |->
                IF name \in Entries(value)
                THEN Decoded(model.elem, "", value.entries[name], reuse)
                ELSE target[name]]
      [] model.kind = "array" ->
            [i \in DOMAIN value.items |->
                Decoded(model.elem,
                        IF reuse /\ i \in DOMAIN target THEN target[i] ELSE Zero(model.elem),
                        value.items[i], reuse)]
      [] OTHER -> DecodeLeaf(model, target, value, reuse)

DecodeItem(model, target, value, reuse)  == DecodePart(model, target, value, reuse, DecodeLeaf)
DecodeEntry(model, target, value, reuse) == DecodePart(model, target, value, reuse, DecodeItem)
DecodeField(model, target, value, reuse) == DecodePart(model, target, value, reuse, DecodeEntry)
Decode(model, target, value, reuse)      == DecodePart(model, target, value, reuse, DecodeField)

\* Mutant: a default only fills what decoding has left empty.
DefaultIfEmpty(field, value) ==
    IF field.default # "" /\ value = "" THEN field.default ELSE value

\* The default tag of a field that is not supplied.
TagDefault(field, value) == IF field.default # "" THEN field.default ELSE value

IsTableArray(model) == model.kind = "array" /\ model.elem.kind = "table"

ApplyPart(model, value, supplied, Apply(_, _, _)) ==
    LET type(f) == model.fields[f].model
    IN [f \in DOMAIN model.fields |->
        CASE f \notin Entries(supplied) -> TagDefault(model.fields[f], value[f])
          [] f \in Entries(supplied) /\ type(f).kind = "table" ->
                Apply(type(f), value[f], supplied.entries[f])
          [] f \in Entries(supplied) /\ IsTableArray(type(f)) ->
                [i \in DOMAIN value[f] |->
                    Apply(type(f).elem, value[f][i], supplied.entries[f].items[i])]
          [] OTHER -> value[f]]

\* A table without tables in it, a table or an entry, and the configuration.
ApplyTags(model, value, supplied) ==
    [f \in DOMAIN model.fields |->
        IF f \in Entries(supplied) THEN value[f] ELSE TagDefault(model.fields[f], value[f])]
ApplyTable(model, value, supplied)         == ApplyPart(model, value, supplied, ApplyTags)
ApplyEntryDefaults(model, value, supplied) == ApplyPart(model, value, supplied, ApplyTable)

Refused == [ok |-> FALSE, config |-> Default]

Parse(document, reuse) ==
    LET base    == IF "env" \in Entries(document) THEN [Default EXCEPT !.env = <<>>] ELSE Default
        decoded == Decode(ConfigModel, base, document, reuse)
        config  == ApplyEntryDefaults(ConfigModel, decoded, document)
    IN IF CheckShape(document, ConfigModel) /\ Validate(config)
       THEN [ok |-> TRUE, config |-> Normalized(config)]
       ELSE Refused

-----------------------------------------------------------------------------
\* Render writes a configuration as lines, which assign a key in the table of
\* the last header. The name of a table is the sequence of its parts.

\* Mutant: the header of a table in a table does not name the outer one.
JoinFieldBare(prefix, name) == <<name>>

JoinField(prefix, name) == Append(prefix, name)

KeyLine(key, value) == [line |-> "key", key |-> key, value |-> value]
Header(name)        == [line |-> "table", name |-> name]
EntryHeader(name)   == [line |-> "entry", name |-> name]

LeafLiteral(value, model) ==
    CASE model.kind = "size" -> String(Amount(value).amount)
      [] model.kind = "string" -> String(value)
      [] model.kind = "bool" -> Boolean(value)
      [] OTHER -> Integer(value)

TomlLiteral(value, model) ==
    IF model.kind = "array"
    THEN Array([i \in DOMAIN value |-> LeafLiteral(value[i], model.elem)])
    ELSE LeafLiteral(value, model)

RenderKeys(value, model, keys) ==
    [i \in DOMAIN keys |->
        KeyLine(keys[i], TomlLiteral(value[keys[i]], model.fields[keys[i]].model))]

RenderEnvironment(value, model, names) ==
    [i \in DOMAIN names |-> KeyLine(names[i], TomlLiteral(value[names[i]], model.elem))]

\* The fields that are not keys: a list without tables is one.
Nested(value, model) ==
    {f \in DOMAIN model.fields :
        LET type == model.fields[f].model
        IN type.kind \in {"table", "map"} \/ (IsTableArray(type) /\ value[f] # <<>>)}

\* A table, an environment or a list of tables.
RenderField(value, model, name, Rendered(_, _, _)) ==
    CASE model.kind = "table" -> <<Header(name)>> \o Rendered(value, model, name)
      [] model.kind = "map" ->
            <<Header(name)>> \o RenderEnvironment(value, model, SetToSeq(DOMAIN value))
      [] OTHER ->
            FlattenSeq([i \in DOMAIN value |->
                <<EntryHeader(name)>> \o Rendered(value[i], model.elem, name)])

\* The keys of a table come before the tables in it, which would take them.
RenderPart(value, model, prefix, Rendered(_, _, _)) ==
    LET fields == SetToSeq(Nested(value, model))
    IN RenderKeys(value, model, SetToSeq(DOMAIN model.fields \ Nested(value, model)))
        \o FlattenSeq([i \in DOMAIN fields |->
                RenderField(value[fields[i]], model.fields[fields[i]].model,
                            JoinField(prefix, fields[i]), Rendered)])

\* A table without tables in it, a table or an entry, and the configuration.
RenderInner(value, model, prefix) == RenderKeys(value, model, SetToSeq(DOMAIN model.fields))
RenderTable(value, model, prefix) == RenderPart(value, model, prefix, RenderInner)
RenderModel(value, model, prefix) == RenderPart(value, model, prefix, RenderTable)

RenderDocument(config) == RenderModel(config, ConfigModel, <<>>)

\* The TOML reader. A name leads from table to table, and through a list to
\* its last entry; a table that is not there is empty.
TableOf(place) == IF place.kind = "array" THEN Last(place.items) ELSE place

Child(place, key) ==
    LET there == TableOf(place).entries
    IN IF key \in DOMAIN there THEN there[key] ELSE Table(<<>>)

PutKey(table, key, value) == Table(Assign(table.entries, key, value))

PutInto(place, key, value) ==
    IF place.kind = "array"
    THEN Array([place.items EXCEPT ![Len(place.items)] = PutKey(@, key, value)])
    ELSE PutKey(place, key, value)

\* The places on the way to a name.
PlacesTo(table, name) ==
    LET place[n \in 0..Len(name)] ==
            IF n = 0 THEN table ELSE Child(place[n - 1], name[n])
    IN place

\* A key is put into the last of them, and each of them into the one before.
PutAt(table, name, key, value) ==
    LET place == PlacesTo(table, name)
        k == Len(name)
        put[n \in 0..k] ==
            IF n = 0 THEN PutInto(place[k], key, value)
                     ELSE PutInto(place[k - n], name[k - n + 1], put[n - 1])
    IN put[k]

Opened(table, name, value) == PutAt(table, Front(name), Last(name), value)

ReadLine(s, l) ==
    LET there == PlacesTo(s.table, l.name)[Len(l.name)]
        items == IF there.kind = "array" THEN there.items ELSE <<>>
    IN CASE l.line = "table" -> [table |-> Opened(s.table, l.name, there), at |-> l.name]
         [] l.line = "entry" ->
                [table |-> Opened(s.table, l.name, Array(Append(items, Table(<<>>)))),
                 at |-> l.name]
         [] OTHER -> [s EXCEPT !.table = PutAt(@, s.at, l.key, l.value)]

ReadLines(start, lines) ==
    LET after[n \in 0..Len(lines)] ==
            IF n = 0 THEN start ELSE ReadLine(after[n - 1], lines[n])
    IN after[Len(lines)]

ReadDocument(lines) == ReadLines([table |-> Table(<<>>), at |-> <<>>], lines).table

-----------------------------------------------------------------------------
\* What a document stands for: every field it supplies, and no part of the
\* defaults of a list or of the environment that it supplies.
MeaningLeaf(model, default, value) ==
    CASE model.kind = "size" -> value.text * GiB
      [] model.kind = "string" ->
            IF model.type = "GuestPath" THEN Cleaned(value.text) ELSE value.text
      [] model.kind = "bool" -> value.truth
      [] OTHER -> value.number

MeaningPart(model, default, value, Means(_, _, _)) ==
    CASE model.kind = "table" ->
            [f \in DOMAIN model.fields |->
                IF f \in Entries(value)
                THEN Means(model.fields[f].model, default[f], value.entries[f])
                ELSE IF model.fields[f].default # "" THEN model.fields[f].default
                ELSE default[f]]
      [] model.kind = "map" ->
            [name \in Entries(value) |-> Means(model.elem, "", value.entries[name])]
      [] model.kind = "array" ->
            [i \in DOMAIN value.items |-> Means(model.elem, Zero(model.elem), value.items[i])]
      [] OTHER -> MeaningLeaf(model, default, value)

MeaningItem(model, default, value)  == MeaningPart(model, default, value, MeaningLeaf)
MeaningEntry(model, default, value) == MeaningPart(model, default, value, MeaningItem)
MeaningField(model, default, value) == MeaningPart(model, default, value, MeaningEntry)
Meaning(model, default, value)      == MeaningPart(model, default, value, MeaningField)

\* A document that is accepted means what it says, whatever the decoder's
\* storage held before: fields that are left out have their defaults, and the
\* mode of a mount is not that of a default mount it replaces. The result is
\* valid as it is saved, and the document Render writes for it means the same:
\* no key is taken by a table before it, no default comes back.
DocumentMeans(document) ==
    \A reuse \in BOOLEAN :
        LET parsed == Parse(document, reuse)
        IN parsed.ok =>
            /\ parsed.config = Meaning(ConfigModel, Default, document)
            /\ Validate(parsed.config)
            /\ Parse(ReadDocument(RenderDocument(parsed.config)), reuse) = parsed

=============================================================================
