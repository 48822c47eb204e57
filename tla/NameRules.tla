------------------------------ MODULE NameRules ------------------------------
(***************************************************************************)
(* Names that are put together and taken apart again (internal/domain:     *)
(* validation.go, identity.go; internal/hostagent: options.go;             *)
(* internal/nixos: catalog, modules.go; internal/lima: instances.go;       *)
(* internal/vm: list.go; internal/guest: address.go).                      *)
(*                                                                         *)
(* A name is the sequence of its parts between dashes. A part is a word, a *)
(* number, a version with dots, an identifier of twelve hexadecimal        *)
(* digits, which may be a word or a number too, the empty text between two *)
(* dashes, or one with characters no name allows. Limits on the length of  *)
(* a name are left out.                                                    *)
(***************************************************************************)
EXTENDS Naturals, SequencesExt

CONSTANTS
    Words,      \* parts of letters and digits that begin with a letter
    Numbers,    \* parts of digits
    Dotted,     \* versions that are no parts of a name
    Hex         \* parts that are identifiers

Parts    == Words \cup Numbers \cup Hex
Versions == Numbers \cup Dotted
Empty == ""

\* vmNamePattern: a dash is neither the first nor the last character.
NewVMName(name) ==
    /\ name # <<>>
    /\ \A i \in DOMAIN name : name[i] \in Parts \cup {Empty}
    /\ Head(name) # Empty /\ Last(name) # Empty

\* moduleNamePattern: parts, of which the first begins with a letter.
NewModuleName(name) ==
    /\ name # <<>>
    /\ Head(name) \in Words
    /\ \A i \in DOMAIN name : name[i] \in Parts

ValidIdentifier(part) == part \in Hex

LimaName(identity) == <<"limanix">> \o identity.name \o <<identity.id>>

\* Mutant: the name ends at the first dash.
ValidateNameFirst(name) ==
    /\ Len(name) > 2 /\ name[1] = "limanix"
    /\ ValidIdentifier(name[3])
    /\ NewVMName(<<name[2]>>)

\* validateName of the host agent, which cuts at the last dash.
ValidateName(name) ==
    /\ Len(name) > 2 /\ name[1] = "limanix"
    /\ ValidIdentifier(Last(name))
    /\ NewVMName(SubSeq(name, 2, Len(name) - 1))

\* A host agent serves exactly the instances that VMs can have, and the name
\* of an instance tells the one VM that owns it; identities contains all that
\* could.
NamesOneVM(name, identities) ==
    LET Owners == {i \in identities : NewVMName(i.name) /\ LimaName(i) = name}
    IN /\ ValidateName(name) <=> Owners # {}
       /\ Cardinality(Owners) <= 1

-----------------------------------------------------------------------------
\* Modules of the catalog. A module is its directory's name, its declared
\* versions, its default and the entry points it has files for.

\* metadata.validate and the entry points readMetadata looks for.
ReadMetadata(module) ==
    /\ IF module.versions = <<>>
       THEN module.default = Empty
       ELSE /\ \E i \in DOMAIN module.versions : module.versions[i] = module.default
            /\ \A i \in DOMAIN module.versions : module.versions[i] \in Versions
            /\ IsInjective(module.versions)
    /\ {"default.nix"} \cup Range(module.versions) \subseteq module.files

Selections(module) ==
    [s \in {module.name} \cup {Append(module.name, v) : v \in Range(module.versions)} |->
        [directory |-> module.name,
         entry |-> IF s = module.name THEN "default.nix" ELSE Last(s)]]

\* The map that readModules fills: what a module declares a selector to be.
Declared(modules) ==
    [s \in UNION {DOMAIN Selections(modules[i]) : i \in DOMAIN modules} |->
        LET i == CHOOSE i \in DOMAIN modules : s \in DOMAIN Selections(modules[i])
        IN Selections(modules[i])[s]]

\* Mutant: no check for selectors that two modules declare.
OpenOverlapping(modules) ==
    [ok |-> modules # <<>> /\ \A i \in DOMAIN modules :
                NewModuleName(modules[i].name) /\ ReadMetadata(modules[i]),
     selections |-> Declared(modules)]

\* readModules, over the directories in the order of their names.
Open(modules) ==
    [ok |-> /\ modules # <<>>
            /\ \A i \in DOMAIN modules :
                /\ NewModuleName(modules[i].name) /\ ReadMetadata(modules[i])
                /\ \A k \in 1..(i - 1) :
                    DOMAIN Selections(modules[i]) \cap DOMAIN Selections(modules[k]) = {},
     selections |-> Declared(modules)]

\* NewModuleID splits a version off the name.
NewModuleID(id) ==
    LET name == id.name
        split == Len(name) > 1 /\ Last(name) \in Versions
    IN NewModuleName(IF split THEN Front(name) ELSE name)

\* The entry point of a configured module: imported modules come from their
\* own directory, others from the catalog.
CopyModule(id, imported, catalog) ==
    CASE id.namespace = "third-party" /\ id.name \in imported ->
            [ok |-> TRUE, directory |-> id.name, entry |-> "default.nix"]
      [] id.namespace = "lmx" /\ id.name \in DOMAIN catalog.selections ->
            LET selected == catalog.selections[id.name]
            IN [ok |-> TRUE, directory |-> selected.directory, entry |-> selected.entry]
      [] OTHER -> [ok |-> FALSE, directory |-> <<>>, entry |-> Empty]

\* In a catalog that opens, a module's own name selects its default.nix and
\* NAME-VERSION the file of that version, also beside a module whose name ends
\* like a version; every selector can be configured, and a selector that is
\* no module's is refused, whatever is imported under the same name.
SelectsOneModule(modules, name, imported) ==
    LET catalog == Open(modules)
        Own(m)  == name = m.name
        Version(m) == Len(name) > 1 /\ Front(name) = m.name /\ Last(name) \in Range(m.versions)
        chosen  == CopyModule([namespace |-> "lmx", name |-> name], imported, catalog)
    IN catalog.ok =>
        /\ \A i \in DOMAIN modules :
            /\ Own(modules[i]) =>
                chosen = [ok |-> TRUE, directory |-> name, entry |-> "default.nix"]
            /\ Version(modules[i]) =>
                chosen = [ok |-> TRUE, directory |-> modules[i].name, entry |-> Last(name)]
        /\ chosen.ok => NewModuleID([namespace |-> "lmx", name |-> name])
        /\ (\A i \in DOMAIN modules : ~Own(modules[i]) /\ ~Version(modules[i])) => ~chosen.ok

-----------------------------------------------------------------------------
\* limanix list. An inspected instance is missing, fails to be inspected, or
\* is read with a status; an unknown status is an error.

\* The names with the prefix that Limanix gives to its instances.
Ours(names) == {n \in Range(names) : Len(n) > 1 /\ n[1] = "limanix"}

\* Mutant: an instance that is gone when it is inspected is an error.
InspectedStrictly(names, inspect) ==
    [ok |-> \A n \in Ours(names) : inspect[n] \notin {"missing", "broken", "unknown"},
     instances |-> [n \in Ours(names) |-> inspect[n]]]

\* Client.FetchAll: names were listed before the instances are inspected.
FetchAll(names, inspect) ==
    [ok |-> \A n \in Ours(names) : inspect[n] \notin {"broken", "unknown"},
     instances |-> [n \in {m \in Ours(names) : inspect[m] # "missing"} |-> inspect[n]]]

\* The address of a running guest is asked for, and may not be known.
InstanceInfo(identity, instances) ==
    LET name == LimaName(identity)
    IN IF name \in DOMAIN instances
       THEN [status |-> instances[name], asked |-> instances[name] = "Running"]
       ELSE [status |-> Empty, asked |-> FALSE]

Rows(identities, names, inspect) ==
    LET fetched == FetchAll(names, inspect)
    IN [ok |-> identities = {} \/ fetched.ok,
        rows |-> [i \in identities |-> InstanceInfo(i, fetched.instances)]]

\* A VM is listed with the status of its own Lima instance, however alike the
\* names are; an instance of somebody else or one that is deleted while the
\* list is made neither shows up nor fails the list. The whole list fails only
\* for an instance of Limanix that is there and cannot be read.
ListsOwnInstances(identities, names, inspect) ==
    LET listed == Rows(identities, names, inspect)
        There(n) == n \in Range(names) /\ inspect[n] # "missing"
    IN IF listed.ok
       THEN \A i \in identities :
                listed.rows[i].status = IF There(LimaName(i)) THEN inspect[LimaName(i)] ELSE Empty
       ELSE \E n \in Range(names) :
                Len(n) > 1 /\ n[1] = "limanix" /\ inspect[n] \in {"broken", "unknown"}

=============================================================================
