------------------------------ MODULE RuleInputs ------------------------------
(***************************************************************************)
(* The inputs of the rules about names, mounts, documents, paths and       *)
(* values, of any size: a state is one input of one rule.                  *)
(***************************************************************************)
EXTENDS NameRules, PathRules, ConfigRules, FiniteSets

VARIABLE input

\* Inputs over any set of parts.
NamesToSplit(Text) ==
    {i \in [rule : {"name"}, name : Seq(Text),
            identities : SUBSET [name : Seq(Text), id : Hex]] :
        \A identity \in [name : Seq(Text), id : Hex] :
            LimaName(identity) = i.name => identity \in i.identities}

CatalogsToOpen(Text) ==
    [rule : {"catalog"},
     modules : Seq([name : Seq(Text), versions : Seq(Text), default : Text,
                    files : SUBSET (Text \cup {"default.nix"})]),
     name : Seq(Text), imported : SUBSET Seq(Text)]

VMsToList(Text) ==
    {i \in [rule : {"list"}, identities : SUBSET [name : Seq(Text), id : Hex],
            names : Seq(Seq(Text)),
            inspect : UNION {[s -> {"missing", "broken", "unknown", "Running", "Stopped"}] :
                                s \in SUBSET Seq(Text)}] :
        DOMAIN i.inspect = Range(i.names)}

\* Other stands for the fields that have nothing to do with mounts.
MachinesToRender(Text, Other) ==
    [rule : {"machine"},
     config : [schema_version : Other, name : Other, resources : Other, home : Other,
               nixos : Other, network : Other, env : Other,
               user : [name : Other, home : Seq(Text), sudo : Other],
               mounts : Seq([mode : {"ro", "rw"}, source : Other, target : Seq(Text)])],
     arch : {"arm64", "amd64"}, host : {"arm64", "amd64"}, uid : Nat]

\* File systems with any nodes anywhere, and paths that start anywhere.
NodesOver(Name) ==
    {Missing, Directory, File} \cup [kind : {"link"}, from : {"root", "here"}, comps : Seq(Name)]

FileSystemsOver(Name) == UNION {[S -> NodesOver(Name)] : S \in SUBSET Seq(Name)}

PathsOver(Name) == [from : {"root", "cwd", "home", "nobody"}, comps : Seq(Name)]

PathsToResolve(Name) == [rule : {"path"}, fs : FileSystemsOver(Name), path : PathsOver(Name)]

FilesToLoad(Name) ==
    [rule : {"load"}, fs : FileSystemsOver(Name), filename : PathsOver(Name),
     value : PathsOver(Name)]

AmountsToWrite == [rule : {"size"}, amount : Nat]

\* Text holds the names of the variables and the characters of their values.
EnvironmentsToWrite(Text) ==
    {i \in [rule : {"environment"}, env : UNION {[N -> Seq(Text)] : N \in SUBSET Text}] :
        IsFiniteSet(DOMAIN i.env)}

\* Documents as the TOML library hands them over: lists are sequences, there
\* are finitely many variables, the text of a size is the number of its GiB and
\* that of a guest path its components. Where the kind of a value is another
\* than its schema wants, nothing is asked of it.
Supplies(v, f) == v.kind = "table" /\ f \in Entries(v)

IsSequence(v) == v.kind = "array" => v.items \in Seq(Range(v.items))

SizeWritten(v) == v.kind = "string" => v.text \in Nat
PathWritten(v, Component) == v.kind = "string" => v.text \in Seq(Component)

Written(d, Component) ==
    LET Has(f, g) == Supplies(d, f) /\ Supplies(d.entries[f], g)
        At(f, g)  == d.entries[f].entries[g]
        mounts    == d.entries["mounts"]
    IN /\ \A g \in {"disk", "mem"} : Has("resources", g) => SizeWritten(At("resources", g))
       /\ Has("user", "home") => PathWritten(At("user", "home"), Component)
       /\ Supplies(d, "env") /\ d.entries["env"].kind = "table" =>
            IsFiniteSet(Entries(d.entries["env"]))
       /\ Has("nixos", "modules") => IsSequence(At("nixos", "modules"))
       /\ \A p \in {"tcp", "udp"} :
            Has("network", "ports") /\ Supplies(At("network", "ports"), p) =>
                IsSequence(At("network", "ports").entries[p])
       /\ Supplies(d, "mounts") =>
            /\ IsSequence(mounts)
            /\ mounts.kind = "array" =>
                \A i \in DOMAIN mounts.items :
                    Supplies(mounts.items[i], "target") =>
                        PathWritten(mounts.items[i].entries["target"], Component)

DocumentsToParse(Docs, Component) ==
    {i \in [rule : {"document"}, document : Docs] : Written(i.document, Component)}

NameInputs(Text) == NamesToSplit(Text) \cup CatalogsToOpen(Text) \cup VMsToList(Text)

\* What names are put together from can be told from them: the VM of a Lima
\* instance, the module of a selector, the instance of a listed VM
\* (hostagent/options.go, nixos/catalog, vm/list.go).
NamesUnambiguous ==
    /\ input.rule = "name" => NamesOneVM(input.name, input.identities)
    /\ input.rule = "catalog" => SelectsOneModule(input.modules, input.name, input.imported)
    /\ input.rule = "list" => ListsOwnInstances(input.identities, input.names, input.inspect)

\* Nothing a valid configuration asks for is hidden or opened by the machine
\* that is rendered from it (config/validate.go, lima/template.go).
MountsVisible ==
    input.rule = "machine" => MachineServes(input.config, input.arch, input.host, input.uid)

\* An accepted configuration document means what it says (config/parser.go).
DocumentsKept == input.rule = "document" => DocumentMeans(input.document)

\* Host paths have one resolved form, the one the kernel finds, and a
\* configuration file gives one home root however it is named
\* (filesystem/path.go, config/load.go).
PathsCanonical ==
    /\ input.rule = "path" => ResolvesCanonically(input.fs, input.path)
    /\ input.rule = "load" => LoadsOneRoot(input.fs, input.filename, input.value)

\* Sizes and environments are read as they were written (domain/size.go,
\* nixos/environment.go).
ValuesSurvive ==
    /\ input.rule = "size" => SizeSurvives(input.amount)
    /\ input.rule = "environment" =>
        EnvironmentSurvives(SetToSeq(DOMAIN input.env), input.env)

=============================================================================
