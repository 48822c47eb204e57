------------------------------- MODULE MCRules -------------------------------
(***************************************************************************)
(* The pure rules over bounded inputs: a state is one input of one rule.   *)
(***************************************************************************)
EXTENDS RuleInputs, TLC

-----------------------------------------------------------------------------
\* File systems with a and b in the root, and a and b in a. Links lead up,
\* sideways, through each other and to themselves.

Targets == {Link("root", <<"b">>), Link("here", <<"..", "b">>),
            Link("here", <<"b">>), Link("here", <<"a", "..">>)}
Nodes == {Missing, Directory, File} \cup Targets
Slots == {<<"a">>, <<"b">>, <<"a", "a">>, <<"a", "b">>}

FileSystems ==
    {fs \in [Slots -> Nodes] :
        fs[<<"a">>] # Directory => fs[<<"a", "a">>] = Missing /\ fs[<<"a", "b">>] = Missing}

Components == {"a", "b", ".."}
Paths ==
    [from : {"root"}, comps : BoundedSeq(Components, 3) \cup {<<"a", "", "b">>, <<".", "a", ".">>}]
        \cup [from : {"cwd", "home", "nobody"}, comps : BoundedSeq(Components, 2)]

\* The home directory, and a working directory that may be named by a link.
HomeLink == <<"b">>
CwdNamed == <<"a">>

Filenames == [from : {"root"}, comps : {<<"a">>, <<"b">>, <<"a", "a">>, <<"a", "b">>}]
Values    == [from : {"cwd"}, comps : BoundedSeq(Components, 2)]

-----------------------------------------------------------------------------
\* Documents: for each field left out, values that are accepted and values
\* that are not.

Supply(field, values) == {<<>>} \cup {field :> v : v \in values}

MountTables ==
    {Table(m @@ s @@ t @@ u) :
        m \in Supply("mode", {String("ro"), String("bad"), Integer(1)}),
        s \in Supply("source", {String("data")}),
        t \in Supply("target", {String(<<"data", "">>), String(<<"..">>)}),
        u \in Supply("other", {String("x")})}

MountLists ==
    {Array(<<>>)} \cup {Array(<<m>>) : m \in MountTables}
        \cup {Array(<<m, Table([source |-> String("s"), target |-> String(<<"srv">>)])>>) :
                m \in MountTables}

Environments == {Table(<<>>), Table("A" :> String("x")), Table("A" :> Integer(1)),
                 Table("bad" :> String("x")), Table("APP_ENV" :> String("prod"))}

Networks ==
    LET Ports(entries) == Table("ports" :> Table(entries))
    IN {Table(<<>>), Ports(<<>>), Ports("udp" :> Array(<<Integer(53)>>)),
        Table([mode |-> String("shared"),
               ports |-> Table([tcp |-> Array(<<>>), udp |-> Array(<<Integer(53)>>)])]),
        Table([mode |-> String("bridge"), ports |-> Table(<<>>)]),
        Ports("tcp" :> Array(<<Integer(80), Integer(65536)>>)),
        Ports("sctp" :> Array(<<>>)), Table("tcp" :> Array(<<>>)),
        Table("ports" :> Array(<<>>)), Ports("tcp" :> Array(<<String("x")>>))}

Documents ==
    {Table(r @@ n @@ e @@ m @@ u @@ x) :
        r \in Supply("resources", {Table("cpu" :> Integer(2)), Table("cpu" :> Integer(0)),
                Table([cpu |-> Integer(1), disk |-> String(9), arch |-> String("amd64")]),
                Table("mem" :> String(99)), String("x")}),
        n \in Supply("network", Networks),
        e \in Supply("env", Environments),
        m \in Supply("mounts", {Array(<<>>),
                Array(<<Table([source |-> String("s"), target |-> String(<<"srv">>)])>>)}),
        u \in Supply("user", {Table([home |-> String(<<"home", ".", "me">>), sudo |-> Boolean(FALSE)]),
                              Table("home" :> String(<<"", "home">>)),
                              Table("sudo" :> String("x"))}),
        x \in {<<>>, "name" :> String("bad"), "arch" :> String("x"),
               [name |-> String("box"), nixos |-> Table("modules" :> Array(<<String("m"), String("n")>>))],
               "nixos" :> Table("modules" :> Array(<<String("bad")>>))}}
    \cup {Table(n @@ m) : n \in Supply("network", Networks), m \in Supply("mounts", MountLists)}

-----------------------------------------------------------------------------
\* Configurations that differ in the home and in up to two mounts.

GuestPaths == {<<"mnt">>, <<"home">>, <<"home", "dev">>, <<"home", "dev", "x">>, <<"srv">>,
               <<"srv", "x">>, <<"mnt", "limanix">>, <<"mnt", "limanix", "x">>, <<"mnt", "x">>,
               <<"home", "limanix-admin">>, <<"etc", "x">>}

Mounts == [mode : {"ro"}, source : {"s"}, target : GuestPaths]
            \cup [mode : {"rw"}, source : {"s"}, target : {<<"srv">>, <<"home", "dev", "x">>}]

Configurations ==
    {[Default EXCEPT !.user.home = h, !.mounts = m] :
        h \in GuestPaths, m \in BoundedSeq(Mounts, 2)}

-----------------------------------------------------------------------------
\* Names, catalogs and lists.

Names(n) == BoundedSeq(Parts \cup Dotted \cup {Empty, "BAD"}, n)

Identities == [name : Names(2), id : Hex]

Module(name, versions, default, files) ==
    [name |-> name, versions |-> versions, default |-> default, files |-> files]

\* Plain modules, versioned ones, and ones with broken metadata.
Modules ==
    {Module(n, <<>>, Empty, {"default.nix"}) :
        n \in {<<"tool">>, <<"tool", "26">>, <<"tool", "x">>, <<"26">>}}
    \cup {Module(n, v, d, {"default.nix"} \cup f) :
        n \in {<<"tool">>, <<"tool", "26">>},
        v \in {<<"26">>, <<"1.24", "26">>, <<"26", "26">>}, d \in {Empty, "26"},
        f \in {{"26"}, {"26", "1.24"}}}

Catalogs == {c \in BoundedSeq(Modules, 2) : Len(c) = 2 => c[1].name # c[2].name}

Selectors == BoundedSeq({"tool", "26", "1.24", "x"}, 3)

\* VMs with names that continue each other, and an instance of somebody else.
Owned == {[name |-> n, id |-> h] : n \in {<<"tool">>, <<"tool", "feedfeedfeed">>}, h \in Hex}
Foreign == <<"tool", "limanix", "feedfeedfeed">>
InstanceNames == {LimaName(i) : i \in Owned} \cup {Foreign}

Inspections == {"missing", "broken", "unknown", "Running", "Stopped"}

-----------------------------------------------------------------------------
\* Values.

EnvValues == BoundedSeq(Characters, 3)

Init ==
    \/ input \in [rule : {"path"}, fs : FileSystems, path : Paths]
    \/ input \in [rule : {"load"}, fs : FileSystems, filename : Filenames, value : Values]
    \/ input \in [rule : {"document"}, document : Documents]
    \/ input \in [rule : {"machine"}, config : Configurations,
                  arch : {"arm64"}, host : {"arm64", "amd64"}, uid : {501, 1000, 1001}]
    \/ input \in [rule : {"name"}, name : Names(4), identities : {Identities}]
    \/ input \in [rule : {"catalog"}, modules : Catalogs, name : Selectors,
                  imported : {{}, {<<"tool">>}}]
    \/ \E ids \in SUBSET Owned, store \in SUBSET InstanceNames :
            \E inspect \in [store -> Inspections] :
                input = [rule |-> "list", identities |-> ids, names |-> SetToSeq(store),
                         inspect |-> inspect]
    \/ input \in [rule : {"size"}, amount : 0..(2 * Half)]
    \/ input \in [rule : {"environment"},
                  env : [{"A", "B"} -> BoundedSeq(Characters, 2)] \cup [{"A"} -> EnvValues]]

\* An input stays what it is.
Next == UNCHANGED input

Spec == Init /\ [][Next]_input

=============================================================================
