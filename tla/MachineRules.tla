------------------------------ MODULE MachineRules ------------------------------
(***************************************************************************)
(* From the mounts of a configuration to the machine Lima is asked for     *)
(* (internal/config: validate.go, parser.go; internal/domain:              *)
(* validation.go; internal/lima: template.go).                             *)
(*                                                                         *)
(* A guest path is the sequence of the components after its first slash.   *)
(***************************************************************************)
EXTENDS Naturals, SequencesExt

-----------------------------------------------------------------------------
\* Guest paths.

\* NewGuestPath refuses "//", ".." and the root, and cleans the rest.
Cleaned(path) ==
    FlattenSeq([i \in DOMAIN path |-> IF path[i] \in {"", "."} THEN <<>> ELSE <<path[i]>>])
NewGuestPath(path) ==
    /\ path # <<>>
    /\ ~(Len(path) > 1 /\ path[1] = "")
    /\ \A i \in DOMAIN path : path[i] # ".."
    /\ Cleaned(path) # <<>>

\* isWithin, on clean paths.
Within(path, root) == IsPrefix(root, path)

\* The guest system's own directories, and Limanix' two.
Reserved == {<<"etc">>, <<"nix">>, <<"mnt", "limanix">>, <<"home", "limanix-admin">>}

CheckedGuestTarget(path) ==
    /\ NewGuestPath(path)
    /\ \A root \in Reserved : ~Within(Cleaned(path), root)
    /\ ~Within(<<"home", "limanix-admin">>, Cleaned(path))

ValidateMounts(home, mounts) ==
    LET Target(i) == Cleaned(mounts[i].target)
    IN /\ CheckedGuestTarget(home)
       /\ \A i \in DOMAIN mounts :
            /\ CheckedGuestTarget(mounts[i].target)
            /\ ~Within(Cleaned(home), Target(i))
            /\ \A k \in 1..(i - 1) :
                ~Within(Target(i), Target(k)) /\ ~Within(Target(k), Target(i))

Normalized(config) ==
    LET Clean(mount) == [mount EXCEPT !.target = Cleaned(@)]
    IN [config EXCEPT
            !.user.home = Cleaned(@),
            !.mounts = [i \in DOMAIN config.mounts |-> Clean(config.mounts[i])]]

-----------------------------------------------------------------------------
\* Render.

UsesVZ(arch, host) == arch = host

MachineTemplate(arch, host) ==
    IF UsesVZ(arch, host)
    THEN [vmType |-> "vz", mountType |-> "virtiofs", network |-> "vzNAT"]
    ELSE [vmType |-> "qemu", mountType |-> "9p", network |-> "shared"]

\* The management user's UID is not the one the guest user gets.
ManagementUser(hostUID) == IF hostUID = 1000 THEN 1001 ELSE 1000

Mount(target, writable) == [target |-> target, writable |-> writable]

Requested(config) ==
    <<Mount(config.user.home, TRUE), Mount(<<"mnt", "limanix">>, FALSE)>>
        \o [i \in DOMAIN config.mounts |->
                Mount(config.mounts[i].target, config.mounts[i].mode = "rw")]

\* Mutant: the mounts stay in the order of the configuration.
TemplateMountsUnsorted(config) == Requested(config)

\* The mounts with fewer slashes, or as many and asked for earlier.
Before(mounts, i) ==
    {k \in DOMAIN mounts :
        \/ Len(mounts[k].target) < Len(mounts[i].target)
        \/ Len(mounts[k].target) = Len(mounts[i].target) /\ k < i}

\* Sorted by the number of slashes, stably.
TemplateMounts(config) ==
    LET mounts == Requested(config)
    IN [n \in DOMAIN mounts |->
            mounts[CHOOSE i \in DOMAIN mounts : Cardinality(Before(mounts, i)) = n - 1]]

Render(config, arch, host, hostUID) ==
    [machine |-> MachineTemplate(arch, host),
     adminUID |-> ManagementUser(hostUID),
     mounts |-> TemplateMounts(config)]

\* Every mount of a machine rendered from valid mounts is visible in the
\* guest: all are there, and no later one lies at or above an earlier one and
\* hides it, the runtime directory and the home included. Nothing covers
\* the management user's home, nothing but the home and the mounts marked rw
\* is writable. The management user does not take the host user's UID, and a
\* machine joins Lima's shared network exactly if it runs under QEMU, for
\* which alone a start sets the network up.
MachineServes(config, arch, host, hostUID) ==
    LET rendered == Render(config, arch, host, hostUID)
        mounts   == rendered.mounts
    IN ValidateMounts(config.user.home, config.mounts) /\ config = Normalized(config) =>
        /\ Len(mounts) = Len(config.mounts) + 2
        /\ {Mount(config.user.home, TRUE), Mount(<<"mnt", "limanix">>, FALSE)}
                \subseteq Range(mounts)
        /\ \A k \in DOMAIN config.mounts :
            Mount(config.mounts[k].target, config.mounts[k].mode = "rw") \in Range(mounts)
        /\ \A i \in DOMAIN mounts :
            /\ \A k \in 1..(i - 1) : ~Within(mounts[k].target, mounts[i].target)
            /\ ~Within(<<"home", "limanix-admin">>, mounts[i].target)
            /\ mounts[i].writable =>
                \/ mounts[i].target = config.user.home
                \/ \E k \in DOMAIN config.mounts :
                    config.mounts[k].target = mounts[i].target /\ config.mounts[k].mode = "rw"
        /\ rendered.adminUID # hostUID
        /\ rendered.machine.network = "shared" <=> rendered.machine.vmType = "qemu"

=============================================================================
