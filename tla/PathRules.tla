------------------------------ MODULE PathRules ------------------------------
(***************************************************************************)
(* Host paths (internal/filesystem: path.go; internal/config: load.go).    *)
(*                                                                         *)
(* A path is where it starts and the components that follow. A resolved    *)
(* path is the sequence of its components from the root. A file system     *)
(* maps the paths that may exist below the root to nodes.                  *)
(*                                                                         *)
(* Resolve puts the target of a symlink before the rest of the path and    *)
(* starts anew; the reference, Kernel, goes on from where the link is, and *)
(* fails where a component is missing.                                     *)
(***************************************************************************)
EXTENDS Naturals, SequencesExt

CONSTANTS
    Home,       \* the user's home directory, resolved
    Cwd         \* os.Getwd, which need not be resolved

Missing   == [kind |-> "missing"]
Directory == [kind |-> "directory"]
File      == [kind |-> "file"]
Link(from, comps) == [kind |-> "link", from |-> from, comps |-> comps]

MaxLinks == 40

Ok(path) == [ok |-> TRUE, path |-> path]
Failed   == [ok |-> FALSE, path |-> <<>>]

Parent(path) == IF path = <<>> THEN path ELSE Front(path)
Ancestors(path) == {SubSeq(path, 1, n) : n \in 0..(Len(path) - 1)}
Absolute(path) == [from |-> "root", comps |-> path]

\* The node under the name of a path, and what lstat says of a path without
\* links on the way. A file has nothing below it.
NodeAt(fs, path) ==
    CASE path = <<>> -> Directory
      [] path # <<>> /\ path \in DOMAIN fs -> fs[path]
      [] OTHER -> Missing

Lstat(fs, path) ==
    IF \E a \in Ancestors(path) : NodeAt(fs, a) = File THEN [kind |-> "error"]
    ELSE IF \A a \in Ancestors(path) : NodeAt(fs, a) = Directory THEN NodeAt(fs, path)
    ELSE Missing

-----------------------------------------------------------------------------
\* A path is walked component by component. At a symlink the walk stops, with
\* the directory its target starts from and the components still to be walked.
Walking(at) == [state |-> "walking", at |-> at, rest |-> <<>>]

Stop(s, node) ==
    [state |-> "link", at |-> IF node.from = "root" THEN <<>> ELSE s.at, rest |-> node.comps]

Leave(s, c) == [state |-> "link", at |-> s.at, rest |-> Append(s.rest, c)]

Fail(s) == [state |-> "failed", at |-> s.at, rest |-> s.rest]

\* The loop body of resolvePath. What is missing is kept as it is written.
Enter(fs, s, c) ==
    LET next == Append(s.at, c)
        node == Lstat(fs, next)
        name == s.state = "walking" /\ c \notin {"", ".", ".."}
    IN CASE s.state = "failed" -> s
         [] s.state = "link" -> Leave(s, c)
         [] s.state = "walking" /\ c \in {"", "."} -> s
         [] s.state = "walking" /\ c = ".." -> Walking(Parent(s.at))
         [] name /\ node.kind = "error" -> Fail(s)
         [] name /\ node.kind = "link" -> Stop(s, node)
         [] name /\ node.kind \notin {"error", "link"} -> Walking(next)

\* The reference: the step of a kernel's walk. It leaves only directories, and
\* enters only what exists.
KernelEnter(fs, s, c) ==
    LET next == Append(s.at, c)
        node == Lstat(fs, next)
        goes == s.state = "walking" /\ Lstat(fs, s.at) = Directory
    IN CASE s.state = "link" -> Leave(s, c)
         [] goes /\ c \in {"", "."} -> s
         [] goes /\ c = ".." -> Walking(Parent(s.at))
         [] goes /\ c \notin {"", ".", ".."} /\ node.kind = "link" -> Stop(s, node)
         [] goes /\ c \notin {"", ".", ".."} /\ node.kind \in {"directory", "file"}
                -> Walking(next)
         [] OTHER -> Fail(s)

Goes(fs, s, c, kernel) == IF kernel THEN KernelEnter(fs, s, c) ELSE Enter(fs, s, c)

Scan(fs, start, comps, kernel) ==
    LET after[n \in 0..Len(comps)] ==
            IF n = 0 THEN start ELSE Goes(fs, after[n - 1], comps[n], kernel)
    IN after[Len(comps)]

\* A kernel goes on from where the link is, with the target and the rest.
\* resolvePath puts them behind the directory and starts anew.
Follow(fs, s, kernel) ==
    CASE s.state # "link" -> s
      [] s.state = "link" /\ kernel -> Scan(fs, Walking(s.at), s.rest, kernel)
      [] s.state = "link" /\ ~kernel -> Scan(fs, Walking(<<>>), s.at \o s.rest, kernel)

Arrived(s) == IF s.state = "walking" THEN Ok(s.at) ELSE Failed

\* Both give up at the link after the last that is followed.
Walk(fs, at, comps, kernel) ==
    LET after[links \in 0..MaxLinks] ==
            IF links = 0 THEN Scan(fs, Walking(at), comps, kernel)
            ELSE Follow(fs, after[links - 1], kernel)
    IN Arrived(after[MaxLinks])

ResolvePath(fs, comps) == Walk(fs, <<>>, comps, FALSE)

\* Mutant: the path is cleaned lexically before its links are followed.
ExpandHomeCleaned(path) ==
    LET Clean(comps) == FoldLeft(LAMBDA s, c :
                            IF c = ".." THEN Parent(s) ELSE Append(s, c), <<>>, comps)
    IN [from |-> IF path.from = "home" THEN "root" ELSE path.from,
        comps |-> Clean(IF path.from = "home" THEN Home \o path.comps ELSE path.comps)]

\* ~ is the user's home; an unknown account has none.
ExpandHome(path) ==
    CASE path.from = "home" -> [from |-> "root", comps |-> Home \o path.comps]
      [] path.from = "nobody" -> [from |-> "error", comps |-> <<>>]
      [] OTHER -> path

Resolve(fs, path) ==
    LET expanded == ExpandHome(path)
    IN CASE expanded.from = "error" -> Failed
         [] expanded.from = "cwd" -> ResolvePath(fs, Cwd \o expanded.comps)
         [] OTHER -> ResolvePath(fs, expanded.comps)

\* A directory that exists, under its resolved name.
RequireDirectory(fs, path) ==
    LET resolved == Resolve(fs, path)
    IN IF resolved.ok /\ Lstat(fs, resolved.path) = Directory THEN resolved ELSE Failed

\* What is there, if anything, is a directory and no link.
CheckDirectory(fs, path) == Lstat(fs, path) \in {Missing, Directory}

\* Mutant: relative to the directory in which the file was named.
CanonicalHostPathNamed(fs, value, filename) ==
    IF value.from = "cwd"
    THEN Resolve(fs, [filename EXCEPT !.comps = Parent(@) \o value.comps])
    ELSE Resolve(fs, value)

\* canonicalHostPath: a relative path in a configuration file starts in the
\* directory of the real file.
CanonicalHostPath(fs, value, filename) ==
    IF value.from = "cwd"
    THEN Resolve(fs, Absolute(Parent(Resolve(fs, filename).path) \o value.comps))
    ELSE Resolve(fs, value)

\* Load reads a regular file; its home root must not be /.
LoadedRoot(fs, filename, value) ==
    LET resolved == Resolve(fs, filename)
        root     == CanonicalHostPath(fs, value, filename)
    IN IF resolved.ok /\ Lstat(fs, resolved.path) = File /\ root.path # <<>>
       THEN root ELSE Failed

-----------------------------------------------------------------------------
\* Where a kernel finds a path, and one that starts at a directory.
KernelFrom(fs, at, comps) == Walk(fs, at, comps, TRUE)

Kernel(fs, path) ==
    LET start == CASE path.from = "cwd" -> Cwd
                   [] path.from = "home" -> Home
                   [] OTHER -> <<>>
    IN IF path.from = "nobody" THEN Failed
       ELSE KernelFrom(fs, <<>>, start \o path.comps)

\* One file has one resolved path, whatever links lead to it and although ".."
\* follows a link: Resolve agrees with the kernel wherever that finds the
\* path. What it returns names no link, resolves to itself, and passes
\* CheckDirectory where it is a directory.
ResolvesCanonically(fs, path) ==
    LET resolved == Resolve(fs, path)
    IN /\ Kernel(fs, path).ok => resolved = Kernel(fs, path)
       /\ resolved.ok =>
            /\ Resolve(fs, Absolute(resolved.path)) = resolved
            /\ \A a \in Ancestors(resolved.path) : CheckDirectory(fs, a)
            /\ RequireDirectory(fs, path).ok => CheckDirectory(fs, resolved.path)

\* The home root of a configuration is the one its real location gives it,
\* under whatever name the file was loaded.
LoadsOneRoot(fs, filename, value) ==
    LET file == Kernel(fs, filename)
        root == KernelFrom(fs, Parent(file.path), value.comps)
    IN file.ok /\ Lstat(fs, file.path) = File /\ value.from = "cwd" /\ root.ok
        => LoadedRoot(fs, filename, value) =
                IF root.path = <<>> THEN Failed ELSE root

=============================================================================
